--------------------------- MODULE MessagesProofs ---------------------------
(***************************************************************************)
(* Proofs about Messages, for requests with vtables of any length and any  *)
(* content, and for every type a request may carry.                        *)
(*                                                                         *)
(* ReadsAreChecked is not inductive: a handler's next read is safe because *)
(* the table it reads was verified with that handler's verifier and        *)
(* because what is left to read is part of what the handler reads.  ReadInv *)
(* carries both from Verify to the last read.                              *)
(*                                                                         *)
(* CallsReachTheirTable and ClientReadsWhatWasMeant hold of the calls that *)
(* are still to be made, so the invariant BuildInv says at which stage of  *)
(* which answer the builder is.  A stage gives the calls that are left,    *)
(* the open frames below and what the open table shall become (Fills: each *)
(* call left sets one field that is not there yet, all others are as they  *)
(* shall be).  Contracting is a contract on any frames and before any      *)
(* calls, so that list_contracts, for pages of any length, and the other   *)
(* two handlers share it.                                                  *)
(***************************************************************************)
EXTENDS Messages, SequenceTheorems, TLAPS

Handlers == {"Login", "Register", "GetMe", "EditMe", "RequestContract", "ListContracts",
             "CheckContract"}
ReadsOf(h) == {Reads[h][i] : i \in DOMAIN Reads[h]}

VerifiedInv == phase = "verified" => VerifyUnion

ReadInv ==
    phase = "reading" =>
        /\ type \in DOMAIN MessageType /\ body # Absent
        /\ VerifyTable(Verifier[MessageType[type]], body)
        /\ todo \in Seq(ReadsOf(MessageType[type]))

IInv == TypeOK /\ VerifiedInv /\ ReadInv /\ ReadsAreChecked

-----------------------------------------------------------------------------
\* Every type of the schema has a handler.
LEMMA HandlerOfType == ASSUME NEW n \in DOMAIN MessageType PROVE MessageType[n] \in Handlers
  BY DEF MessageType, Handlers

\* A table that a verifier accepts is safe for the handler of the same table.
LEMMA SafeReads ==
  ASSUME NEW h \in Handlers, NEW t, VerifyTable(Verifier[h], t), NEW r \in ReadsOf(h)
  PROVE  ReadFault(h, t, r) = "none"
  <1> USE DEF VerifyTable, ReadFault, GetFault, ReadsOf, Reads, Verifier, Reader, Get, IfPresent,
          Str, Vec, Num, Field, StrField, Scalars
  <1>1. CASE h = "Login"
    BY <1>1 DEF LoginReads, LoginVerify, LoginReader
  <1>2. CASE h = "Register"
    BY <1>2 DEF RegisterReads, RegisterVerify, RegisterReader
  <1>3. CASE h = "GetMe"
    BY <1>3 DEF GetMeReads, GetMeVerify, GetMeReader
  <1>4. CASE h = "EditMe"
    BY <1>4 DEF EditMeReads, EditMeVerify, EditMeReader
  <1>5. CASE h = "RequestContract"
    BY <1>5 DEF RequestContractReads, RequestContractVerify, RequestContractReader
  <1>6. CASE h = "ListContracts"
    BY <1>6 DEF ListContractsReads, ListContractsVerify, ListContractsReader
  <1>7. CASE h = "CheckContract"
    BY <1>7 DEF CheckContractReads, CheckContractVerify, CheckContractReader
  <1> QED BY <1>1, <1>2, <1>3, <1>4, <1>5, <1>6, <1>7 DEF Handlers

\* What a handler reads is a sequence of its reads.
LEMMA ReadsAreSequences ==
  ASSUME NEW h \in Handlers  PROVE Reads[h] \in Seq(ReadsOf(h))
  <1> USE DEF Reads, ReadsOf
  <1>1. CASE h = "Login"
    BY <1>1 DEF LoginReads
  <1>2. CASE h = "Register"
    BY <1>2 DEF RegisterReads
  <1>3. CASE h = "GetMe"
    BY <1>3 DEF GetMeReads
  <1>4. CASE h = "EditMe"
    BY <1>4 DEF EditMeReads
  <1>5. CASE h = "RequestContract"
    BY <1>5 DEF RequestContractReads
  <1>6. CASE h = "ListContracts"
    BY <1>6 DEF ListContractsReads
  <1>7. CASE h = "CheckContract"
    BY <1>7 DEF CheckContractReads
  <1> QED BY <1>1, <1>2, <1>3, <1>4, <1>5, <1>6, <1>7 DEF Handlers

-----------------------------------------------------------------------------
\* A request that has only been received has not been read.
LEMMA InitInv == Init => IInv
  BY DEF Init, IInv, TypeOK, VerifiedInv, ReadInv, ReadsAreChecked

\* The verifier's answer is what the phase says.
LEMMA VerifyStep == ASSUME IInv, Verify PROVE IInv'
  BY DEF IInv, Verify, TypeOK, VerifiedInv, ReadInv, ReadsAreChecked, VerifyUnion, builderVars

\* A handler gets the table that was verified for it.
LEMMA DispatchStep == ASSUME IInv, Dispatch PROVE IInv'
  <1> USE DEF IInv, Dispatch, builderVars
  <1>1. CASE type \in DOMAIN MessageType
    <2>1. VerifyUnion
      BY DEF VerifiedInv
    <2>2. type # 0
      BY <1>1 DEF MessageType
    <2>3. body # Absent /\ VerifyTable(Verifier[MessageType[type]], body)
      BY <1>1, <2>1, <2>2 DEF VerifyUnion
    <2>4. Reads[MessageType[type]] \in Seq(ReadsOf(MessageType[type]))
      BY <1>1, HandlerOfType, ReadsAreSequences
    <2>5. ReadInv'
      BY <1>1, <2>3, <2>4 DEF ReadInv
    <2>6. TypeOK' /\ VerifiedInv' /\ ReadsAreChecked'
      BY <1>1, <2>3 DEF TypeOK, VerifiedInv, ReadsAreChecked
    <2> QED BY <2>5, <2>6
  <1>2. CASE type \notin DOMAIN MessageType
    BY <1>2 DEF TypeOK, VerifiedInv, ReadInv, ReadsAreChecked
  <1> QED BY <1>1, <1>2

\* A read of a verified table is safe and leaves the rest to be read.
LEMMA ReadStep == ASSUME IInv, ReadField PROVE IInv'
  <1> USE DEF IInv, ReadField, builderVars
  <1> DEFINE h == MessageType[type]
  <1>1. h \in Handlers /\ VerifyTable(Verifier[h], body) /\ todo \in Seq(ReadsOf(h))
    BY HandlerOfType DEF ReadInv
  <1>2. Head(todo) \in ReadsOf(h) /\ Tail(todo) \in Seq(ReadsOf(h))
    BY <1>1, HeadTailProperties
  <1>3. fault' = "none"
    BY <1>1, <1>2, SafeReads
  <1>4. ReadInv'
    BY <1>2 DEF ReadInv
  <1>5. TypeOK' /\ VerifiedInv' /\ ReadsAreChecked'
    BY <1>3 DEF TypeOK, VerifiedInv, ReadsAreChecked
  <1> QED BY <1>4, <1>5

\* Once the handler answers, the request is not read any more.
LEMMA AnswerStep == ASSUME IInv, Answer PROVE IInv'
  <1>1. /\ phase' = "building" /\ type' = Absent /\ body' = Absent /\ fault' = fault
    BY DEF Answer, AnswerError, AnswerToken, AnswerGetMe, AnswerRequestContract,
         AnswerListContracts, AnswerCheckContract, Respond
  <1> QED BY <1>1 DEF IInv, TypeOK, VerifiedInv, ReadInv, ReadsAreChecked

\* Building the response reads nothing of the request.
LEMMA BuildStep == ASSUME IInv, BuilderStep PROVE IInv'
  <1>1. /\ phase = "building" /\ phase' \in {"building", "answered"}
        /\ type' = type /\ body' = body /\ fault' \in {fault, "frame", "required"}
    BY DEF BuilderStep, StartTable, AddScalar, AddObject, AddRef, AddUnion, EndTable, StartVec,
         ListRow, PushRef, EndVec, EndRoot, Calling, Doing, Set
  <1> QED BY <1>1 DEF IInv, TypeOK, VerifiedInv, ReadInv, ReadsAreChecked

\* Every step keeps the invariant.
LEMMA NextInv == IInv /\ [Next]_vars => IInv'
  <1> SUFFICES ASSUME IInv, [Next]_vars PROVE IInv'
    OBVIOUS
  <1>1. CASE UNCHANGED vars
    BY <1>1 DEF vars, IInv, TypeOK, VerifiedInv, ReadInv, ReadsAreChecked, VerifyUnion
  <1> QED BY <1>1, VerifyStep, DispatchStep, ReadStep, AnswerStep, BuildStep DEF Next

\* It holds for ever.
LEMMA InvHolds == Spec => []IInv
  BY InitInv, NextInv, PTL DEF Spec

\* The phases of a request keep their types.
THEOREM MessageTypes == Spec => []TypeOK
  <1>1. IInv => TypeOK
    BY DEF IInv
  <1> QED BY <1>1, InvHolds, PTL

\* No handler reads past a request that the verifier accepted, trips a getter's
\* assertion or uses a null pointer, whatever vtable and fields the request has.
THEOREM VerifiedReadsSafe == Spec => []ReadsAreChecked
  <1>1. IInv => ReadsAreChecked
    BY DEF IInv
  <1> QED BY <1>1, InvHolds, PTL

-----------------------------------------------------------------------------
IsSeq(s) == \E F : s \in Seq(F)

\* Two sequences have a common set of elements.
LEMMA CommonSet ==
    ASSUME NEW s, NEW t, IsSeq(s), IsSeq(t)
    PROVE  \E F : s \in Seq(F) /\ t \in Seq(F)
<1>1. PICK F, G : s \in Seq(F) /\ t \in Seq(G)
  BY DEF IsSeq
<1>2. s \in Seq(F \cup G) /\ t \in Seq(F \cup G)
  BY <1>1, SeqMonotonic
<1> QED BY <1>2

\* What sequences are made of.
LEMMA SeqMade ==
    /\ IsSeq(<<>>)
    /\ \A x : IsSeq(<<x>>)
    /\ \A s, t : IsSeq(s) /\ IsSeq(t) => IsSeq(s \o t)
    /\ \A s, x : IsSeq(s) => IsSeq(Append(s, x))
<1>1. IsSeq(<<>>)
  <2>1. <<>> \in Seq({})
    BY EmptySeq
  <2> QED BY <2>1 DEF IsSeq
<1>2. ASSUME NEW x PROVE IsSeq(<<x>>)
  <2>1. <<x>> \in Seq({x})
    OBVIOUS
  <2> QED BY <2>1 DEF IsSeq
<1>3. ASSUME NEW s, NEW t, IsSeq(s), IsSeq(t) PROVE IsSeq(s \o t)
  <2>1. PICK F : s \in Seq(F) /\ t \in Seq(F)
    BY <1>3, CommonSet
  <2>2. s \o t \in Seq(F)
    BY <2>1, ConcatProperties
  <2> QED BY <2>2 DEF IsSeq
<1>4. ASSUME NEW s, NEW x, IsSeq(s) PROVE IsSeq(Append(s, x))
  <2>1. PICK F : s \in Seq(F) /\ <<x>> \in Seq(F)
    BY <1>2, <1>4, CommonSet
  <2>2. s \in Seq(F \cup {x}) /\ x \in F \cup {x}
    BY <2>1, SeqMonotonic
  <2>3. Append(s, x) \in Seq(F \cup {x})
    BY <2>2, AppendProperties
  <2> QED BY <2>3 DEF IsSeq
<1> QED BY <1>1, <1>2, <1>3, <1>4

\* Concatenation is associative.
LEMMA Assoc ==
    ASSUME NEW s, NEW t, NEW u, IsSeq(s), IsSeq(t), IsSeq(u)
    PROVE  (s \o t) \o u = s \o (t \o u)
<1>1. PICK F : s \in Seq(F) /\ t \in Seq(F)
  BY CommonSet
<1>2. PICK G : u \in Seq(G)
  BY DEF IsSeq
<1>3. s \in Seq(F \cup G) /\ t \in Seq(F \cup G) /\ u \in Seq(F \cup G)
  BY <1>1, <1>2, SeqMonotonic
<1> QED BY <1>3, ConcatAssociative

\* Nothing before a sequence, and nothing after it.
LEMMA NoCalls == ASSUME NEW s, IsSeq(s) PROVE <<>> \o s = s /\ s \o <<>> = s
<1>1. PICK F : s \in Seq(F)
  BY DEF IsSeq
<1> QED BY <1>1, ConcatEmptySeq

\* The first of several calls and those after it.
LEMMA FirstCall ==
    ASSUME NEW p, NEW X, IsSeq(p), IsSeq(X), p # <<>>
    PROVE  /\ p \o X # <<>> /\ Head(p \o X) = Head(p) /\ Tail(p \o X) = Tail(p) \o X
           /\ IsSeq(Tail(p)) /\ Head(p) = p[1] /\ Len(p) \in Nat /\ Len(p) > 0
           /\ Len(Tail(p)) = Len(p) - 1 /\ \A i \in 1 .. Len(p) - 1 : Tail(p)[i] = p[i + 1]
<1>1. PICK F : p \in Seq(F) /\ X \in Seq(F)
  BY CommonSet
<1>2. /\ Tail(p) \in Seq(F) /\ Len(Tail(p)) = Len(p) - 1
      /\ \A i \in 1 .. Len(Tail(p)) : Tail(p)[i] = p[i + 1]
  BY <1>1, HeadTailProperties
<1>3. Len(p) \in Nat /\ Len(p) > 0 /\ Len(X) \in Nat /\ Head(p) = p[1]
  BY <1>1, LenProperties, EmptySeq
<1> DEFINE q == p \o X
<1>4. /\ q \in Seq(F) /\ Len(q) = Len(p) + Len(X)
      /\ \A i \in 1 .. Len(p) + Len(X) : q[i] = IF i <= Len(p) THEN p[i] ELSE X[i - Len(p)]
  BY <1>1, ConcatProperties
<1> HIDE DEF q
<1>5. q # <<>> /\ q[1] = p[1] /\ Head(q) = q[1]
  BY <1>3, <1>4
<1>6. /\ Tail(q) \in Seq(F) /\ Len(Tail(q)) = Len(q) - 1
      /\ \A i \in 1 .. Len(Tail(q)) : Tail(q)[i] = q[i + 1]
  BY <1>4, <1>5, HeadTailProperties
<1> DEFINE r == Tail(p) \o X
           w == Tail(p)
<1>7. w \in Seq(F) /\ Len(w) = Len(p) - 1 /\ \A i \in 1 .. Len(p) - 1 : w[i] = p[i + 1]
  BY <1>2
<1>8. /\ r \in Seq(F) /\ Len(r) = Len(w) + Len(X)
      /\ \A i \in 1 .. Len(w) + Len(X) : r[i] = IF i <= Len(w) THEN w[i] ELSE X[i - Len(w)]
  BY <1>1, <1>2, ConcatProperties
<1> HIDE DEF r, w
<1> DEFINE v == Tail(q)
<1>9. v \in Seq(F) /\ Len(v) = Len(p) + Len(X) - 1 /\ \A i \in 1 .. Len(v) : v[i] = q[i + 1]
  BY <1>4, <1>6
<1> HIDE DEF v
<1>10. Len(v) = Len(r)
  BY <1>3, <1>7, <1>8, <1>9
<1>11. ASSUME NEW i \in 1..Len(v) PROVE v[i] = r[i]
  <2>1. PICK n \in Nat, m \in Nat : n = Len(p) /\ m = Len(X) /\ n > 0
    BY <1>3
  <2>2. i \in 1 .. n + m - 1 /\ i + 1 \in 1 .. n + m
    BY <1>9, <2>1
  <2>3. v[i] = IF i + 1 <= n THEN p[i + 1] ELSE X[i + 1 - n]
    BY <1>4, <1>9, <2>1, <2>2
  <2>4. r[i] = IF i <= n - 1 THEN w[i] ELSE X[i - (n - 1)]
    <3>1. Len(w) = n - 1 /\ i \in 1 .. Len(w) + Len(X)
      BY <1>7, <2>1, <2>2
    <3> QED BY <1>8, <3>1
  <2>5. CASE i <= n - 1
    <3>1. i + 1 <= n /\ i \in 1 .. Len(p) - 1
      BY <2>1, <2>2, <2>5
    <3> QED BY <1>7, <2>3, <2>4, <2>5, <3>1
  <2>6. CASE ~(i <= n - 1)
    <3>1. ~(i + 1 <= n) /\ i + 1 - n = i - (n - 1)
      BY <2>1, <2>2, <2>6
    <3> QED BY <2>3, <2>4, <2>6, <3>1
  <2> QED BY <2>5, <2>6
<1>12. v = r
  BY <1>8, <1>9, <1>10, <1>11, SeqEqual
<1>13. Len(Tail(p)) = Len(p) - 1 /\ IsSeq(Tail(p)) /\ \A i \in 1 .. Len(p) - 1 : Tail(p)[i] = p[i + 1]
  BY <1>2 DEF IsSeq
<1> QED BY <1>3, <1>5, <1>12, <1>13 DEF q, r, v

\* A call and those after it.
LEMMA OneCall ==
    ASSUME NEW x, NEW X, IsSeq(X)
    PROVE  <<x>> \o X # <<>> /\ Head(<<x>> \o X) = x /\ Tail(<<x>> \o X) = X /\ IsSeq(<<x>> \o X)
<1>1. IsSeq(<<x>>) /\ <<x>> # <<>> /\ Head(<<x>>) = x /\ Tail(<<x>>) = <<>>
  BY SeqMade
<1>2. <<>> \o X = X
  BY NoCalls
<1>3. IsSeq(<<x>> \o X)
  BY <1>1, SeqMade
<1>4. <<x>> \o X # <<>> /\ Head(<<x>> \o X) = Head(<<x>>) /\ Tail(<<x>> \o X) = Tail(<<x>>) \o X
  <2> DEFINE p == <<x>>
  <2>1. IsSeq(p) /\ p # <<>>
    BY <1>1
  <2> HIDE DEF p
  <2>2. p \o X # <<>> /\ Head(p \o X) = Head(p) /\ Tail(p \o X) = Tail(p) \o X
    BY <2>1, FirstCall
  <2> QED BY <2>2 DEF p
<1> QED BY <1>1, <1>2, <1>3, <1>4, Zenon

\* The open frame and those below it.
LEMMA OpenFrame ==
    ASSUME NEW B, NEW f, IsSeq(B), NEW st, st = Append(B, f)
    PROVE  /\ Len(st) \in Nat /\ st[Len(st)] = f /\ SubSeq(st, 1, Len(st) - 1) = B
           /\ st # <<>> /\ Len(st) = Len(B) + 1
           /\ \A g : [st EXCEPT ![Len(st)] = g] = Append(B, g)
<1>1. PICK F : B \in Seq(F)
  BY DEF IsSeq
<1>2. Len(B) \in Nat
  BY <1>1, LenProperties
<1>3. ASSUME NEW g
      PROVE  /\ Append(B, g) \in Seq(F \cup {f, g}) /\ Append(B, g) # <<>>
             /\ Len(Append(B, g)) = Len(B) + 1
             /\ \A i \in 1..Len(B) : Append(B, g)[i] = B[i]
             /\ Append(B, g)[Len(B) + 1] = g
  <2>1. B \in Seq(F \cup {f, g}) /\ g \in F \cup {f, g}
    BY <1>1, SeqMonotonic
  <2> QED BY <2>1, AppendProperties
<1>4. Len(st) = Len(B) + 1 /\ st[Len(B) + 1] = f /\ st # <<>> /\ st \in Seq(F \cup {f})
  BY <1>3
<1>5. SubSeq(st, 1, Len(st) - 1) = B
  <2> DEFINE n == Len(st) - 1
             u == SubSeq(st, 1, n)
  <2>1. n = Len(B) /\ n \in Int /\ n \in Nat
    BY <1>2, <1>4
  <2> HIDE DEF n
  <2>2. \A i \in 1..n : st[i] = B[i] /\ st[i] \in F
    BY <1>1, <1>3, <2>1, ElementOfSeq
  <2>3. /\ u \in Seq(F) /\ Len(u) = (IF 1 <= n THEN n - 1 + 1 ELSE 0)
        /\ \A i \in 1 .. n - 1 + 1 : u[i] = st[1 + i - 1]
    BY <2>1, <2>2, SubSeqProperties
  <2> HIDE DEF u
  <2>4. Len(u) = Len(B)
    BY <2>1, <2>3
  <2>5. ASSUME NEW i \in 1..Len(u) PROVE u[i] = B[i]
    <3>1. i \in 1 .. n - 1 + 1 /\ i \in 1..n /\ 1 + i - 1 = i
      BY <2>1, <2>4
    <3> QED BY <2>2, <2>3, <3>1
  <2>6. u = B
    BY <1>1, <2>3, <2>4, <2>5, SeqEqual
  <2> QED BY <2>6 DEF u, n
<1>6. ASSUME NEW g PROVE [st EXCEPT ![Len(st)] = g] = Append(B, g)
  <2> DEFINE H == F \cup {f, g}
             u == [st EXCEPT ![Len(st)] = g]
             v == Append(B, g)
  <2>1. st \in Seq(H) /\ g \in H /\ Len(st) \in 1..Len(st)
    BY <1>2, <1>3, <1>4, SeqMonotonic
  <2>2. u \in Seq(H) /\ Len(u) = Len(st) /\ \A i \in 1..Len(st) : u[i] = IF i = Len(st) THEN g ELSE st[i]
    <3>1. u \in Seq(H) /\ DOMAIN u = DOMAIN st /\ DOMAIN st = 1..Len(st)
      BY <2>1, ExceptSeq, LenProperties
    <3>2. DOMAIN u = 1..Len(u) /\ Len(u) \in Nat /\ Len(st) \in Nat
      BY <2>1, <3>1, LenProperties
    <3>3. \A i \in 1..Len(st) : u[i] = IF i = Len(st) THEN g ELSE st[i]
      BY <3>1
    <3>4. Len(u) = Len(st)
      BY <2>1, ExceptSeq
    <3> QED BY <3>1, <3>3, <3>4
  <2>3. v \in Seq(H) /\ Len(v) = Len(st)
    BY <1>3, <1>4
  <2>4. ASSUME NEW i \in 1..Len(u) PROVE u[i] = v[i]
    <3>1. i \in 1..Len(B) \/ i = Len(B) + 1
      BY <1>2, <1>4, <2>2
    <3>2. CASE i \in 1..Len(B)
      <4>1. i # Len(st)
        BY <1>2, <1>4, <3>2
      <4> QED BY <1>3, <2>2, <3>2, <4>1
    <3>3. CASE i = Len(B) + 1
      BY <1>3, <1>4, <2>2, <3>3
    <3> QED BY <3>1, <3>2, <3>3
  <2> HIDE DEF u, v, H
  <2>5. u = v
    BY <2>2, <2>3, <2>4, SeqEqual
  <2> QED BY <2>5 DEF u, v
<1> QED BY <1>2, <1>4, <1>5, <1>6

Frame(t, S) == [table |-> t, slots |-> S]
BuildTables == {"User", "CheckContract", "Login", "Register", "GetMe", "EditMe",
                "RequestContract", "ListContracts", "Message"}
SlotsOf(t) == DOMAIN Builder[t].defaults

\* A builder's turn is the one that the next call names.
LEMMA TurnOf ==
    ASSUME BuilderStep
    PROVE  /\ phase = "building" /\ fault = "none" /\ todo # <<>> /\ UNCHANGED <<type, body, meant>>
           /\ Head(todo).op # "row" => todo' = Tail(todo)
           /\ Head(todo).op = "start" => StartTable
           /\ Head(todo).op = "scalar" => AddScalar
           /\ Head(todo).op = "put" => AddObject
           /\ Head(todo).op = "ref" => AddRef
           /\ Head(todo).op = "union" => AddUnion
           /\ Head(todo).op = "end" => EndTable
           /\ Head(todo).op = "vec_start" => StartVec
           /\ Head(todo).op = "row" => ListRow
           /\ Head(todo).op = "push" => PushRef
           /\ Head(todo).op = "vec_end" => EndVec
           /\ Head(todo).op = "root" => EndRoot
<1>1. StartTable => Doing("start")
  BY DEF StartTable
<1>2. AddScalar => Doing("scalar")
  BY DEF AddScalar
<1>3. AddObject => Doing("put")
  BY DEF AddObject
<1>4. AddRef => Doing("ref")
  BY DEF AddRef
<1>5. AddUnion => Doing("union")
  BY DEF AddUnion
<1>6. EndTable => Doing("end")
  BY DEF EndTable
<1>7. StartVec => Doing("vec_start")
  BY DEF StartVec
<1>8. ListRow => Calling("row") /\ UNCHANGED <<type, body, meant>>
  BY DEF ListRow
<1>9. PushRef => Doing("push")
  BY DEF PushRef
<1>10. EndVec => Doing("vec_end")
  BY DEF EndVec
<1>11. EndRoot => Doing("root")
  BY DEF EndRoot
<1> QED BY <1>1, <1>2, <1>3, <1>4, <1>5, <1>6, <1>7, <1>8, <1>9, <1>10, <1>11
        DEF BuilderStep, Doing, Calling

\* The call at the head of a list.
LEMMA HeadCall ==
    ASSUME BuilderStep, NEW x, NEW Y, IsSeq(Y), todo = <<x>> \o Y
    PROVE  Head(todo) = x /\ (x.op # "row" => todo' = Y)
<1>1. Head(todo) = x /\ Tail(todo) = Y
  BY OneCall
<1> QED BY <1>1, TurnOf

\* A field goes to the open table.
LEMMA SetField ==
    ASSUME NEW B, IsSeq(B), NEW t, t # "vec", NEW S, stack = Append(B, Frame(t, S)),
           NEW slot \in DOMAIN S, NEW v, Set(slot, v)
    PROVE  /\ stack' = Append(B, Frame(t, [S EXCEPT ![slot] = v]))
           /\ UNCHANGED <<phase, ref, out, fault>>
<1> DEFINE f == Frame(t, S)
           g == Frame(t, [S EXCEPT ![slot] = v])
<1>1. Top = f
  BY OpenFrame DEF Top
<1>2. f.table = t /\ f.slots = S /\ [f EXCEPT !.slots[slot] = v] = g
  BY DEF Frame
<1>3. Slotted(slot)
  BY <1>1, <1>2 DEF Slotted
<1>4. stack' = [stack EXCEPT ![Len(stack)].slots[slot] = v] /\ UNCHANGED <<phase, ref, out, fault>>
  BY <1>3 DEF Set
<1>5. stack' = [stack EXCEPT ![Len(stack)] = g]
  <2>1. stack[Len(stack)] = f
    BY <1>1 DEF Top
  <2>2. [stack EXCEPT ![Len(stack)].slots[slot] = v]
         = [stack EXCEPT ![Len(stack)] = [stack[Len(stack)] EXCEPT !.slots[slot] = v]]
    OBVIOUS
  <2> QED BY <1>2, <1>4, <2>1, <2>2
<1>6. [stack EXCEPT ![Len(stack)] = g] = Append(B, g)
  BY OpenFrame
<1> QED BY <1>4, <1>5, <1>6

\* A table is opened.
LEMMA StartCall ==
    ASSUME BuilderStep, NEW t \in BuildTables, NEW Y, IsSeq(Y), todo = <<Start(t)>> \o Y
    PROVE  /\ todo' = Y /\ stack' = Append(stack, Frame(t, [s \in SlotsOf(t) |-> Absent]))
           /\ UNCHANGED <<phase, ref, out, meant, fault>>
<1>1. Head(todo) = Start(t) /\ todo' = Y
  BY HeadCall DEF Start, Call
<1>2. StartTable
  BY <1>1, TurnOf DEF Start, Call
<1> QED BY <1>1, <1>2 DEF StartTable, Doing, Start, Call, Frame, SlotsOf

\* A reference is added to the open table.
LEMMA RefCall ==
    ASSUME BuilderStep, NEW t, t # "vec", NEW S, NEW slot \in DOMAIN S, NEW Y, IsSeq(Y),
           NEW B, IsSeq(B), todo = <<PutRef(t, slot)>> \o Y, stack = Append(B, Frame(t, S)),
           ref # Absent
    PROVE  /\ todo' = Y /\ stack' = Append(B, Frame(t, [S EXCEPT ![slot] = ref]))
           /\ UNCHANGED <<phase, ref, out, meant, fault>>
<1>a. PutRef(t, slot).op = "ref" /\ PutRef(t, slot).slot = slot
  BY DEF PutRef, Call
<1>b. PutRef(t, slot).op # "row"
  BY <1>a
<1>1. Head(todo) = PutRef(t, slot) /\ todo' = Y
  BY <1>b, HeadCall, Zenon
<1>2. AddRef
  BY <1>1, <1>a, TurnOf
<1>3. Set(slot, ref) /\ UNCHANGED meant
  BY <1>1, <1>2, <1>a DEF AddRef, Doing
<1>4. /\ stack' = Append(B, Frame(t, [S EXCEPT ![slot] = ref]))
      /\ UNCHANGED <<phase, ref, out, fault>>
  BY <1>3, SetField, Zenon
<1> QED BY <1>1, <1>3, <1>4, Zenon

\* A table with its required fields is closed.
LEMMA EndCall ==
    ASSUME BuilderStep, NEW t \in BuildTables, NEW S, NEW Y, IsSeq(Y), NEW B, IsSeq(B),
           todo = <<End(t)>> \o Y, stack = Append(B, Frame(t, S)),
           \A s \in Builder[t].required : Present(S, s)
    PROVE  todo' = Y /\ stack' = B /\ ref' = S /\ UNCHANGED <<phase, out, meant, fault>>
<1>1. Head(todo) = End(t) /\ todo' = Y
  BY HeadCall DEF End, Call
<1>2. EndTable
  BY <1>1, TurnOf DEF End, Call
<1>3. Top = Frame(t, S) /\ Below = B
  BY OpenFrame DEF Top, Below
<1>4. Top.table = t /\ Top.slots = S /\ t # "vec" /\ Head(todo).table = t
  BY <1>1, <1>3 DEF Frame, BuildTables, End, Call
<1>5. Complete(Head(todo).table)
  BY <1>4 DEF Complete
<1> QED BY <1>1, <1>2, <1>3, <1>4, <1>5 DEF EndTable, Doing

\* The vector of a page is opened.
LEMMA VecStartCall ==
    ASSUME BuilderStep, NEW Y, IsSeq(Y), todo = <<VecStart>> \o Y
    PROVE  /\ todo' = Y /\ stack' = Append(stack, Frame("vec", <<>>))
           /\ UNCHANGED <<phase, ref, out, meant, fault>>
<1>1. Head(todo) = VecStart /\ todo' = Y
  BY HeadCall DEF VecStart, Call
<1>2. StartVec
  BY <1>1, TurnOf DEF VecStart, Call
<1> QED BY <1>1, <1>2 DEF StartVec, Doing, Frame

\* A row's turn.
LEMMA RowCall ==
    ASSUME BuilderStep, NEW c, NEW Y, IsSeq(Y), todo = <<Row(c)>> \o Y
    PROVE  /\ todo' = ContractCalls(c) \o (<<Push>> \o Y)
           /\ UNCHANGED <<phase, stack, ref, out, meant, fault>>
<1>1. Head(todo) = Row(c) /\ Tail(todo) = Y
  BY OneCall
<1>2. ListRow /\ Head(todo).val = c
  BY <1>1, TurnOf DEF Row, Call
<1> QED BY <1>1, <1>2 DEF ListRow

\* A row is pushed.
LEMMA PushCall ==
    ASSUME BuilderStep, NEW S, NEW Y, IsSeq(Y), NEW B, IsSeq(B),
           todo = <<Push>> \o Y, stack = Append(B, Frame("vec", S)), ref # Absent
    PROVE  /\ todo' = Y /\ stack' = Append(B, Frame("vec", Append(S, ref)))
           /\ UNCHANGED <<phase, ref, out, meant, fault>>
<1> DEFINE f == Frame("vec", S)
           g == Frame("vec", Append(S, ref))
<1>1. Head(todo) = Push /\ todo' = Y
  BY HeadCall DEF Push, Call
<1>2. PushRef
  BY <1>1, TurnOf DEF Push, Call
<1>a. Top = f
  BY OpenFrame DEF Top
<1>3. Top = f /\ f.table = "vec" /\ f.slots = S /\ [f EXCEPT !.slots = Append(S, ref)] = g
  <2>1. f.table = "vec" /\ f.slots = S
    BY DEF Frame
  <2>2. \A T : [Frame("vec", S) EXCEPT !.slots = T] = Frame("vec", T)
    BY DEF Frame
  <2> QED BY <1>a, <2>1, <2>2
<1> HIDE DEF f, g
<1>4. /\ stack' = [stack EXCEPT ![Len(stack)].slots = IF ref = Absent THEN @ ELSE Append(@, ref)]
      /\ UNCHANGED <<phase, ref, out, meant, fault>>
  BY <1>2, <1>3 DEF PushRef, Doing
<1>5. stack[Len(stack)] = f
  BY <1>3 DEF Top
<1>6. stack' = [stack EXCEPT ![Len(stack)] = [stack[Len(stack)] EXCEPT !.slots = Append(stack[Len(stack)].slots, ref)]]
  BY <1>4
<1>7. stack' = [stack EXCEPT ![Len(stack)] = g]
  BY <1>3, <1>5, <1>6
<1>8. [stack EXCEPT ![Len(stack)] = g] = Append(B, g)
  BY OpenFrame DEF f
<1> QED BY <1>1, <1>4, <1>7, <1>8 DEF g

\* The vector is closed.
LEMMA VecEndCall ==
    ASSUME BuilderStep, NEW S, NEW Y, IsSeq(Y), NEW B, IsSeq(B),
           todo = <<VecEnd>> \o Y, stack = Append(B, Frame("vec", S))
    PROVE  todo' = Y /\ stack' = B /\ ref' = S /\ UNCHANGED <<phase, out, meant, fault>>
<1>1. Head(todo) = VecEnd /\ todo' = Y
  BY HeadCall DEF VecEnd, Call
<1>2. EndVec
  BY <1>1, TurnOf DEF VecEnd, Call
<1>a. Top = Frame("vec", S) /\ Below = B
  BY OpenFrame DEF Top, Below
<1>3. Below = B /\ Top.table = "vec" /\ Top.slots = S
  BY <1>a DEF Frame
<1> QED BY <1>1, <1>2, <1>3 DEF EndVec, Doing

RootStack(S) == Append(<<>>, Frame("Message", S))

\* The union's type and table go to the message.
LEMMA UnionCall ==
    ASSUME BuilderStep, NEW n \in 1..7, NEW S, DOMAIN S = 1..4, NEW Y, IsSeq(Y),
           todo = <<MsgAdd(n)>> \o Y, stack = RootStack(S), ref # Absent
    PROVE  /\ todo' = Y /\ stack' = RootStack([S EXCEPT ![1] = n, ![2] = ref])
           /\ UNCHANGED <<phase, ref, out, meant, fault>>
<1> DEFINE f == Frame("Message", S)
           T == [S EXCEPT ![1] = n, ![2] = ref]
           g == Frame("Message", T)
<1>1. MsgAdd(n).op = "union" /\ MsgAdd(n).slot = 2 /\ MsgAdd(n).val = n
  BY DEF MsgAdd, Call
<1>2. Head(todo) = MsgAdd(n) /\ todo' = Y
  BY <1>1, HeadCall
<1>3. AddUnion
  BY <1>1, <1>2, TurnOf
<1>4. stack = Append(<<>>, f) /\ IsSeq(<<>>)
  BY SeqMade DEF RootStack
<1>5. Top = f /\ stack[Len(stack)] = f
  BY <1>4, OpenFrame DEF Top
<1>6. f.table = "Message" /\ f.slots = S /\ \A U : [f EXCEPT !.slots = U] = Frame("Message", U)
  BY DEF Frame
<1>7. Slotted(2)
  BY <1>5, <1>6 DEF Slotted
<1> HIDE DEF f
<1>8. /\ stack' = [stack EXCEPT ![Len(stack)].slots = [@ EXCEPT ![2 - 1] = n, ![2] = ref]]
      /\ UNCHANGED <<phase, ref, out, meant, fault>>
  <2>1. n # 0
    OBVIOUS
  <2> QED BY <1>1, <1>2, <1>3, <1>7, <2>1 DEF AddUnion, Doing
<1>9. stack' = [stack EXCEPT ![Len(stack)] =
                   [stack[Len(stack)] EXCEPT !.slots = [stack[Len(stack)].slots EXCEPT ![1] = n, ![2] = ref]]]
  <2>1. 2 - 1 = 1
    OBVIOUS
  <2> QED BY <1>8, <2>1
<1>10. stack' = [stack EXCEPT ![Len(stack)] = g]
  BY <1>5, <1>6, <1>9
<1> HIDE DEF g
<1>11. [stack EXCEPT ![Len(stack)] = g] = Append(<<>>, g)
  BY <1>4, OpenFrame
<1> QED BY <1>2, <1>8, <1>10, <1>11 DEF g, RootStack

\* The message is finished.
LEMMA RootCall ==
    ASSUME BuilderStep, NEW S, todo = <<EndAsRoot>>, stack = RootStack(S)
    PROVE  /\ phase' = "answered" /\ out' = S /\ UNCHANGED <<meant, fault>>
<1>1. EndRoot
  <2>1. Head(todo) = EndAsRoot
    OBVIOUS
  <2> QED BY <2>1, TurnOf DEF EndAsRoot, Call
<1>2. stack = Append(<<>>, Frame("Message", S)) /\ IsSeq(<<>>)
  BY SeqMade DEF RootStack
<1>3. Top = Frame("Message", S) /\ Len(stack) = Len(<<>>) + 1
  BY <1>2, OpenFrame DEF Top
<1>4. Top.table = "Message" /\ Top.slots = S /\ Len(stack) = 1
  BY <1>3 DEF Frame
<1>5. Complete("Message")
  BY <1>4 DEF Complete, Builder, MessageBuilder, Build
<1> QED BY <1>1, <1>4, <1>5 DEF EndRoot, Doing

-----------------------------------------------------------------------------
\* What a call leaves in its slot: a scalar equal to the default is not stored.
Stored(x) ==
    IF x.op = "scalar" /\ x.val = Builder[x.table].defaults[x.slot] THEN Absent ELSE x.val

\* The calls p bring the slots S of an open table t to W: each sets a field of
\* its own that is not there yet, and the other fields are as they shall be.
Fills(p, t, S, W) ==
    /\ IsSeq(p) /\ S = [s \in SlotsOf(t) |-> S[s]] /\ W = [s \in SlotsOf(t) |-> W[s]]
    /\ \A k \in 1..Len(p) :
          /\ p[k].op \in {"scalar", "put"} /\ p[k].table = t /\ p[k].slot \in SlotsOf(t)
          /\ S[p[k].slot] = Absent /\ W[p[k].slot] = Stored(p[k])
          /\ \A j \in 1..Len(p) : p[j].slot = p[k].slot => j = k
    /\ \A s \in SlotsOf(t) : (\A k \in 1..Len(p) : p[k].slot # s) => S[s] = W[s]

\* When no call is left, the table is what it shall be.
LEMMA FillsEnd ==
    ASSUME NEW t, NEW S, NEW W, Fills(<<>>, t, S, W)
    PROVE  S = W
<1>1. Len(<<>>) = 0
  OBVIOUS
<1>2. \A s \in SlotsOf(t) : S[s] = W[s]
  BY <1>1 DEF Fills
<1>3. S = [s \in SlotsOf(t) |-> S[s]] /\ W = [s \in SlotsOf(t) |-> W[s]]
  BY DEF Fills
<1> QED BY <1>2, <1>3, Zenon

\* The next call sets its field.
LEMMA FillsNext ==
    ASSUME NEW p, NEW t, NEW S, NEW W, Fills(p, t, S, W), p # <<>>
    PROVE  /\ Head(p).slot \in SlotsOf(t) /\ S[Head(p).slot] = Absent
           /\ Fills(Tail(p), t, [S EXCEPT ![Head(p).slot] = Stored(Head(p))], W)
<1> DEFINE q == Tail(p)
           n == Len(p)
           a == Head(p).slot
           v == Stored(Head(p))
           T == [S EXCEPT ![a] = v]
<1>1. IsSeq(p) /\ IsSeq(<<>>)
  BY SeqMade DEF Fills
<1>2. /\ IsSeq(q) /\ Head(p) = p[1] /\ n \in Nat /\ n > 0 /\ Len(q) = n - 1
      /\ \A k \in 1 .. n - 1 : q[k] = p[k + 1]
  BY <1>1, FirstCall
<1>3. \A k \in 1..n :
          /\ p[k].op \in {"scalar", "put"} /\ p[k].table = t /\ p[k].slot \in SlotsOf(t)
          /\ S[p[k].slot] = Absent /\ W[p[k].slot] = Stored(p[k])
          /\ \A j \in 1..n : p[j].slot = p[k].slot => j = k
  BY DEF Fills
<1>4. a \in SlotsOf(t) /\ S[a] = Absent /\ W[a] = v
  BY <1>2, <1>3
<1>5. S = [s \in SlotsOf(t) |-> S[s]] /\ W = [s \in SlotsOf(t) |-> W[s]]
  BY DEF Fills
<1>6. \A s \in SlotsOf(t) : (\A k \in 1..n : p[k].slot # s) => S[s] = W[s]
  BY DEF Fills
<1>7. a = p[1].slot
  BY <1>2
<1> HIDE DEF q, n, a, v
<1>8. T = [s \in SlotsOf(t) |-> T[s]] /\ \A s \in SlotsOf(t) : T[s] = IF s = a THEN v ELSE S[s]
  BY <1>5
<1> HIDE DEF T
<1>9. ASSUME NEW k \in 1 .. n - 1
      PROVE  /\ q[k].op \in {"scalar", "put"} /\ q[k].table = t /\ q[k].slot \in SlotsOf(t)
             /\ T[q[k].slot] = Absent /\ W[q[k].slot] = Stored(q[k])
             /\ \A j \in 1 .. n - 1 : q[j].slot = q[k].slot => j = k
  <2>1. k + 1 \in 1..n /\ 1 \in 1..n /\ k + 1 # 1
    BY <1>2
  <2>2. q[k] = p[k + 1]
    BY <1>2
  <2>3. /\ p[k + 1].op \in {"scalar", "put"} /\ p[k + 1].table = t
        /\ p[k + 1].slot \in SlotsOf(t)
        /\ S[p[k + 1].slot] = Absent /\ W[p[k + 1].slot] = Stored(p[k + 1])
        /\ \A j \in 1..n : p[j].slot = p[k + 1].slot => j = k + 1
    BY <1>3, <2>1
  <2>4. p[k + 1].slot # a
    BY <1>7, <2>1, <2>3
  <2>5. T[p[k + 1].slot] = Absent
    BY <1>8, <2>3, <2>4
  <2>6. ASSUME NEW j \in 1 .. n - 1, q[j].slot = q[k].slot PROVE j = k
    <3>1. j + 1 \in 1..n /\ q[j] = p[j + 1]
      BY <1>2
    <3>2. j + 1 = k + 1
      BY <2>2, <2>3, <2>6, <3>1
    <3> QED BY <3>2
  <2> QED BY <2>2, <2>3, <2>5, <2>6
<1>10. ASSUME NEW s \in SlotsOf(t), \A k \in 1 .. n - 1 : q[k].slot # s PROVE T[s] = W[s]
  <2>1. CASE s = a
    BY <1>4, <1>8, <2>1
  <2>2. CASE s # a
    <3>1. ASSUME NEW k \in 1..n PROVE p[k].slot # s
      <4>1. CASE k = 1
        BY <1>7, <2>2, <4>1
      <4>2. CASE k # 1
        <5>1. k - 1 \in 1 .. n - 1 /\ k - 1 + 1 = k
          BY <1>2, <4>2
        <5>2. q[k - 1] = p[k]
          BY <1>2, <5>1
        <5> QED BY <1>10, <5>1, <5>2
      <4> QED BY <4>1, <4>2
    <3> QED BY <1>6, <1>8, <2>2, <3>1
  <2> QED BY <2>1, <2>2
<1>11. Fills(q, t, T, W)
  BY <1>2, <1>5, <1>8, <1>9, <1>10 DEF Fills
<1> QED BY <1>4, <1>11 DEF a, q, T, v

\* A field is added to the open table.
LEMMA FieldCall ==
    ASSUME BuilderStep, NEW t \in BuildTables, NEW p, NEW X, NEW B, NEW S, NEW W,
           IsSeq(X), IsSeq(B), p # <<>>, Fills(p, t, S, W), todo = p \o X,
           stack = Append(B, Frame(t, S))
    PROVE  \E T : /\ todo' = Tail(p) \o X /\ stack' = Append(B, Frame(t, T))
                  /\ Fills(Tail(p), t, T, W) /\ UNCHANGED <<phase, ref, out, meant, fault>>
<1> DEFINE x == Head(p)
           T == [S EXCEPT ![x.slot] = Stored(x)]
<1>1. IsSeq(p)
  BY DEF Fills
<1>2. /\ Head(todo) = x /\ Tail(todo) = Tail(p) \o X /\ x = p[1] /\ 1 \in 1..Len(p)
  BY <1>1, FirstCall
<1>3. x.op \in {"scalar", "put"} /\ x.table = t /\ x.slot \in SlotsOf(t) /\ S[x.slot] = Absent
  BY <1>2 DEF Fills
<1>4. S = [s \in SlotsOf(t) |-> S[s]] /\ DOMAIN S = SlotsOf(t)
  BY DEF Fills
<1>5. Fills(Tail(p), t, T, W)
  BY FillsNext
<1>6. t # "vec"
  BY DEF BuildTables
<1>7. todo' = Tail(p) \o X /\ UNCHANGED meant
  BY <1>2, <1>3, TurnOf
<1> HIDE DEF x
<1>8. CASE x.op = "scalar" /\ x.val = Builder[t].defaults[x.slot]
  <2>1. AddScalar
    BY <1>2, <1>8, TurnOf
  <2>2. UNCHANGED <<phase, stack, ref, out, fault>>
    BY <1>2, <1>3, <1>8, <2>1 DEF AddScalar
  <2>3. T = S
    <3>1. Stored(x) = Absent
      BY <1>3, <1>8 DEF Stored
    <3> QED BY <1>3, <1>4, <3>1
  <2> QED BY <1>5, <1>7, <2>2, <2>3
<1>9. CASE ~(x.op = "scalar" /\ x.val = Builder[t].defaults[x.slot])
  <2>1. Stored(x) = x.val
    BY <1>3, <1>9 DEF Stored
  <2>2. Set(x.slot, x.val)
    <3>1. CASE x.op = "scalar"
      <4>1. AddScalar
        BY <1>2, <3>1, TurnOf
      <4> QED BY <1>2, <1>3, <1>9, <3>1, <4>1 DEF AddScalar
    <3>2. CASE x.op = "put"
      <4>1. AddObject
        BY <1>2, <3>2, TurnOf
      <4> QED BY <1>2, <4>1 DEF AddObject
    <3> QED BY <1>3, <3>1, <3>2
  <2>3. /\ stack' = Append(B, Frame(t, [S EXCEPT ![x.slot] = x.val]))
        /\ UNCHANGED <<phase, ref, out, fault>>
    <3>1. x.slot \in DOMAIN S
      BY <1>3, <1>4
    <3> QED BY <1>6, <2>2, <3>1, SetField, Zenon
  <2> QED BY <1>5, <1>7, <2>1, <2>3
<1> QED BY <1>8, <1>9

\* What a table holds when its calls are done.
Kept(v, def) == IF v = def THEN Absent ELSE v
UserSlots(u) == <<u.username, u.firstName, u.lastName>>
RowSlots(c) ==
    <<Kept(c.id, -1), c.name, c.description, Kept(c.price, -1), c.attachment,
      Kept(c.status, 1), Kept(c.created_at, 0), Absent>>
ContractSlots(c) == [RowSlots(c) EXCEPT ![8] = UserSlots(c.by_user)]
MeSlots(me) == <<me.username, me.password, me.firstName, me.lastName, Kept(me.admin, FALSE)>>
NoSlots(t) == [s \in SlotsOf(t) |-> Absent]

UserFields(u) ==
    <<Put("User", 1, u.username), Put("User", 2, u.firstName), Put("User", 3, u.lastName)>>
MeFields(me) ==
    <<Put("GetMe", 1, me.username), Put("GetMe", 2, me.password), Put("GetMe", 3, me.firstName),
      Put("GetMe", 4, me.lastName), Scalar("GetMe", 5, me.admin)>>

\* What a contract is.
LEMMA ContractType ==
    ASSUME NEW c \in Contracts(Nat)
    PROVE  /\ c.id \in Nat /\ c.name = "name" /\ c.description \in {Absent, "description"}
           /\ c.price \in Int /\ c.attachment \in {Absent, "attachment"} /\ c.status = 1
           /\ c.created_at = 7 /\ c.by_user = Person
           /\ c = [id |-> c.id, name |-> c.name, description |-> c.description,
                   price |-> c.price, attachment |-> c.attachment, status |-> c.status,
                   created_at |-> c.created_at, by_user |-> c.by_user]
  BY MessagesAssumption DEF Contracts

\* The tables' slots.
LEMMA SlotNumbers ==
    /\ SlotsOf("User") = 1..3 /\ SlotsOf("CheckContract") = 1..8 /\ SlotsOf("GetMe") = 1..5
    /\ SlotsOf("Login") = 1..1 /\ SlotsOf("Register") = 1..1 /\ SlotsOf("EditMe") = 1..1
    /\ SlotsOf("RequestContract") = 1..1 /\ SlotsOf("ListContracts") = 1..1
    /\ SlotsOf("Message") = 1..4
  BY DEF SlotsOf, Builder, Build, UserBuilder, CheckContractBuilder, GetMeBuilder, LoginBuilder,
         RegisterBuilder, EditMeBuilder, RequestContractBuilder, ListContractsBuilder,
         MessageBuilder

\* A sequence of two, three or five calls.
LEMMA UserFills ==
    ASSUME NEW u
    PROVE  Fills(UserFields(u), "User", NoSlots("User"), UserSlots(u))
<1> DEFINE p == UserFields(u)
           W == UserSlots(u)
           S == NoSlots("User")
<1>1. SlotsOf("User") = 1..3
  BY SlotNumbers
<1>2. /\ p[1] = Put("User", 1, u.username) /\ p[2] = Put("User", 2, u.firstName)
      /\ p[3] = Put("User", 3, u.lastName) /\ Len(p) = 3
  BY DEF UserFields
<1>3. IsSeq(p)
  <2>1. p \in Seq({Put("User", 1, u.username), Put("User", 2, u.firstName), Put("User", 3, u.lastName)})
    BY DEF UserFields
  <2> QED BY <2>1 DEF IsSeq
<1>4. W[1] = u.username /\ W[2] = u.firstName /\ W[3] = u.lastName /\ W = [s \in 1..3 |-> W[s]]
  BY DEF UserSlots
<1>5. S = [s \in 1..3 |-> Absent]
  BY <1>1 DEF NoSlots
<1> HIDE DEF p, W, S
<1>6. /\ p[1].op = "put" /\ p[1].table = "User" /\ p[1].slot = 1 /\ Stored(p[1]) = u.username
      /\ p[2].op = "put" /\ p[2].table = "User" /\ p[2].slot = 2 /\ Stored(p[2]) = u.firstName
      /\ p[3].op = "put" /\ p[3].table = "User" /\ p[3].slot = 3 /\ Stored(p[3]) = u.lastName
  BY <1>2 DEF Put, Call, Stored
<1>7. \A k \in 1..3 : k = 1 \/ k = 2 \/ k = 3
  OBVIOUS
<1> QED BY <1>1, <1>2, <1>3, <1>4, <1>5, <1>6, <1>7 DEF Fills, p, W, S

\* The calls p set fields of U of table t, each once and to what W holds; the
\* fields of U they leave out are absent in W.
Writes(p, t, W, U) ==
    /\ IsSeq(p)
    /\ \A k \in 1..Len(p) :
          /\ p[k].op \in {"scalar", "put"} /\ p[k].table = t /\ p[k].slot \in U
          /\ W[p[k].slot] = Stored(p[k])
          /\ \A j \in 1..Len(p) : p[j].slot = p[k].slot => j = k
    /\ \A s \in U : (\A k \in 1..Len(p) : p[k].slot # s) => W[s] = Absent

\* No call, no field.
LEMMA WritesNothing == ASSUME NEW t, NEW W PROVE Writes(<<>>, t, W, {})
<1>1. IsSeq(<<>>) /\ Len(<<>>) = 0
  BY SeqMade
<1> QED BY <1>1 DEF Writes

\* A field that is left out.
LEMMA WritesSkip ==
    ASSUME NEW p, NEW t, NEW W, NEW U, Writes(p, t, W, U), NEW a, W[a] = Absent
    PROVE  Writes(p, t, W, U \cup {a})
  BY DEF Writes

\* A field more, before the others.
LEMMA WritesMore ==
    ASSUME NEW p, NEW t, NEW W, NEW U, Writes(p, t, W, U), NEW x, x.slot \notin U,
           x.op \in {"scalar", "put"}, x.table = t, W[x.slot] = Stored(x)
    PROVE  Writes(<<x>> \o p, t, W, U \cup {x.slot})
<1> DEFINE q == <<x>> \o p
           n == Len(p)
<1>1. IsSeq(p)
  BY DEF Writes
<1>2. IsSeq(q) /\ q # <<>> /\ Head(q) = x /\ Tail(q) = p /\ IsSeq(<<>>)
  BY <1>1, OneCall, SeqMade
<1>3. /\ q[1] = x /\ Len(q) \in Nat /\ Len(q) > 0 /\ n = Len(q) - 1
      /\ \A i \in 1 .. Len(q) - 1 : p[i] = q[i + 1]
  <2> HIDE DEF q, n
  <2>1. /\ Head(q) = q[1] /\ Len(q) \in Nat /\ Len(q) > 0
        /\ Len(Tail(q)) = Len(q) - 1 /\ \A i \in 1 .. Len(q) - 1 : Tail(q)[i] = q[i + 1]
    BY <1>2, FirstCall
  <2> QED BY <1>2, <2>1 DEF n
<1>4. \A k \in 1..n :
          /\ p[k].op \in {"scalar", "put"} /\ p[k].table = t /\ p[k].slot \in U
          /\ W[p[k].slot] = Stored(p[k])
          /\ \A j \in 1..n : p[j].slot = p[k].slot => j = k
  BY DEF Writes
<1>5. \A s \in U : (\A k \in 1..n : p[k].slot # s) => W[s] = Absent
  BY DEF Writes
<1> HIDE DEF q, n
<1>6. n \in Nat /\ Len(q) = n + 1 /\ \A i \in 1..n : q[i + 1] = p[i]
  BY <1>3
<1>7. \A k \in 1..(n + 1) : k = 1 \/ (k - 1 \in 1..n /\ q[k] = p[k - 1])
  <2> SUFFICES ASSUME NEW k \in 1..(n + 1), k # 1 PROVE k - 1 \in 1..n /\ q[k] = p[k - 1]
    OBVIOUS
  <2>1. k - 1 \in 1..n /\ k - 1 + 1 = k
    BY <1>6
  <2> QED BY <1>6, <2>1
<1>8. ASSUME NEW k \in 1..(n + 1)
      PROVE  /\ q[k].op \in {"scalar", "put"} /\ q[k].table = t /\ q[k].slot \in U \cup {x.slot}
             /\ W[q[k].slot] = Stored(q[k])
             /\ \A j \in 1..(n + 1) : q[j].slot = q[k].slot => j = k
  <2>1. CASE k = 1
    <3>1. ASSUME NEW j \in 1..(n + 1), j # 1 PROVE q[j].slot # x.slot
      <4>1. j - 1 \in 1..n /\ q[j] = p[j - 1]
        BY <1>7, <3>1
      <4>2. p[j - 1].slot \in U
        BY <1>4, <4>1
      <4> QED BY <4>1, <4>2
    <3> QED BY <1>3, <2>1, <3>1
  <2>2. CASE k # 1
    <3>1. k - 1 \in 1..n /\ q[k] = p[k - 1]
      BY <1>7, <2>2
    <3>2. /\ p[k - 1].op \in {"scalar", "put"} /\ p[k - 1].table = t /\ p[k - 1].slot \in U
          /\ W[p[k - 1].slot] = Stored(p[k - 1])
          /\ \A j \in 1..n : p[j].slot = p[k - 1].slot => j = k - 1
      BY <1>4, <3>1
    <3>3. ASSUME NEW j \in 1..(n + 1), q[j].slot = q[k].slot PROVE j = k
      <4>1. CASE j = 1
        BY <1>3, <3>1, <3>2, <3>3, <4>1
      <4>2. CASE j # 1
        <5>1. j - 1 \in 1..n /\ q[j] = p[j - 1]
          BY <1>7, <4>2
        <5>2. j - 1 = k - 1
          BY <3>1, <3>2, <3>3, <5>1
        <5> QED BY <5>2, <1>6
      <4> QED BY <4>1, <4>2
    <3> QED BY <3>1, <3>2, <3>3
  <2> QED BY <2>1, <2>2
<1>9. ASSUME NEW s \in U \cup {x.slot}, \A k \in 1..(n + 1) : q[k].slot # s PROVE W[s] = Absent
  <2>1. s # x.slot
    <3>1. 1 \in 1..(n + 1)
      BY <1>6
    <3> QED BY <1>3, <1>9, <3>1
  <2>2. ASSUME NEW i \in 1..n PROVE p[i].slot # s
    <3>1. i + 1 \in 1..(n + 1) /\ q[i + 1] = p[i]
      BY <1>6
    <3> QED BY <1>9, <3>1
  <2> QED BY <1>5, <2>1, <2>2
<1> QED BY <1>2, <1>6, <1>8, <1>9 DEF Writes, q

\* Calls for all fields but those that stay absent fill a new table.
LEMMA WritesFills ==
    ASSUME NEW p, NEW t, NEW W, NEW U, Writes(p, t, W, U), U \subseteq SlotsOf(t),
           W = [s \in SlotsOf(t) |-> W[s]], \A s \in SlotsOf(t) \ U : W[s] = Absent
    PROVE  Fills(p, t, NoSlots(t), W)
  BY DEF Writes, Fills, NoSlots

\* A text of a table.
LEMMA WritesPut ==
    ASSUME NEW p, NEW t, NEW W, NEW U, Writes(p, t, W, U), NEW a, a \notin U, NEW v, W[a] = v
    PROVE  Writes(<<Put(t, a, v)>> \o p, t, W, U \cup {a})
<1> DEFINE x == Put(t, a, v)
<1>1. x.slot = a /\ x.op \in {"scalar", "put"} /\ x.table = t /\ Stored(x) = v
  BY DEF Put, Call, Stored
<1> HIDE DEF x
<1>2. W[x.slot] = Stored(x) /\ x.slot \notin U
  BY <1>1
<1>3. Writes(<<x>> \o p, t, W, U \cup {x.slot})
  BY <1>1, <1>2, WritesMore
<1> QED BY <1>1, <1>3 DEF x

\* A scalar of a table.
LEMMA WritesScalar ==
    ASSUME NEW p, NEW t, NEW W, NEW U, Writes(p, t, W, U), NEW a, a \notin U, NEW v,
           W[a] = Kept(v, Builder[t].defaults[a])
    PROVE  Writes(<<Scalar(t, a, v)>> \o p, t, W, U \cup {a})
<1> DEFINE x == Scalar(t, a, v)
<1>1. x.slot = a /\ x.op \in {"scalar", "put"} /\ x.table = t
      /\ Stored(x) = Kept(v, Builder[t].defaults[a])
  BY DEF Scalar, Call, Stored, Kept
<1> HIDE DEF x
<1>2. W[x.slot] = Stored(x) /\ x.slot \notin U
  BY <1>1
<1>3. Writes(<<x>> \o p, t, W, U \cup {x.slot})
  BY <1>1, <1>2, WritesMore
<1> QED BY <1>1, <1>3 DEF x

\* A text that may be null.
LEMMA WritesUnlessNull ==
    ASSUME NEW p, NEW t, NEW W, NEW U, Writes(p, t, W, U), NEW a, a \notin U, NEW v, W[a] = v
    PROVE  Writes(PutUnlessNull(t, a, v) \o p, t, W, U \cup {a})
<1>1. CASE v = Absent
  <2>1. PutUnlessNull(t, a, v) \o p = p
    <3>1. IsSeq(p)
      BY DEF Writes
    <3> QED BY <1>1, <3>1, NoCalls DEF PutUnlessNull
  <2> QED BY <1>1, <2>1, WritesSkip
<1>2. CASE v # Absent
  <2>1. Writes(<<Put(t, a, v)>> \o p, t, W, U \cup {a})
    BY WritesPut
  <2> QED BY <1>2, <2>1 DEF PutUnlessNull
<1> QED BY <1>1, <1>2

CC == "CheckContract"
IdFields(c) == <<Scalar(CC, 1, c.id)>>
M0 == NoSlots("Message")
FailSlots == <<Absent, Absent, TRUE, "why">>
FailFields == <<Scalar("Message", 3, TRUE), Put("Message", 4, "why")>>

\* Concatenation as a name that the provers leave alone.
Cat(s, t) == s \o t

\* Concatenation is associative.
LEMMA CatAssoc == \A s, t, u : IsSeq(s) /\ IsSeq(t) /\ IsSeq(u) =>
    IsSeq(Cat(s, t)) /\ Cat(Cat(s, t), u) = Cat(s, Cat(t, u))
<1> SUFFICES ASSUME NEW s, NEW t, NEW u, IsSeq(s), IsSeq(t), IsSeq(u)
             PROVE  IsSeq(s \o t) /\ (s \o t) \o u = s \o (t \o u)
  BY DEF Cat
<1>1. (s \o t) \o u = s \o (t \o u)
  BY Assoc
<1>2. IsSeq(s \o t)
  BY SeqMade, Zenon
<1> QED BY <1>1, <1>2

\* The calls for the fields of a row, one after the other.
LEMMA RowCallsFlat ==
    ASSUME NEW c, NEW z, IsSeq(z)
    PROVE  /\ IsSeq(RowCalls(c))
           /\ RowCalls(c) \o z =
                 <<Put(CC, 2, c.name)>> \o (PutUnlessNull(CC, 3, c.description) \o
                 (<<Scalar(CC, 4, c.price)>> \o (PutUnlessNull(CC, 5, c.attachment) \o
                 (<<Scalar(CC, 6, c.status)>> \o (<<Scalar(CC, 7, c.created_at)>> \o z)))))
<1> DEFINE n == <<Put(CC, 2, c.name)>>
           d == PutUnlessNull(CC, 3, c.description)
           p == <<Scalar(CC, 4, c.price)>>
           a == PutUnlessNull(CC, 5, c.attachment)
           s == <<Scalar(CC, 6, c.status)>>
           t == <<Scalar(CC, 7, c.created_at)>>
           st == <<Scalar(CC, 6, c.status), Scalar(CC, 7, c.created_at)>>
<1>1. IsSeq(n) /\ IsSeq(p) /\ IsSeq(s) /\ IsSeq(t)
  BY SeqMade
<1>2. IsSeq(d) /\ IsSeq(a)
  BY SeqMade DEF PutUnlessNull
<1>3. st = s \o t
  OBVIOUS
<1>4. RowCalls(c) = (((n \o d) \o p) \o a) \o st
  BY DEF RowCalls, CC
<1> HIDE DEF n, d, p, a, s, t, st
<1>5. IsSeq(st)
  BY <1>1, <1>3, SeqMade, Zenon
<1>6. IsSeq(n \o d) /\ IsSeq((n \o d) \o p) /\ IsSeq(((n \o d) \o p) \o a)
  BY <1>1, <1>2, SeqMade, Zenon
<1>7. IsSeq(RowCalls(c))
  BY <1>4, <1>5, <1>6, SeqMade, Zenon
<1>8. st \o z = s \o (t \o z)
  <2>1. Cat(Cat(s, t), z) = Cat(s, Cat(t, z))
    BY <1>1, CatAssoc
  <2> QED BY <1>3, <2>1, Zenon DEF Cat
<1>9. ((((n \o d) \o p) \o a) \o st) \o z = n \o (d \o (p \o (a \o (st \o z))))
  <2>1. Cat(Cat(Cat(Cat(Cat(n, d), p), a), st), z) = Cat(n, Cat(d, Cat(p, Cat(a, Cat(st, z)))))
    BY <1>1, <1>2, <1>5, CatAssoc
  <2> QED BY <2>1, Zenon DEF Cat
<1>10. RowCalls(c) \o z = n \o (d \o (p \o (a \o (s \o (t \o z)))))
  BY <1>4, <1>8, <1>9, Zenon
<1> QED BY <1>7, <1>10 DEF n, d, p, a, s, t

\* The slots of a row one by one, and what its builder leaves out.
LEMMA RowSlotsAre ==
    ASSUME NEW c, NEW W, W = RowSlots(c)
    PROVE  /\ W[1] = Kept(c.id, Builder[CC].defaults[1]) /\ W[2] = c.name
           /\ W[3] = c.description /\ W[4] = Kept(c.price, Builder[CC].defaults[4])
           /\ W[5] = c.attachment /\ W[6] = Kept(c.status, Builder[CC].defaults[6])
           /\ W[7] = Kept(c.created_at, Builder[CC].defaults[7]) /\ W[8] = Absent
           /\ W = [s \in 1..8 |-> W[s]] /\ SlotsOf(CC) = 1..8
<1>1. /\ Builder[CC].defaults[1] = -1 /\ Builder[CC].defaults[4] = -1
      /\ Builder[CC].defaults[6] = 1 /\ Builder[CC].defaults[7] = 0
  BY DEF Builder, CC, CheckContractBuilder, Build
<1>2. SlotsOf(CC) = 1..8
  BY SlotNumbers DEF CC
<1> QED BY <1>1, <1>2 DEF RowSlots

\* The calls for a row after those for the fields in U.
LEMMA RowWrites ==
    ASSUME NEW c, NEW z, NEW U, Writes(z, CC, RowSlots(c), U), U \subseteq {1}
    PROVE  Writes(RowCalls(c) \o z, CC, RowSlots(c), U \cup (2..7))
<1> DEFINE W == RowSlots(c)
           z1 == <<Scalar(CC, 7, c.created_at)>> \o z
           z2 == <<Scalar(CC, 6, c.status)>> \o z1
           z3 == PutUnlessNull(CC, 5, c.attachment) \o z2
           z4 == <<Scalar(CC, 4, c.price)>> \o z3
           z5 == PutUnlessNull(CC, 3, c.description) \o z4
           z6 == <<Put(CC, 2, c.name)>> \o z5
<1>1. IsSeq(z)
  BY DEF Writes
<1>2. RowCalls(c) \o z = z6
  BY <1>1, RowCallsFlat
<1>3. /\ W[2] = c.name
      /\ W[3] = c.description /\ W[4] = Kept(c.price, Builder[CC].defaults[4])
      /\ W[5] = c.attachment /\ W[6] = Kept(c.status, Builder[CC].defaults[6])
      /\ W[7] = Kept(c.created_at, Builder[CC].defaults[7])
  BY RowSlotsAre
<1> HIDE DEF W
<1>4. Writes(z1, CC, W, U \cup {7})
  BY <1>3, 7 \notin U, WritesScalar DEF W
<1>5. Writes(z2, CC, W, U \cup {7} \cup {6})
  BY <1>3, <1>4, 6 \notin U \cup {7}, WritesScalar
<1>6. Writes(z3, CC, W, U \cup {7} \cup {6} \cup {5})
  BY <1>3, <1>5, 5 \notin U \cup {7} \cup {6}, WritesUnlessNull
<1>7. Writes(z4, CC, W, U \cup {7} \cup {6} \cup {5} \cup {4})
  BY <1>3, <1>6, 4 \notin U \cup {7} \cup {6} \cup {5}, WritesScalar
<1>8. Writes(z5, CC, W, U \cup {7} \cup {6} \cup {5} \cup {4} \cup {3})
  BY <1>3, <1>7, 3 \notin U \cup {7} \cup {6} \cup {5} \cup {4}, WritesUnlessNull
<1>9. Writes(z6, CC, W, U \cup {7} \cup {6} \cup {5} \cup {4} \cup {3} \cup {2})
  BY <1>3, <1>8, 2 \notin U \cup {7} \cup {6} \cup {5} \cup {4} \cup {3}, WritesPut
<1>10. U \cup {7} \cup {6} \cup {5} \cup {4} \cup {3} \cup {2} = U \cup (2..7)
  OBVIOUS
<1> HIDE DEF z6
<1> QED BY <1>2, <1>9, <1>10 DEF W

\* The fields of a contract, whether the id comes last or first.
LEMMA RowFills ==
    ASSUME NEW c
    PROVE  /\ Fills(RowCalls(c) \o IdFields(c), CC, NoSlots(CC), RowSlots(c))
           /\ Fills(IdFields(c) \o RowCalls(c), CC, NoSlots(CC), RowSlots(c))
<1> DEFINE W == RowSlots(c)
<1>1. Writes(<<>>, CC, W, {})
  BY WritesNothing
<1>2. /\ W[1] = Kept(c.id, Builder[CC].defaults[1]) /\ W[8] = Absent
      /\ W = [s \in 1..8 |-> W[s]] /\ SlotsOf(CC) = 1..8
  BY RowSlotsAre
<1>3. /\ IsSeq(IdFields(c)) /\ IdFields(c) \o <<>> = IdFields(c) /\ IsSeq(RowCalls(c))
      /\ RowCalls(c) \o <<>> = RowCalls(c)
  BY SeqMade, NoCalls, RowCallsFlat DEF IdFields
<1> HIDE DEF W
<1>4. Writes(IdFields(c), CC, W, {1})
  <2>1. Writes(<<Scalar(CC, 1, c.id)>> \o <<>>, CC, W, {} \cup {1})
    BY <1>1, <1>2, 1 \notin {}, WritesScalar
  <2> QED BY <1>3, <2>1 DEF IdFields
<1>5. Writes(RowCalls(c) \o IdFields(c), CC, W, {1} \cup (2..7))
  BY <1>4, RowWrites DEF W
<1>6. Writes(RowCalls(c), CC, W, {} \cup (2..7))
  BY <1>1, <1>3, RowWrites DEF W
<1>7. Writes(IdFields(c) \o RowCalls(c), CC, W, (2..7) \cup {1})
  <2>1. Writes(RowCalls(c), CC, W, 2..7)
    BY <1>6
  <2>2. Writes(<<Scalar(CC, 1, c.id)>> \o RowCalls(c), CC, W, (2..7) \cup {1})
    BY <1>2, <2>1, 1 \notin 2..7, WritesScalar
  <2> QED BY <2>2 DEF IdFields
<1>8. /\ {1} \cup (2..7) = 1..7 /\ (2..7) \cup {1} = 1..7 /\ 1..7 \subseteq 1..8
      /\ \A s \in (1..8) \ (1..7) : W[s] = Absent
  BY <1>2
<1> QED BY <1>2, <1>5, <1>7, <1>8, WritesFills DEF W

\* The fields of a profile.
LEMMA MeFills ==
    ASSUME NEW me
    PROVE  Fills(MeFields(me), "GetMe", NoSlots("GetMe"), MeSlots(me))
<1> DEFINE W == MeSlots(me)
           g == "GetMe"
           z1 == <<Scalar(g, 5, me.admin)>> \o <<>>
           z2 == <<Put(g, 4, me.lastName)>> \o z1
           z3 == <<Put(g, 3, me.firstName)>> \o z2
           z4 == <<Put(g, 2, me.password)>> \o z3
           z5 == <<Put(g, 1, me.username)>> \o z4
<1>1. /\ W[1] = me.username /\ W[2] = me.password /\ W[3] = me.firstName /\ W[4] = me.lastName
      /\ W[5] = Kept(me.admin, Builder[g].defaults[5]) /\ W = [s \in 1..5 |-> W[s]]
  <2>1. Builder[g].defaults[5] = FALSE
    BY DEF Builder, GetMeBuilder, Build
  <2>2. ASSUME NEW a, NEW b, NEW c, NEW d, NEW e, NEW V, V = <<a, b, c, d, e>>
        PROVE  /\ V[1] = a /\ V[2] = b /\ V[3] = c /\ V[4] = d /\ V[5] = e
               /\ V = [s \in 1..5 |-> V[s]]
    BY <2>2
  <2> DEFINE e == Kept(me.admin, FALSE)
             f == Kept(me.admin, Builder[g].defaults[5])
  <2>3. e = f
    BY <2>1, Zenon
  <2>4. W = <<me.username, me.password, me.firstName, me.lastName, e>>
    BY Zenon DEF MeSlots
  <2> HIDE DEF W, e, f
  <2>5. /\ W[1] = me.username /\ W[2] = me.password /\ W[3] = me.firstName /\ W[4] = me.lastName
        /\ W[5] = f /\ W = [s \in 1..5 |-> W[s]]
    BY <2>2, <2>3, <2>4
  <2> QED BY <2>5, Zenon DEF f
<1>2. MeFields(me) = z5
  BY DEF MeFields
<1> HIDE DEF W
<1>3. Writes(<<>>, g, W, {})
  BY WritesNothing
<1>4. Writes(z1, g, W, {} \cup {5})
  BY <1>1, <1>3, 5 \notin {}, WritesScalar
<1> HIDE DEF z1
<1>5. Writes(z2, g, W, {} \cup {5} \cup {4})
  BY <1>1, <1>4, 4 \notin {} \cup {5}, WritesPut
<1> HIDE DEF z2
<1>6. Writes(z3, g, W, {} \cup {5} \cup {4} \cup {3})
  BY <1>1, <1>5, 3 \notin {} \cup {5} \cup {4}, WritesPut
<1> HIDE DEF z3
<1>7. Writes(z4, g, W, {} \cup {5} \cup {4} \cup {3} \cup {2})
  BY <1>1, <1>6, 2 \notin {} \cup {5} \cup {4} \cup {3}, WritesPut
<1> HIDE DEF z4
<1>8. Writes(z5, g, W, {} \cup {5} \cup {4} \cup {3} \cup {2} \cup {1})
  BY <1>1, <1>7, 1 \notin {} \cup {5} \cup {4} \cup {3} \cup {2}, WritesPut
<1> HIDE DEF z5
<1>9. {} \cup {5} \cup {4} \cup {3} \cup {2} \cup {1} = 1..5 /\ SlotsOf(g) = 1..5
  BY SlotNumbers
<1>10. Writes(MeFields(me), g, W, 1..5)
  BY <1>2, <1>8, <1>9
<1>11. Fills(MeFields(me), g, NoSlots(g), W)
  BY <1>1, <1>9, <1>10, WritesFills
<1> QED BY <1>11 DEF W

\* The token.
LEMMA TokenFills ==
    ASSUME NEW t \in {"Login", "Register", "EditMe"}
    PROVE  Fills(<<Put(t, 1, "token")>>, t, NoSlots(t), <<"token">>)
<1> DEFINE W == <<"token">>
<1>1. W[1] = "token" /\ W = [s \in 1..1 |-> W[s]] /\ SlotsOf(t) = 1..1
  BY SlotNumbers
<1>2. <<Put(t, 1, "token")>> \o <<>> = <<Put(t, 1, "token")>>
  BY NoCalls, SeqMade
<1> HIDE DEF W
<1>3. Writes(<<>>, t, W, {})
  BY WritesNothing
<1>4. Writes(<<Put(t, 1, "token")>> \o <<>>, t, W, {} \cup {1})
  BY <1>1, <1>3, 1 \notin {}, WritesPut
<1>5. Writes(<<Put(t, 1, "token")>>, t, W, 1..1)
  BY <1>2, <1>4, {} \cup {1} = 1..1
<1>6. Fills(<<Put(t, 1, "token")>>, t, NoSlots(t), W)
  BY <1>1, <1>5, WritesFills
<1> QED BY <1>6 DEF W

\* error_add(false) leaves the message as it is.
LEMMA SuccessFills == Fills(Success, "Message", M0, M0)
<1> DEFINE W == M0
           m == "Message"
<1>1. W = [s \in 1..4 |-> Absent] /\ SlotsOf(m) = 1..4
  BY SlotNumbers DEF M0, NoSlots
<1>2. W[3] = Kept(FALSE, Builder[m].defaults[3])
  <2>1. Builder[m].defaults[3] = FALSE
    BY DEF Builder, MessageBuilder, Build
  <2>2. W[3] = Absent
    BY <1>1
  <2> QED BY <2>1, <2>2, Zenon DEF Kept
<1>3. Success \o <<>> = Success
  BY NoCalls, SeqMade DEF Success
<1> HIDE DEF W
<1>4. Writes(<<>>, m, W, {})
  BY WritesNothing
<1>5. Writes(<<Scalar(m, 3, FALSE)>> \o <<>>, m, W, {} \cup {3})
  BY <1>2, <1>4, 3 \notin {}, WritesScalar
<1>6. Writes(Success, m, W, {3})
  BY <1>3, <1>5, {} \cup {3} = {3} DEF Success
<1>7. W = [s \in SlotsOf(m) |-> W[s]] /\ \A s \in SlotsOf(m) \ {3} : W[s] = Absent
  BY <1>1
<1>8. Fills(Success, m, NoSlots(m), W)
  BY <1>1, <1>6, <1>7, {3} \subseteq 1..4, WritesFills
<1> QED BY <1>8 DEF W, M0

\* The error and its description.
LEMMA FailFills == Fills(FailFields, "Message", M0, FailSlots)
<1> DEFINE W == FailSlots
           m == "Message"
           z1 == <<Put(m, 4, "why")>> \o <<>>
           z2 == <<Scalar(m, 3, TRUE)>> \o z1
<1>1. W = [s \in 1..4 |-> W[s]] /\ SlotsOf(m) = 1..4 /\ W[1] = Absent /\ W[2] = Absent
  BY SlotNumbers DEF FailSlots
<1>2. W[4] = "why" /\ W[3] = Kept(TRUE, Builder[m].defaults[3])
  BY DEF Kept, Builder, MessageBuilder, Build, FailSlots
<1>3. FailFields = z2
  <2>1. ASSUME NEW x, NEW y
        PROVE  <<Scalar(m, 3, x), Put(m, 4, y)>> = <<Scalar(m, 3, x)>> \o <<Put(m, 4, y)>>
    OBVIOUS
  <2>2. z1 = <<Put(m, 4, "why")>>
    BY NoCalls, SeqMade
  <2> QED BY <2>1, <2>2, Zenon DEF FailFields
<1> HIDE DEF W
<1>4. Writes(<<>>, m, W, {})
  BY WritesNothing
<1>5. Writes(z1, m, W, {} \cup {4})
  BY <1>2, <1>4, 4 \notin {}, WritesPut
<1> HIDE DEF z1
<1>6. Writes(z2, m, W, {} \cup {4} \cup {3})
  BY <1>2, <1>5, 3 \notin {} \cup {4}, WritesScalar
<1> HIDE DEF z2
<1>7. Writes(FailFields, m, W, {3, 4})
  BY <1>3, <1>6, {} \cup {4} \cup {3} = {3, 4}
<1>8. W = [s \in SlotsOf(m) |-> W[s]] /\ \A s \in SlotsOf(m) \ {3, 4} : W[s] = Absent
  BY <1>1
<1>9. Fills(FailFields, m, NoSlots(m), W)
  BY <1>1, <1>7, <1>8, {3, 4} \subseteq 1..4, WritesFills
<1> QED BY <1>9 DEF W, M0

\* The next call is for the open table, or opens one.
Aligned(td, st) ==
    /\ td # <<>>
    /\ Head(td).op \notin {"start", "vec_start"} => st[Len(st)].table = Head(td).table

\* A stage of building: fields of the open table t are being added, to make it W.
Fielding(td, st, t, B, X, W) ==
    \E p, S : td = p \o X /\ st = Append(B, Frame(t, S)) /\ Fills(p, t, S, W)

\* A call for the open table.
LEMMA CallAligned ==
    ASSUME NEW x, NEW Y, IsSeq(Y), NEW B, IsSeq(B), NEW t, NEW S,
           NEW td, td = <<x>> \o Y, NEW st, st = Append(B, Frame(t, S)), x.table = t
    PROVE  Aligned(td, st)
<1>1. td # <<>> /\ Head(td) = x
  BY OneCall
<1>2. st[Len(st)] = Frame(t, S)
  BY OpenFrame
<1>3. Frame(t, S).table = t
  BY DEF Frame
<1> QED BY <1>1, <1>2, <1>3 DEF Aligned

\* A call that opens a table.
LEMMA StartAligned ==
    ASSUME NEW t, NEW Y, IsSeq(Y), NEW td, td = <<Start(t)>> \o Y, NEW st
    PROVE  Aligned(td, st)
<1>1. td # <<>> /\ Head(td) = Start(t)
  BY OneCall
<1> QED BY <1>1 DEF Aligned, Start, Call

\* While fields are added the calls are for the open table.
LEMMA FieldingAligned ==
    ASSUME NEW td, NEW st, NEW t, NEW B, NEW X, NEW W, IsSeq(B), IsSeq(X),
           Fielding(td, st, t, B, X, W)
    PROVE  Aligned(td, st) \/ (td = X /\ st = Append(B, Frame(t, W)))
<1>1. PICK p, S : td = p \o X /\ st = Append(B, Frame(t, S)) /\ Fills(p, t, S, W)
  BY DEF Fielding
<1>2. CASE p = <<>>
  <2>1. td = X
    BY <1>1, <1>2, NoCalls
  <2>2. S = W
    BY <1>1, <1>2, FillsEnd
  <2> QED BY <1>1, <2>1, <2>2
<1>3. CASE p # <<>>
  <2>1. IsSeq(p)
    BY <1>1 DEF Fills
  <2>2. td # <<>> /\ Head(td) = p[1] /\ 1 \in 1..Len(p)
    BY <1>1, <1>3, <2>1, FirstCall
  <2>3. Head(td).table = t
    BY <1>1, <2>2 DEF Fills
  <2>4. st[Len(st)] = Frame(t, S)
    BY <1>1, OpenFrame
  <2>5. Frame(t, S).table = t
    BY DEF Frame
  <2> QED BY <2>2, <2>3, <2>4, <2>5 DEF Aligned
<1> QED BY <1>2, <1>3

\* A field is added, or none is left.
LEMMA FieldingStep ==
    ASSUME BuilderStep, NEW t \in BuildTables, NEW B, NEW X, NEW W, IsSeq(B), IsSeq(X),
           Fielding(todo, stack, t, B, X, W)
    PROVE  \/ Fielding(todo', stack', t, B, X, W) /\ UNCHANGED <<phase, ref, out, meant, fault>>
           \/ todo = X /\ stack = Append(B, Frame(t, W))
<1>1. PICK p, S : todo = p \o X /\ stack = Append(B, Frame(t, S)) /\ Fills(p, t, S, W)
  BY DEF Fielding
<1>2. CASE p = <<>>
  <2>1. todo = X
    BY <1>1, <1>2, NoCalls
  <2>2. S = W
    BY <1>1, <1>2, FillsEnd
  <2> QED BY <1>1, <2>1, <2>2
<1>3. CASE p # <<>>
  <2>1. \E T : /\ todo' = Tail(p) \o X /\ stack' = Append(B, Frame(t, T))
               /\ Fills(Tail(p), t, T, W) /\ UNCHANGED <<phase, ref, out, meant, fault>>
    BY <1>1, <1>3, FieldCall
  <2> QED BY <2>1 DEF Fielding
<1> QED BY <1>2, <1>3

-----------------------------------------------------------------------------
Base == RootStack(M0)
Last(n) == <<MsgAdd(n)>> \o <<EndAsRoot>>
Response(n, W) == <<n, W, Absent, Absent>>

\* The last stage: the content is W, and the message is closed with it.
Finishing(td, st, rf, n, W) ==
    \/ td = Last(n) /\ st = Base /\ rf = W
    \/ td = <<EndAsRoot>> /\ st = RootStack(Response(n, W))

\* Sequences of the stages.
LEMMA StageSeqs ==
    /\ IsSeq(<<>>) /\ IsSeq(Base) /\ IsSeq(<<EndAsRoot>>) /\ \A n : IsSeq(Last(n))
    /\ \A x, Y : IsSeq(Y) => IsSeq(<<x>> \o Y)
    /\ \A B, f : IsSeq(B) => IsSeq(Append(B, f))
<1>1. IsSeq(<<>>) /\ IsSeq(<<EndAsRoot>>) /\ \A n : IsSeq(<<MsgAdd(n)>>)
  BY SeqMade
<1>2. IsSeq(Base)
  BY <1>1, SeqMade, Zenon DEF Base, RootStack
<1>3. \A n : IsSeq(Last(n))
  BY <1>1, SeqMade, Zenon DEF Last
<1>4. \A x, Y : IsSeq(Y) => IsSeq(<<x>> \o Y)
  BY SeqMade, Zenon
<1>5. \A B, f : IsSeq(B) => IsSeq(Append(B, f))
  BY SeqMade, Zenon
<1> QED BY <1>1, <1>2, <1>3, <1>4, <1>5, Zenon

\* The message's last calls are for the message.
LEMMA FinishingAligned ==
    ASSUME NEW td, NEW st, NEW rf, NEW n, NEW W, Finishing(td, st, rf, n, W)
    PROVE  Aligned(td, st)
<1>1. MsgAdd(n).table = "Message" /\ EndAsRoot.table = "Message"
  BY DEF MsgAdd, EndAsRoot, Call
<1>2. <<EndAsRoot>> = <<EndAsRoot>> \o <<>>
  BY NoCalls, StageSeqs
<1>3. CASE td = Last(n) /\ st = Base
  BY <1>1, <1>3, StageSeqs, CallAligned DEF Last, Base, RootStack
<1>4. CASE td = <<EndAsRoot>> /\ st = RootStack(Response(n, W))
  BY <1>1, <1>2, <1>4, StageSeqs, CallAligned DEF RootStack
<1> QED BY <1>3, <1>4 DEF Finishing

\* The union is added, then the message is finished.
LEMMA FinishingStep ==
    ASSUME BuilderStep, NEW n \in 1..7, NEW W, W # Absent, Finishing(todo, stack, ref, n, W)
    PROVE  /\ UNCHANGED <<meant, fault>>
           /\ \/ phase' = phase /\ Finishing(todo', stack', ref', n, W)
              \/ phase' = "answered" /\ out' = Response(n, W)
<1>1. CASE todo = Last(n) /\ stack = Base /\ ref = W
  <2>1. M0 = [s \in 1..4 |-> Absent]
    BY SlotNumbers DEF M0, NoSlots
  <2>2. DOMAIN M0 = 1..4 /\ [M0 EXCEPT ![1] = n, ![2] = ref] = Response(n, W)
    BY <1>1, <2>1 DEF Response
  <2>3. /\ todo' = <<EndAsRoot>> /\ stack' = RootStack([M0 EXCEPT ![1] = n, ![2] = ref])
        /\ UNCHANGED <<phase, ref, out, meant, fault>>
    BY <1>1, <2>2, StageSeqs, UnionCall DEF Last, Base
  <2>4. stack' = RootStack(Response(n, W))
    BY <2>2, <2>3
  <2> QED BY <2>3, <2>4 DEF Finishing
<1>2. CASE todo = <<EndAsRoot>> /\ stack = RootStack(Response(n, W))
  BY <1>2, RootCall
<1> QED BY <1>1, <1>2 DEF Finishing

\* A table of fields only: calls fill it to W.
EndsWith(t, n) == <<End(t)>> \o Last(n)
Single(td, st, rf, t, n, calls, W) ==
    \/ Fielding(td, st, "Message", <<>>, <<Start(t)>> \o (calls \o EndsWith(t, n)), M0)
    \/ Fielding(td, st, t, Base, EndsWith(t, n), W)
    \/ Finishing(td, st, rf, n, W)

\* The calls of a table of fields are for that table, or for the message.
LEMMA SingleAligned ==
    ASSUME NEW td, NEW st, NEW rf, NEW t, NEW n, NEW p, NEW W, IsSeq(p),
           Single(td, st, rf, t, n, p, W)
    PROVE  Aligned(td, st)
<1> DEFINE X == p \o EndsWith(t, n)
<1>1. IsSeq(EndsWith(t, n)) /\ IsSeq(Base) /\ IsSeq(<<>>)
  BY StageSeqs, Zenon DEF EndsWith
<1>2. IsSeq(X)
  BY <1>1, SeqMade, Zenon
<1> HIDE DEF X
<1>3. IsSeq(<<Start(t)>> \o X)
  BY <1>2, StageSeqs, Zenon
<1>4. End(t).table = t
  BY DEF End, Call
<1>5. CASE Fielding(td, st, "Message", <<>>, <<Start(t)>> \o X, M0)
  <2>1. CASE td = <<Start(t)>> \o X
    BY <1>2, <1>4, <2>1, StartAligned
  <2> QED BY <1>1, <1>3, <1>5, <2>1, FieldingAligned
<1>6. CASE Fielding(td, st, t, Base, EndsWith(t, n), W)
  <2>1. CASE td = EndsWith(t, n) /\ st = Append(Base, Frame(t, W))
    BY <1>1, <1>4, <2>1, CallAligned, StageSeqs DEF EndsWith
  <2> QED BY <1>1, <1>6, <2>1, FieldingAligned
<1>7. CASE Finishing(td, st, rf, n, W)
  BY <1>7, FinishingAligned
<1> QED BY <1>5, <1>6, <1>7 DEF Single, X

\* A step of building a table of fields, the last of which finishes the message.
LEMMA SingleStep ==
    ASSUME BuilderStep, NEW t \in BuildTables, NEW n \in 1..7, NEW p, NEW W, W # Absent,
           Fills(p, t, NoSlots(t), W), \A s \in Builder[t].required : Present(W, s),
           Single(todo, stack, ref, t, n, p, W)
    PROVE  /\ UNCHANGED <<meant, fault>>
           /\ \/ phase' = phase /\ Single(todo', stack', ref', t, n, p, W)
              \/ phase' = "answered" /\ out' = Response(n, W)
<1> DEFINE X == p \o EndsWith(t, n)
           X0 == <<Start(t)>> \o X
<1>1. IsSeq(EndsWith(t, n)) /\ IsSeq(Base) /\ IsSeq(<<>>) /\ IsSeq(Last(n))
  BY StageSeqs, Zenon DEF EndsWith
<1>2. IsSeq(X)
  <2>1. IsSeq(p)
    BY DEF Fills
  <2> QED BY <1>1, <2>1, SeqMade, Zenon
<1> HIDE DEF X
<1>3. IsSeq(X0)
  BY <1>2, StageSeqs, Zenon
<1>4. "Message" \in BuildTables
  BY DEF BuildTables
<1> HIDE DEF X0
<1>5. CASE Fielding(todo, stack, "Message", <<>>, X0, M0)
  <2>1. CASE Fielding(todo', stack', "Message", <<>>, X0, M0)
             /\ UNCHANGED <<phase, ref, out, meant, fault>>
    BY <2>1 DEF Single, X, X0
  <2>2. CASE todo = X0 /\ stack = Append(<<>>, Frame("Message", M0))
    <3>1. /\ todo' = X /\ stack' = Append(stack, Frame(t, [s \in SlotsOf(t) |-> Absent]))
          /\ UNCHANGED <<phase, ref, out, meant, fault>>
      BY <1>2, <2>2, StartCall DEF X0
    <3>2. stack' = Append(Base, Frame(t, NoSlots(t)))
      BY <2>2, <3>1, Zenon DEF Base, RootStack, NoSlots
    <3>3. Fielding(todo', stack', t, Base, EndsWith(t, n), W)
      BY <3>1, <3>2, Zenon DEF Fielding, X
    <3> QED BY <3>1, <3>3 DEF Single
  <2>3. \/ Fielding(todo', stack', "Message", <<>>, X0, M0)
           /\ UNCHANGED <<phase, ref, out, meant, fault>>
        \/ todo = X0 /\ stack = Append(<<>>, Frame("Message", M0))
    BY <1>1, <1>3, <1>4, <1>5, FieldingStep
  <2> QED BY <2>1, <2>2, <2>3
<1>6. CASE Fielding(todo, stack, t, Base, EndsWith(t, n), W)
  <2>1. CASE Fielding(todo', stack', t, Base, EndsWith(t, n), W)
             /\ UNCHANGED <<phase, ref, out, meant, fault>>
    BY <2>1 DEF Single
  <2>2. CASE todo = EndsWith(t, n) /\ stack = Append(Base, Frame(t, W))
    <3>1. todo' = Last(n) /\ stack' = Base /\ ref' = W /\ UNCHANGED <<phase, out, meant, fault>>
      BY <1>1, <2>2, EndCall DEF EndsWith
    <3> QED BY <3>1 DEF Single, Finishing
  <2> QED BY <1>1, <1>6, <2>1, <2>2, FieldingStep
<1>7. CASE Finishing(todo, stack, ref, n, W)
  BY <1>7, FinishingStep DEF Single
<1> QED BY <1>5, <1>6, <1>7 DEF Single, X, X0

\* An error.
Failing(td, st) == Fielding(td, st, "Message", <<>>, <<EndAsRoot>>, FailSlots)

\* The calls of an error are for the message.
LEMMA FailingAligned ==
    ASSUME NEW td, NEW st, Failing(td, st)
    PROVE  Aligned(td, st)
<1>1. CASE td = <<EndAsRoot>> /\ st = Append(<<>>, Frame("Message", FailSlots))
  <2>1. <<EndAsRoot>> = <<EndAsRoot>> \o <<>> /\ EndAsRoot.table = "Message"
    BY NoCalls, StageSeqs DEF EndAsRoot, Call
  <2> QED BY <1>1, <2>1, StageSeqs, CallAligned
<1> QED BY <1>1, StageSeqs, FieldingAligned DEF Failing

\* A step of answering with an error.
LEMMA FailingStep ==
    ASSUME BuilderStep, Failing(todo, stack)
    PROVE  /\ UNCHANGED <<meant, fault>>
           /\ \/ phase' = phase /\ Failing(todo', stack')
              \/ phase' = "answered" /\ out' = FailSlots
<1>1. CASE todo = <<EndAsRoot>> /\ stack = Append(<<>>, Frame("Message", FailSlots))
  BY <1>1, RootCall DEF RootStack
<1>2. "Message" \in BuildTables
  BY DEF BuildTables
<1> QED BY <1>1, <1>2, StageSeqs, FieldingStep DEF Failing

-----------------------------------------------------------------------------
\* A contract with its user, on top of the frames B and before the calls X.
EndContract(X) == <<End(CC)>> \o X
AddUser(X)     == <<PutRef(CC, 8)>> \o EndContract(X)
EndUser(X)     == <<End("User")>> \o AddUser(X)
WithUser(c, X) == <<Start("User")>> \o (UserFields(c.by_user) \o EndUser(X))
Rowed(c, B)    == Append(B, Frame(CC, RowSlots(c)))

Opening(td, st, c, B, X) ==
    \E p : /\ td = <<Start(CC)>> \o (p \o WithUser(c, X)) /\ st = B
           /\ Fills(p, CC, NoSlots(CC), RowSlots(c))
Contracting(td, st, rf, c, B, X) ==
    \/ Opening(td, st, c, B, X)
    \/ Fielding(td, st, CC, B, WithUser(c, X), RowSlots(c))
    \/ Fielding(td, st, "User", Rowed(c, B), EndUser(X), UserSlots(c.by_user))
    \/ td = AddUser(X) /\ st = Rowed(c, B) /\ rf = UserSlots(c.by_user)
    \/ td = EndContract(X) /\ st = Append(B, Frame(CC, ContractSlots(c)))

\* The calls left and the open frames are sequences.
LEMMA ContractSeqs ==
    ASSUME NEW c, NEW B, NEW X, IsSeq(B), IsSeq(X)
    PROVE  /\ IsSeq(EndContract(X)) /\ IsSeq(AddUser(X)) /\ IsSeq(EndUser(X))
           /\ IsSeq(UserFields(c.by_user) \o EndUser(X)) /\ IsSeq(WithUser(c, X))
           /\ IsSeq(Rowed(c, B))
<1>1. IsSeq(EndContract(X))
  BY StageSeqs, Zenon DEF EndContract
<1>2. IsSeq(AddUser(X))
  BY <1>1, StageSeqs, Zenon DEF AddUser
<1>3. IsSeq(EndUser(X))
  BY <1>2, StageSeqs, Zenon DEF EndUser
<1>4. IsSeq(UserFields(c.by_user) \o EndUser(X))
  <2>1. IsSeq(UserFields(c.by_user))
    BY UserFills, Zenon DEF Fills
  <2> QED BY <1>3, <2>1, SeqMade, Zenon
<1>5. IsSeq(WithUser(c, X))
  BY <1>4, StageSeqs, Zenon DEF WithUser
<1>6. IsSeq(Rowed(c, B))
  BY StageSeqs, Zenon DEF Rowed
<1> QED BY <1>1, <1>2, <1>3, <1>4, <1>5, <1>6

\* The calls of a contract are for the contract or, between, for its user.
LEMMA ContractingAligned ==
    ASSUME NEW td, NEW st, NEW rf, NEW c, NEW B, NEW X, IsSeq(B), IsSeq(X),
           Contracting(td, st, rf, c, B, X)
    PROVE  Aligned(td, st)
<1> DEFINE Y == UserFields(c.by_user) \o EndUser(X)
<1>1. /\ IsSeq(EndContract(X)) /\ IsSeq(AddUser(X)) /\ IsSeq(EndUser(X))
      /\ IsSeq(Y) /\ IsSeq(WithUser(c, X)) /\ IsSeq(Rowed(c, B))
  BY ContractSeqs
<1>2. /\ End("User").table = "User"
      /\ PutRef(CC, 8).table = CC /\ End(CC).table = CC
  BY DEF End, PutRef, Call
<1> HIDE DEF Y
<1>3. CASE Opening(td, st, c, B, X)
  <2>1. PICK p : /\ td = <<Start(CC)>> \o (p \o WithUser(c, X))
                 /\ Fills(p, CC, NoSlots(CC), RowSlots(c))
    BY <1>3 DEF Opening
  <2>2. IsSeq(p)
    BY <2>1 DEF Fills
  <2>3. IsSeq(p \o WithUser(c, X))
    BY <1>1, <2>2, SeqMade, Zenon
  <2> QED BY <1>2, <2>1, <2>3, StartAligned
<1>4. CASE Fielding(td, st, CC, B, WithUser(c, X), RowSlots(c))
  <2>1. CASE td = WithUser(c, X)
    BY <1>1, <1>2, <2>1, StartAligned DEF WithUser, Y
  <2> QED BY <1>1, <1>4, <2>1, FieldingAligned
<1>5. CASE Fielding(td, st, "User", Rowed(c, B), EndUser(X), UserSlots(c.by_user))
  <2>1. CASE td = EndUser(X) /\ st = Append(Rowed(c, B), Frame("User", UserSlots(c.by_user)))
    BY <1>1, <1>2, <2>1, CallAligned DEF EndUser
  <2> QED BY <1>1, <1>5, <2>1, FieldingAligned
<1>6. CASE td = AddUser(X) /\ st = Rowed(c, B)
  BY <1>1, <1>2, <1>6, CallAligned DEF AddUser, Rowed
<1>7. CASE td = EndContract(X) /\ st = Append(B, Frame(CC, ContractSlots(c)))
  BY <1>2, <1>7, CallAligned DEF EndContract
<1> QED BY <1>3, <1>4, <1>5, <1>6, <1>7 DEF Contracting

\* What a slot can hold is not Absent.
LEMMA NotAbsent ==
    /\ "username" \in Texts /\ "password" \in Texts /\ "firstName" \in Texts
    /\ "lastName" \in Texts /\ "name" \in Texts /\ "description" \in Texts
    /\ "attachment" \in Texts /\ "token" \in Texts /\ "why" \in Texts
    /\ \A x \in Texts : x \in Plain /\ x # Absent
    /\ \A x \in Int : x \in Plain /\ x # Absent
    /\ Absent \in Plain
<1>1. /\ "username" \in Texts /\ "password" \in Texts /\ "firstName" \in Texts
      /\ "lastName" \in Texts /\ "name" \in Texts /\ "description" \in Texts
      /\ "attachment" \in Texts /\ "token" \in Texts /\ "why" \in Texts
  BY DEF Texts
<1>2. /\ \A x \in Texts : x \in Plain /\ x # Absent
      /\ \A x \in Int : x \in Plain /\ x # Absent
      /\ Absent \in Plain
  BY AbsentAssumption, Zenon DEF Plain
<1> QED BY <1>1, <1>2

\* The user of a contract is a complete table.
LEMMA UserWhole ==
    ASSUME NEW c \in Contracts(Nat)
    PROVE  /\ UserSlots(c.by_user) \in PlainRow /\ UserSlots(c.by_user) # Absent
           /\ \A s \in Builder["User"].required : Present(UserSlots(c.by_user), s)
<1> DEFINE W == UserSlots(c.by_user)
<1>1. W = <<"username", "firstName", "lastName">>
  BY ContractType DEF UserSlots, Person
<1>2. W \in PlainRow
  <2>1. "username" \in Plain /\ "firstName" \in Plain /\ "lastName" \in Plain
    BY NotAbsent, Zenon
  <2> QED BY <1>1, <2>1 DEF PlainRow
<1>3. W # Absent
  BY <1>2, AbsentAssumption
<1>4. Builder["User"].required = {1, 2, 3}
  BY DEF Builder, UserBuilder, Build
<1>5. ASSUME NEW s \in {1, 2, 3} PROVE Present(W, s)
  <2>1. s \in DOMAIN W /\ W[s] \in Texts
    BY <1>1, NotAbsent
  <2>2. W[s] # Absent
    BY <2>1, NotAbsent, Zenon
  <2> QED BY <2>1, <2>2 DEF Present
<1> QED BY <1>2, <1>3, <1>4, <1>5

\* So is the contract, with its user.
LEMMA ContractWhole ==
    ASSUME NEW c \in Contracts(Nat)
    PROVE  /\ ContractSlots(c) \in NestedRow /\ ContractSlots(c) # Absent
           /\ DOMAIN RowSlots(c) = 1..8
           /\ ContractSlots(c) = <<Kept(c.id, -1), c.name, c.description, Kept(c.price, -1),
                                   c.attachment, Kept(c.status, 1), Kept(c.created_at, 0),
                                   UserSlots(c.by_user)>>
           /\ \A s \in Builder[CC].required : Present(ContractSlots(c), s)
<1> DEFINE W == ContractSlots(c)
           u == UserSlots(c.by_user)
<1>1. u \in PlainRow /\ u # Absent
  BY UserWhole
<1>2. /\ c.id \in Nat /\ c.name = "name" /\ c.description \in {Absent, "description"}
      /\ c.price \in Int /\ c.attachment \in {Absent, "attachment"} /\ c.status = 1
      /\ c.created_at = 7
  BY ContractType
<1> HIDE DEF u
<1>3. /\ W = <<Kept(c.id, -1), c.name, c.description, Kept(c.price, -1),
               c.attachment, Kept(c.status, 1), Kept(c.created_at, 0), u>>
      /\ DOMAIN RowSlots(c) = 1..8
  BY DEF ContractSlots, RowSlots, u
<1>4. /\ Kept(c.id, -1) \in Plain /\ c.name \in Plain /\ c.description \in Plain
      /\ Kept(c.price, -1) \in Plain /\ c.attachment \in Plain /\ Kept(c.status, 1) \in Plain
      /\ Kept(c.created_at, 0) \in Plain
  <2>1. -1 \in Int /\ \A x \in Int : \A y : Kept(x, y) \in Plain
    BY NotAbsent DEF Kept
  <2>2. c.id \in Int /\ c.status \in Int /\ c.created_at \in Int
    BY <1>2
  <2>3. c.name \in Plain /\ c.description \in Plain /\ c.attachment \in Plain
    BY <1>2, NotAbsent, Zenon
  <2> QED BY <1>2, <2>1, <2>2, <2>3, Zenon
<1>5. W \in NestedRow
  <2>1. ASSUME NEW x1 \in Plain, NEW x2 \in Plain, NEW x3 \in Plain, NEW x4 \in Plain,
               NEW x5 \in Plain, NEW x6 \in Plain, NEW x7 \in Plain
        PROVE  <<x1, x2, x3, x4, x5, x6, x7, u>> \in NestedRow
    BY <1>1 DEF NestedRow
  <2> HIDE DEF W
  <2> QED BY <1>3, <1>4, <2>1
<1>6. W # Absent
  BY <1>5, AbsentAssumption
<1>7. Builder[CC].required = {2, 8}
  BY DEF Builder, CheckContractBuilder, Build, CC
<1>8. ASSUME NEW s \in {2, 8} PROVE Present(W, s)
  <2>1. DOMAIN W = 1..8 /\ W[2] = "name" /\ W[8] = u
    BY <1>2, <1>3
  <2>2. "name" # Absent
    BY NotAbsent, Zenon
  <2> QED BY <1>1, <2>1, <2>2 DEF Present
<1> QED BY <1>3, <1>5, <1>6, <1>7, <1>8 DEF u

\* A step of building a contract, the last of which leaves it in ref.
LEMMA ContractingStep ==
    ASSUME BuilderStep, NEW c \in Contracts(Nat), NEW B, NEW X, IsSeq(B), IsSeq(X),
           Contracting(todo, stack, ref, c, B, X)
    PROVE  /\ UNCHANGED <<phase, out, meant, fault>>
           /\ \/ Contracting(todo', stack', ref', c, B, X)
              \/ todo' = X /\ stack' = B /\ ref' = ContractSlots(c)
<1> DEFINE u == c.by_user
           Y == UserFields(u) \o EndUser(X)
<1>1. /\ IsSeq(EndContract(X)) /\ IsSeq(AddUser(X)) /\ IsSeq(EndUser(X))
      /\ IsSeq(Y) /\ IsSeq(WithUser(c, X)) /\ IsSeq(Rowed(c, B))
  BY ContractSeqs
<1>2. CC \in BuildTables /\ "User" \in BuildTables /\ CC # "vec"
  BY DEF BuildTables, CC
<1> HIDE DEF Y, u
<1>3. CASE Opening(todo, stack, c, B, X)
  <2>1. PICK p : /\ todo = <<Start(CC)>> \o (p \o WithUser(c, X)) /\ stack = B
                 /\ Fills(p, CC, NoSlots(CC), RowSlots(c))
    BY <1>3 DEF Opening
  <2>2. IsSeq(p \o WithUser(c, X))
    <3>1. IsSeq(p)
      BY <2>1 DEF Fills
    <3> QED BY <1>1, <3>1, SeqMade, Zenon
  <2>3. /\ todo' = p \o WithUser(c, X)
        /\ stack' = Append(B, Frame(CC, [s \in SlotsOf(CC) |-> Absent]))
        /\ UNCHANGED <<phase, ref, out, meant, fault>>
    BY <1>2, <2>1, <2>2, StartCall
  <2>4. stack' = Append(B, Frame(CC, NoSlots(CC)))
    BY <2>3, Zenon DEF NoSlots
  <2>5. Fielding(todo', stack', CC, B, WithUser(c, X), RowSlots(c))
    BY <2>1, <2>3, <2>4, Zenon DEF Fielding
  <2> QED BY <2>3, <2>5 DEF Contracting
<1>4. CASE Fielding(todo, stack, CC, B, WithUser(c, X), RowSlots(c))
  <2>1. CASE Fielding(todo', stack', CC, B, WithUser(c, X), RowSlots(c))
             /\ UNCHANGED <<phase, ref, out, meant, fault>>
    BY <2>1 DEF Contracting
  <2>2. CASE todo = WithUser(c, X) /\ stack = Rowed(c, B)
    <3>1. /\ todo' = Y /\ stack' = Append(stack, Frame("User", [s \in SlotsOf("User") |-> Absent]))
          /\ UNCHANGED <<phase, ref, out, meant, fault>>
      BY <1>1, <1>2, <2>2, StartCall DEF WithUser, Y, u
    <3>2. stack' = Append(Rowed(c, B), Frame("User", NoSlots("User")))
      BY <2>2, <3>1, Zenon DEF NoSlots
    <3>3. Fills(UserFields(u), "User", NoSlots("User"), UserSlots(u))
      BY UserFills
    <3>4. Fielding(todo', stack', "User", Rowed(c, B), EndUser(X), UserSlots(u))
      BY <3>1, <3>2, <3>3, Zenon DEF Fielding, Y
    <3> QED BY <3>1, <3>4 DEF Contracting, u
  <2>3. \/ Fielding(todo', stack', CC, B, WithUser(c, X), RowSlots(c))
           /\ UNCHANGED <<phase, ref, out, meant, fault>>
        \/ todo = WithUser(c, X) /\ stack = Append(B, Frame(CC, RowSlots(c)))
    BY <1>1, <1>2, <1>4, FieldingStep
  <2> QED BY <2>1, <2>2, <2>3 DEF Rowed
<1>5. CASE Fielding(todo, stack, "User", Rowed(c, B), EndUser(X), UserSlots(u))
  <2>1. CASE Fielding(todo', stack', "User", Rowed(c, B), EndUser(X), UserSlots(u))
             /\ UNCHANGED <<phase, ref, out, meant, fault>>
    BY <2>1 DEF Contracting, u
  <2>2. CASE todo = EndUser(X) /\ stack = Append(Rowed(c, B), Frame("User", UserSlots(u)))
    <3>1. \A s \in Builder["User"].required : Present(UserSlots(u), s)
      BY UserWhole DEF u
    <3>2. /\ todo' = AddUser(X) /\ stack' = Rowed(c, B) /\ ref' = UserSlots(u)
          /\ UNCHANGED <<phase, out, meant, fault>>
      BY <1>1, <1>2, <2>2, <3>1, EndCall DEF EndUser
    <3> QED BY <3>2 DEF Contracting, u
  <2>3. \/ Fielding(todo', stack', "User", Rowed(c, B), EndUser(X), UserSlots(u))
           /\ UNCHANGED <<phase, ref, out, meant, fault>>
        \/ todo = EndUser(X) /\ stack = Append(Rowed(c, B), Frame("User", UserSlots(u)))
    BY <1>1, <1>2, <1>5, FieldingStep
  <2> QED BY <2>1, <2>2, <2>3
<1>6. CASE todo = AddUser(X) /\ stack = Rowed(c, B) /\ ref = UserSlots(u)
  <2>1. ref # Absent
    BY <1>6, UserWhole DEF u
  <2>2. 8 \in DOMAIN RowSlots(c)
    BY ContractWhole
  <2>3. /\ todo' = EndContract(X) /\ stack' = Append(B, Frame(CC, [RowSlots(c) EXCEPT ![8] = ref]))
        /\ UNCHANGED <<phase, ref, out, meant, fault>>
    BY <1>1, <1>2, <1>6, <2>1, <2>2, RefCall DEF AddUser, Rowed
  <2>4. stack' = Append(B, Frame(CC, ContractSlots(c)))
    BY <1>6, <2>3, Zenon DEF ContractSlots, u
  <2> QED BY <2>3, <2>4 DEF Contracting
<1>7. CASE todo = EndContract(X) /\ stack = Append(B, Frame(CC, ContractSlots(c)))
  <2>1. \A s \in Builder[CC].required : Present(ContractSlots(c), s)
    BY ContractWhole
  <2>2. /\ todo' = X /\ stack' = B /\ ref' = ContractSlots(c)
        /\ UNCHANGED <<phase, out, meant, fault>>
    BY <1>2, <1>7, <2>1, EndCall DEF EndContract
  <2> QED BY <2>2
<1> QED BY <1>3, <1>4, <1>5, <1>6, <1>7 DEF Contracting, u

-----------------------------------------------------------------------------
\* A table t with the single reference V in it.
EndWrap(t, n) == <<End(t)>> \o Last(n)
AddWrap(t, n) == <<PutRef(t, 1)>> \o EndWrap(t, n)
Wrap(t, n)    == <<Start(t)>> \o AddWrap(t, n)
Wrapping(td, st, rf, t, n, V) ==
    \/ td = Wrap(t, n) /\ st = Base /\ rf = V
    \/ td = AddWrap(t, n) /\ st = Append(Base, Frame(t, NoSlots(t))) /\ rf = V
    \/ td = EndWrap(t, n) /\ st = Append(Base, Frame(t, <<V>>))
    \/ Finishing(td, st, rf, n, <<V>>)

\* The calls left are sequences.
LEMMA WrapSeqs ==
    ASSUME NEW t, NEW n
    PROVE  IsSeq(EndWrap(t, n)) /\ IsSeq(AddWrap(t, n)) /\ IsSeq(Wrap(t, n))
<1>1. IsSeq(EndWrap(t, n))
  BY StageSeqs, Zenon DEF EndWrap
<1>2. IsSeq(AddWrap(t, n))
  BY <1>1, StageSeqs, Zenon DEF AddWrap
<1>3. IsSeq(Wrap(t, n))
  BY <1>2, StageSeqs, Zenon DEF Wrap
<1> QED BY <1>1, <1>2, <1>3

\* The calls around a reference are for the table that takes it.
LEMMA WrappingAligned ==
    ASSUME NEW td, NEW st, NEW rf, NEW t, NEW n, NEW V, Wrapping(td, st, rf, t, n, V)
    PROVE  Aligned(td, st)
<1>1. IsSeq(EndWrap(t, n)) /\ IsSeq(AddWrap(t, n)) /\ IsSeq(Last(n)) /\ IsSeq(Base)
  BY WrapSeqs, StageSeqs
<1>2. End(t).table = t /\ PutRef(t, 1).table = t
  BY DEF End, PutRef, Call
<1>3. CASE td = Wrap(t, n)
  BY <1>1, <1>3, StartAligned DEF Wrap
<1>4. CASE td = AddWrap(t, n) /\ st = Append(Base, Frame(t, NoSlots(t)))
  BY <1>1, <1>2, <1>4, CallAligned DEF AddWrap
<1>5. CASE td = EndWrap(t, n) /\ st = Append(Base, Frame(t, <<V>>))
  BY <1>1, <1>2, <1>5, CallAligned DEF EndWrap
<1>6. CASE Finishing(td, st, rf, n, <<V>>)
  BY <1>6, FinishingAligned
<1> QED BY <1>3, <1>4, <1>5, <1>6 DEF Wrapping

\* A step of wrapping a reference, the last of which finishes the message.
LEMMA WrappingStep ==
    ASSUME BuilderStep, NEW t \in {"RequestContract", "ListContracts"}, NEW n \in 1..7, NEW V,
           V # Absent, <<V>> # Absent, Wrapping(todo, stack, ref, t, n, V)
    PROVE  /\ UNCHANGED <<meant, fault>>
           /\ \/ phase' = phase /\ Wrapping(todo', stack', ref', t, n, V)
              \/ phase' = "answered" /\ out' = Response(n, <<V>>)
<1>1. IsSeq(EndWrap(t, n)) /\ IsSeq(AddWrap(t, n)) /\ IsSeq(Last(n)) /\ IsSeq(Base)
  BY WrapSeqs, StageSeqs
<1>2. t \in BuildTables /\ t # "vec"
  BY DEF BuildTables
<1>3. NoSlots(t) = [s \in 1..1 |-> Absent]
  BY SlotNumbers DEF NoSlots
<1>4. 1 \in DOMAIN NoSlots(t) /\ [NoSlots(t) EXCEPT ![1] = V] = <<V>>
  BY <1>3
<1>5. CASE todo = Wrap(t, n) /\ stack = Base /\ ref = V
  <2>1. /\ todo' = AddWrap(t, n)
        /\ stack' = Append(stack, Frame(t, [s \in SlotsOf(t) |-> Absent]))
        /\ UNCHANGED <<phase, ref, out, meant, fault>>
    BY <1>1, <1>2, <1>5, StartCall DEF Wrap
  <2>2. stack' = Append(Base, Frame(t, NoSlots(t)))
    BY <1>5, <2>1, Zenon DEF NoSlots
  <2> QED BY <1>5, <2>1, <2>2 DEF Wrapping
<1>6. CASE todo = AddWrap(t, n) /\ stack = Append(Base, Frame(t, NoSlots(t))) /\ ref = V
  <2>1. /\ todo' = EndWrap(t, n)
        /\ stack' = Append(Base, Frame(t, [NoSlots(t) EXCEPT ![1] = ref]))
        /\ UNCHANGED <<phase, ref, out, meant, fault>>
    <3> DEFINE S == NoSlots(t)
    <3>1. 1 \in DOMAIN S /\ stack = Append(Base, Frame(t, S)) /\ ref # Absent
      BY <1>4, <1>6
    <3> HIDE DEF S
    <3>2. /\ todo' = EndWrap(t, n) /\ stack' = Append(Base, Frame(t, [S EXCEPT ![1] = ref]))
          /\ UNCHANGED <<phase, ref, out, meant, fault>>
      BY <1>1, <1>2, <1>6, <3>1, RefCall DEF AddWrap
    <3> QED BY <3>2 DEF S
  <2>2. stack' = Append(Base, Frame(t, <<V>>))
    BY <1>4, <1>6, <2>1, Zenon
  <2> QED BY <2>1, <2>2 DEF Wrapping
<1>7. CASE todo = EndWrap(t, n) /\ stack = Append(Base, Frame(t, <<V>>))
  <2>1. \A s \in Builder[t].required : Present(<<V>>, s)
    <3>1. Builder[t].required = {1}
      BY DEF Builder, RequestContractBuilder, ListContractsBuilder, Build
    <3> QED BY <3>1 DEF Present
  <2>2. /\ todo' = Last(n) /\ stack' = Base /\ ref' = <<V>>
        /\ UNCHANGED <<phase, out, meant, fault>>
    BY <1>1, <1>2, <1>7, <2>1, EndCall DEF EndWrap
  <2> QED BY <2>2 DEF Wrapping, Finishing
<1>8. CASE Finishing(todo, stack, ref, n, <<V>>)
  BY <1>8, FinishingStep DEF Wrapping
<1> QED BY <1>5, <1>6, <1>7, <1>8 DEF Wrapping

\* A contract's calls, its row's first.
LEMMA TableFlat ==
    ASSUME NEW c, NEW p, IsSeq(p), NEW X, IsSeq(X)
    PROVE  Table(CC, p \o UserCalls(c.by_user)) \o X = <<Start(CC)>> \o (p \o WithUser(c, X))
<1> DEFINE u == c.by_user
           a == <<Start(CC)>>
           e == <<End(CC)>>
           b == <<Start("User")>>
           f == UserFields(u)
           g == <<End("User")>>
           h == <<PutRef(CC, 8)>>
<1>1. IsSeq(a) /\ IsSeq(e) /\ IsSeq(b) /\ IsSeq(g) /\ IsSeq(h)
  BY SeqMade
<1>2. IsSeq(f)
  BY UserFills, Zenon DEF Fills
<1>3. UserCalls(u) = Cat(Cat(Cat(b, f), g), h)
  BY Zenon DEF UserCalls, Table, Cat, UserFields, CC
<1>4. WithUser(c, X) = Cat(b, Cat(f, Cat(g, Cat(h, Cat(e, X)))))
  BY Zenon DEF WithUser, EndUser, AddUser, EndContract, Cat
<1>5. Table(CC, p \o UserCalls(c.by_user)) \o X = Cat(Cat(Cat(a, Cat(p, UserCalls(u))), e), X)
  BY Zenon DEF Table, Cat
<1>6. <<Start(CC)>> \o (p \o WithUser(c, X)) = Cat(a, Cat(p, WithUser(c, X)))
  BY Zenon DEF Cat
<1> HIDE DEF u, a, e, b, f, g, h
<1>7. Cat(Cat(Cat(a, Cat(p, Cat(Cat(Cat(b, f), g), h))), e), X)
        = Cat(a, Cat(p, Cat(b, Cat(f, Cat(g, Cat(h, Cat(e, X)))))))
  BY <1>1, <1>2, CatAssoc
<1> QED BY <1>3, <1>4, <1>5, <1>6, <1>7, Zenon

\* The two orders of a contract's calls open the same table.
LEMMA CallsOpen ==
    ASSUME NEW c, NEW X, IsSeq(X), NEW B
    PROVE  /\ Opening(ContractCalls(c) \o X, B, c, B, X)
           /\ Opening(EchoCalls(c) \o X, B, c, B, X)
           /\ IsSeq(ContractCalls(c)) /\ IsSeq(EchoCalls(c))
<1> DEFINE p == RowCalls(c) \o IdFields(c)
           q == IdFields(c) \o RowCalls(c)
<1>1. /\ Fills(p, CC, NoSlots(CC), RowSlots(c)) /\ Fills(q, CC, NoSlots(CC), RowSlots(c))
  BY RowFills
<1>2. IsSeq(p) /\ IsSeq(q)
  BY <1>1 DEF Fills
<1>3. /\ ContractCalls(c) = Table(CC, p \o UserCalls(c.by_user))
      /\ EchoCalls(c) = Table(CC, q \o UserCalls(c.by_user))
  BY Zenon DEF ContractCalls, EchoCalls, IdFields, CC
<1> HIDE DEF p, q
<1>4. /\ Table(CC, p \o UserCalls(c.by_user)) \o X = <<Start(CC)>> \o (p \o WithUser(c, X))
      /\ Table(CC, q \o UserCalls(c.by_user)) \o X = <<Start(CC)>> \o (q \o WithUser(c, X))
  <2>1. ASSUME NEW r, IsSeq(r)
        PROVE  Table(CC, r \o UserCalls(c.by_user)) \o X = <<Start(CC)>> \o (r \o WithUser(c, X))
    BY <2>1, TableFlat
  <2> QED BY <1>2, <2>1, Zenon
<1>5. /\ Opening(ContractCalls(c) \o X, B, c, B, X)
      /\ Opening(EchoCalls(c) \o X, B, c, B, X)
  BY <1>1, <1>3, <1>4, Zenon DEF Opening
<1>6. ASSUME NEW r, IsSeq(r) PROVE IsSeq(Table(CC, r \o UserCalls(c.by_user)))
  <2>1. IsSeq(UserCalls(c.by_user))
    <3>1. IsSeq(UserFields(c.by_user))
      BY UserFills, Zenon DEF Fills
    <3>2. UserCalls(c.by_user) =
            Cat(Cat(Cat(<<Start("User")>>, UserFields(c.by_user)), <<End("User")>>), <<PutRef(CC, 8)>>)
      BY Zenon DEF UserCalls, Table, Cat, UserFields, CC
    <3>3. IsSeq(<<Start("User")>>) /\ IsSeq(<<End("User")>>) /\ IsSeq(<<PutRef(CC, 8)>>)
      BY SeqMade
    <3>4. \A y, z : IsSeq(y) /\ IsSeq(z) => IsSeq(Cat(y, z))
      BY CatAssoc, Zenon
    <3> QED BY <3>1, <3>2, <3>3, <3>4, Zenon
  <2>2. Table(CC, r \o UserCalls(c.by_user)) =
          Cat(Cat(<<Start(CC)>>, Cat(r, UserCalls(c.by_user))), <<End(CC)>>)
    BY Zenon DEF Table, Cat
  <2>3. IsSeq(<<Start(CC)>>) /\ IsSeq(<<End(CC)>>)
    BY SeqMade
  <2>4. \A y, z : IsSeq(y) /\ IsSeq(z) => IsSeq(Cat(y, z))
    BY CatAssoc, Zenon
  <2> QED BY <1>6, <2>1, <2>2, <2>3, <2>4, Zenon
<1> QED BY <1>2, <1>3, <1>5, <1>6

-----------------------------------------------------------------------------
\* The rows of a page that are left, and the calls after them.
RowsFrom(rows, k) == [i \in 1 .. Len(rows) - k |-> Row(rows[i + k])]
EndRows           == <<VecEnd>> \o Wrap("ListContracts", 6)
PageFrom(rows, k) == RowsFrom(rows, k) \o EndRows
VecSlots(rows, k) == [i \in 1..k |-> ContractSlots(rows[i])]
VecStack(rows, k) == Append(Base, Frame("vec", VecSlots(rows, k)))

\* What a page is.
LEMMA PageType ==
    ASSUME NEW rows \in Pages
    PROVE  rows \in Seq(Contracts(Nat)) /\ Len(rows) \in Nat
<1>1. PICK n \in 0..MaxRows : rows \in [1..n -> Contracts(1..n)]
  BY DEF Pages
<1>2. n \in Nat
  BY MessagesAssumption
<1>3. Contracts(1..n) \subseteq Contracts(Nat)
  BY <1>2 DEF Contracts
<1>4. rows \in Seq(Contracts(Nat))
  BY <1>1, <1>2, <1>3
<1> QED BY <1>4

\* A row less.
LEMMA RowsLeft ==
    ASSUME NEW rows, rows \in Seq(Contracts(Nat)), NEW k \in 0..Len(rows)
    PROVE  /\ IsSeq(RowsFrom(rows, k)) /\ IsSeq(EndRows) /\ IsSeq(PageFrom(rows, k))
           /\ k < Len(rows) => PageFrom(rows, k) = <<Row(rows[k + 1])>> \o PageFrom(rows, k + 1)
           /\ k = Len(rows) => PageFrom(rows, k) = EndRows
<1> DEFINE n == Len(rows)
           x == Row(rows[k + 1])
           U == {Row(rows[i]) : i \in 1..n}
           R == RowsFrom(rows, k)
           Q == RowsFrom(rows, k + 1)
<1>1. n \in Nat /\ k \in Nat /\ k <= n /\ n - k \in Nat
  OBVIOUS
<1>2. /\ R = [i \in 1 .. n - k |-> Row(rows[i + k])]
      /\ Q = [i \in 1 .. n - (k + 1) |-> Row(rows[i + (k + 1)])]
  BY DEF RowsFrom
<1> HIDE DEF n, R, Q
<1>3. R \in Seq(U)
  <2>1. ASSUME NEW i \in 1 .. n - k PROVE Row(rows[i + k]) \in U
    <3>1. i + k \in 1..n
      BY <1>1
    <3> QED BY <3>1
  <2> HIDE DEF U
  <2> QED BY <1>1, <1>2, <2>1
<1>4. IsSeq(R)
  BY <1>3 DEF IsSeq
<1>5. IsSeq(EndRows)
  BY WrapSeqs, StageSeqs, Zenon DEF EndRows
<1>6. IsSeq(PageFrom(rows, k))
  BY <1>4, <1>5, SeqMade, Zenon DEF PageFrom, R
<1>7. ASSUME k < n PROVE PageFrom(rows, k) = <<x>> \o PageFrom(rows, k + 1)
  <2>1. n - (k + 1) \in Nat /\ k + 1 \in 1..n /\ n - k = 1 + (n - (k + 1))
    BY <1>1, <1>7
  <2>2. Q \in Seq(U)
    <3>1. ASSUME NEW i \in 1 .. n - (k + 1) PROVE Row(rows[i + (k + 1)]) \in U
      <4>1. i + (k + 1) \in 1..n
        BY <1>1
      <4> QED BY <4>1
    <3> HIDE DEF U
    <3> QED BY <1>2, <2>1, <3>1
  <2>3. x \in U
    BY <2>1
  <2> HIDE DEF U, x
  <2>4. Len(R) = n - k /\ Len(Q) = n - (k + 1)
    BY <1>1, <1>2, <2>1
  <2>5. R = <<x>> \o Q
    <3> DEFINE P == <<x>> \o Q
    <3>1. <<x>> \in Seq(U) /\ Len(<<x>>) = 1
      BY <2>3
    <3>2. P \in Seq(U) /\ Len(P) = 1 + Len(Q)
      BY <2>2, <3>1
    <3>3. \A i \in 1 .. 1 + Len(Q) : P[i] = IF i <= 1 THEN <<x>>[i] ELSE Q[i - 1]
      BY <2>2, <3>1
    <3> HIDE DEF P
    <3>4. ASSUME NEW i \in 1 .. n - k PROVE R[i] = P[i]
      <4>1. i \in 1 .. 1 + Len(Q)
        BY <1>1, <2>1, <2>4
      <4>2. CASE i = 1
        <5>1. P[1] = x
          BY <3>3, <4>1, <4>2
        <5>2. R[1] = Row(rows[1 + k]) /\ 1 + k = k + 1
          BY <1>1, <1>2, <4>2
        <5> QED BY <4>2, <5>1, <5>2 DEF x
      <4>3. CASE i # 1
        <5>1. i - 1 \in 1 .. n - (k + 1) /\ (i - 1) + (k + 1) = i + k
          BY <1>1, <2>1, <4>3
        <5>2. P[i] = Q[i - 1]
          BY <1>1, <3>3, <4>1, <4>3
        <5>3. Q[i - 1] = Row(rows[i + k])
          BY <1>2, <5>1
        <5> QED BY <1>2, <5>2, <5>3
      <4> QED BY <4>2, <4>3
    <3>5. Len(R) = Len(P) /\ Len(R) = n - k
      BY <1>1, <2>1, <2>4, <3>2
    <3> QED BY <1>3, <3>2, <3>4, <3>5, SeqEqual DEF P
  <2>6. IsSeq(Q) /\ IsSeq(<<x>>)
    BY <2>2, SeqMade DEF IsSeq
  <2>7. Cat(Cat(<<x>>, Q), EndRows) = Cat(<<x>>, Cat(Q, EndRows))
    BY <1>5, <2>6, CatAssoc
  <2> QED BY <2>5, <2>7, Zenon DEF Cat, PageFrom, R, Q
<1>8. ASSUME k = n PROVE PageFrom(rows, k) = EndRows
  <2>1. R = <<>>
    BY <1>1, <1>2, <1>8
  <2> QED BY <1>5, <2>1, NoCalls DEF PageFrom, R
<1> QED BY <1>4, <1>5, <1>6, <1>7, <1>8 DEF R, n, x

\* A row more.
LEMMA RowsPushed ==
    ASSUME NEW rows, rows \in Seq(Contracts(Nat)), NEW k \in 0 .. Len(rows) - 1
    PROVE  Append(VecSlots(rows, k), ContractSlots(rows[k + 1])) = VecSlots(rows, k + 1)
<1>1. k \in Nat /\ k + 1 \in 1..Len(rows)
  OBVIOUS
<1> DEFINE U == {ContractSlots(rows[i]) : i \in 1 .. k + 1}
           x == ContractSlots(rows[k + 1])
           V == VecSlots(rows, k)
<1>2. x \in U /\ \A i \in 1..k + 1 : ContractSlots(rows[i]) \in U
  BY <1>1
<1> HIDE DEF U
<1>3. V = [i \in 1..k |-> ContractSlots(rows[i])] /\ \A i \in 1..k : i \in 1 .. k + 1
  BY <1>1 DEF VecSlots
<1>4. V \in Seq(U) /\ Len(V) = k
  BY <1>1, <1>2, <1>3
<1>5. VecSlots(rows, k + 1) \in Seq(U) /\ Len(VecSlots(rows, k + 1)) = k + 1
  BY <1>1, <1>2 DEF VecSlots
<1>6. \A i \in 1 .. k + 1 : VecSlots(rows, k + 1)[i] = ContractSlots(rows[i])
  BY DEF VecSlots
<1> HIDE DEF V, x
<1>7. Append(V, x) \in Seq(U) /\ Len(Append(V, x)) = k + 1
  BY <1>2, <1>4
<1>8. ASSUME NEW i \in 1 .. k + 1 PROVE Append(V, x)[i] = VecSlots(rows, k + 1)[i]
  <2>1. CASE i = k + 1
    <3>1. Append(V, x)[i] = x
      BY <1>2, <1>4, <2>1
    <3> QED BY <1>6, <2>1, <3>1 DEF x
  <2>2. CASE i # k + 1
    <3>1. i \in 1..k
      BY <1>1, <2>2
    <3>2. Append(V, x)[i] = V[i]
      BY <1>2, <1>4, <3>1
    <3>3. V[i] = ContractSlots(rows[i])
      BY <1>3, <3>1
    <3> QED BY <1>6, <3>2, <3>3
  <2> QED BY <2>1, <2>2
<1>9. Append(V, x) = VecSlots(rows, k + 1)
  BY <1>5, <1>7, <1>8, SeqEqual
<1> QED BY <1>9 DEF V, x

\* The stages of a page: rows are taken, built and pushed, then it is wrapped.
Turn(td, st, rf, rows, k) ==
    \/ Contracting(td, st, rf, rows[k + 1], VecStack(rows, k), <<Push>> \o PageFrom(rows, k + 1))
    \/ /\ td = <<Push>> \o PageFrom(rows, k + 1) /\ st = VecStack(rows, k)
       /\ rf = ContractSlots(rows[k + 1])
Listing(td, st, rf, rows) ==
    \/ td = <<VecStart>> \o PageFrom(rows, 0) /\ st = Base
    \/ \E k \in 0..Len(rows) : td = PageFrom(rows, k) /\ st = VecStack(rows, k)
    \/ \E k \in 0 .. Len(rows) - 1 : Turn(td, st, rf, rows, k)
    \/ Wrapping(td, st, rf, "ListContracts", 6, VecSlots(rows, Len(rows)))

\* The calls left and the open frames are sequences.
LEMMA ListSeqs ==
    ASSUME NEW rows, rows \in Seq(Contracts(Nat)), NEW k \in 0..Len(rows)
    PROVE  /\ IsSeq(PageFrom(rows, k)) /\ IsSeq(<<Push>> \o PageFrom(rows, k))
           /\ IsSeq(VecStack(rows, k))
<1>1. IsSeq(PageFrom(rows, k))
  BY RowsLeft
<1>2. IsSeq(<<Push>> \o PageFrom(rows, k)) /\ IsSeq(VecStack(rows, k))
  BY <1>1, StageSeqs, Zenon DEF VecStack
<1> QED BY <1>1, <1>2

\* Between two rows the vector is open.
LEMMA PageAligned ==
    ASSUME NEW rows, rows \in Seq(Contracts(Nat)), NEW k \in 0..Len(rows), NEW td, NEW st,
           td = PageFrom(rows, k), st = VecStack(rows, k)
    PROVE  Aligned(td, st)
<1>1. VecEnd.table = "vec" /\ \A c : Row(c).table = "vec"
  BY DEF VecEnd, Row, Call
<1>2. IsSeq(Base) /\ IsSeq(Wrap("ListContracts", 6))
  BY StageSeqs, WrapSeqs
<1>3. CASE k = Len(rows)
  <2>1. td = <<VecEnd>> \o Wrap("ListContracts", 6)
    BY <1>3, RowsLeft DEF EndRows
  <2> QED BY <1>1, <1>2, <2>1, CallAligned DEF VecStack
<1>4. CASE k # Len(rows)
  <2>1. Len(rows) \in Nat /\ k < Len(rows) /\ k + 1 \in 0..Len(rows)
    BY <1>4
  <2>2. td = <<Row(rows[k + 1])>> \o PageFrom(rows, k + 1)
    BY <2>1, RowsLeft
  <2>3. IsSeq(PageFrom(rows, k + 1))
    BY <2>1, ListSeqs
  <2> HIDE <1>4
  <2> QED BY <1>1, <1>2, <2>2, <2>3, CallAligned DEF VecStack
<1> QED BY <1>3, <1>4

\* The calls of a page are for the vector, a row or the page's table.
LEMMA ListingAligned ==
    ASSUME NEW rows, rows \in Seq(Contracts(Nat)), NEW td, NEW st, NEW rf, Listing(td, st, rf, rows)
    PROVE  Aligned(td, st)
<1>1. Len(rows) \in Nat
  OBVIOUS
<1>2. CASE td = <<VecStart>> \o PageFrom(rows, 0)
  <2>1. IsSeq(PageFrom(rows, 0))
    BY <1>1, ListSeqs
  <2>2. td # <<>> /\ Head(td) = VecStart
    BY <1>2, <2>1, OneCall
  <2> QED BY <2>2 DEF Aligned, VecStart, Call
<1>3. ASSUME NEW k \in 0..Len(rows), td = PageFrom(rows, k), st = VecStack(rows, k)
      PROVE  Aligned(td, st)
  BY <1>3, PageAligned
<1>4. ASSUME NEW k \in 0 .. Len(rows) - 1, Turn(td, st, rf, rows, k)
      PROVE  Aligned(td, st)
  <2>1. k \in 0..Len(rows) /\ k + 1 \in 0..Len(rows)
    BY <1>1
  <2>2. /\ IsSeq(VecStack(rows, k)) /\ IsSeq(PageFrom(rows, k + 1))
        /\ IsSeq(<<Push>> \o PageFrom(rows, k + 1)) /\ IsSeq(Base)
    BY <2>1, ListSeqs, StageSeqs
  <2>3. CASE Contracting(td, st, rf, rows[k + 1], VecStack(rows, k), <<Push>> \o PageFrom(rows, k + 1))
    BY <2>2, <2>3, ContractingAligned
  <2>4. CASE td = <<Push>> \o PageFrom(rows, k + 1) /\ st = VecStack(rows, k)
    <3>1. Push.table = "vec"
      BY DEF Push, Call
    <3> QED BY <2>2, <2>4, <3>1, CallAligned DEF VecStack
  <2> QED BY <1>4, <2>3, <2>4 DEF Turn
<1>5. CASE Wrapping(td, st, rf, "ListContracts", 6, VecSlots(rows, Len(rows)))
  BY <1>5, WrappingAligned
<1> QED BY <1>2, <1>3, <1>4, <1>5 DEF Listing

\* A page is not Absent.
LEMMA PageWhole ==
    ASSUME NEW rows, rows \in Seq(Contracts(Nat)), NEW V, V = VecSlots(rows, Len(rows))
    PROVE  V # Absent /\ <<V>> # Absent
<1>1. ASSUME NEW i \in 1..Len(rows) PROVE ContractSlots(rows[i]) \in NestedRow
  <2>1. rows[i] \in Contracts(Nat)
    OBVIOUS
  <2> QED BY <2>1, ContractWhole
<1>2. V = [i \in 1..Len(rows) |-> ContractSlots(rows[i])] /\ Len(rows) \in Nat
  BY DEF VecSlots
<1>3. V \in Seq(NestedRow)
  BY <1>1, <1>2
<1>4. <<V>> \in Seq(Seq(NestedRow))
  BY <1>3
<1> QED BY <1>3, <1>4, AbsentAssumption

\* A step of building a page: each row is pushed once, in its place.
LEMMA ListingStep ==
    ASSUME BuilderStep, NEW rows, rows \in Seq(Contracts(Nat)), Listing(todo, stack, ref, rows)
    PROVE  /\ UNCHANGED <<meant, fault>>
           /\ \/ phase' = phase /\ Listing(todo', stack', ref', rows)
              \/ phase' = "answered" /\ out' = Response(6, <<VecSlots(rows, Len(rows))>>)
<1>1. Len(rows) \in Nat /\ 0 \in 0..Len(rows) /\ Len(rows) \in 0..Len(rows)
  OBVIOUS
<1>2. CASE todo = <<VecStart>> \o PageFrom(rows, 0) /\ stack = Base
  <2>1. IsSeq(PageFrom(rows, 0))
    BY <1>1, ListSeqs
  <2>2. /\ todo' = PageFrom(rows, 0) /\ stack' = Append(stack, Frame("vec", <<>>))
        /\ UNCHANGED <<phase, ref, out, meant, fault>>
    BY <1>2, <2>1, VecStartCall
  <2>3. VecSlots(rows, 0) = <<>>
    BY DEF VecSlots
  <2>4. stack' = VecStack(rows, 0)
    BY <1>2, <2>2, <2>3, Zenon DEF VecStack
  <2> QED BY <1>1, <2>2, <2>4 DEF Listing
<1>3. ASSUME NEW k \in 0..Len(rows), todo = PageFrom(rows, k), stack = VecStack(rows, k)
      PROVE  UNCHANGED <<phase, meant, fault>> /\ Listing(todo', stack', ref', rows)
  <2>1. CASE k = Len(rows)
    <3>1. todo = <<VecEnd>> \o Wrap("ListContracts", 6)
      BY <1>3, <2>1, RowsLeft DEF EndRows
    <3>2. IsSeq(Base) /\ IsSeq(Wrap("ListContracts", 6))
      BY StageSeqs, WrapSeqs
    <3>3. /\ todo' = Wrap("ListContracts", 6) /\ stack' = Base /\ ref' = VecSlots(rows, k)
          /\ UNCHANGED <<phase, out, meant, fault>>
      BY <1>3, <3>1, <3>2, VecEndCall DEF VecStack
    <3> QED BY <2>1, <3>3 DEF Listing, Wrapping
  <2>2. CASE k # Len(rows)
    <3> DEFINE c == rows[k + 1]
               X == <<Push>> \o PageFrom(rows, k + 1)
    <3>1. k \in 0 .. Len(rows) - 1 /\ k < Len(rows) /\ k + 1 \in 0..Len(rows)
      BY <1>1, <2>2
    <3>2. todo = <<Row(c)>> \o PageFrom(rows, k + 1)
      BY <1>3, <3>1, RowsLeft
    <3>3. IsSeq(PageFrom(rows, k + 1)) /\ IsSeq(X)
      BY <3>1, ListSeqs
    <3>4. todo' = ContractCalls(c) \o X /\ UNCHANGED <<phase, stack, ref, out, meant, fault>>
      BY <3>2, <3>3, RowCall
    <3> HIDE DEF c, X
    <3>5. Opening(ContractCalls(c) \o X, VecStack(rows, k), c, VecStack(rows, k), X)
      BY <3>3, CallsOpen
    <3>6. Contracting(todo', stack', ref', c, VecStack(rows, k), X)
      BY <1>3, <3>4, <3>5, Zenon DEF Contracting
    <3>7. Turn(todo', stack', ref', rows, k)
      BY <3>6, Zenon DEF Turn, c, X
    <3> QED BY <3>1, <3>4, <3>7 DEF Listing
  <2> QED BY <2>1, <2>2
<1>4. ASSUME NEW k \in 0 .. Len(rows) - 1, Turn(todo, stack, ref, rows, k)
      PROVE  UNCHANGED <<phase, meant, fault>> /\ Listing(todo', stack', ref', rows)
  <2> DEFINE c == rows[k + 1]
             B == VecStack(rows, k)
             X == <<Push>> \o PageFrom(rows, k + 1)
  <2>1. k \in 0..Len(rows) /\ k + 1 \in 0..Len(rows) /\ k + 1 \in 1..Len(rows)
    BY <1>1
  <2>2. /\ IsSeq(B) /\ IsSeq(PageFrom(rows, k + 1)) /\ IsSeq(X) /\ IsSeq(Base)
    BY <2>1, ListSeqs, StageSeqs
  <2>3. c \in Contracts(Nat)
    BY <2>1
  <2> HIDE DEF c, B, X
  <2>4. CASE Contracting(todo, stack, ref, c, B, X)
    <3>1. /\ UNCHANGED <<phase, out, meant, fault>>
          /\ \/ Contracting(todo', stack', ref', c, B, X)
             \/ todo' = X /\ stack' = B /\ ref' = ContractSlots(c)
      BY <2>2, <2>3, <2>4, ContractingStep
    <3>2. Turn(todo', stack', ref', rows, k)
      BY <3>1, Zenon DEF Turn, c, B, X
    <3> QED BY <3>1, <3>2 DEF Listing
  <2>5. CASE todo = X /\ stack = B /\ ref = ContractSlots(c)
    <3>1. ref # Absent
      BY <2>3, <2>5, ContractWhole
    <3>2. /\ todo' = PageFrom(rows, k + 1)
          /\ stack' = Append(Base, Frame("vec", Append(VecSlots(rows, k), ref)))
          /\ UNCHANGED <<phase, ref, out, meant, fault>>
      BY <2>2, <2>5, <3>1, PushCall DEF B, X, VecStack
    <3>3. Append(VecSlots(rows, k), ContractSlots(c)) = VecSlots(rows, k + 1)
      BY RowsPushed DEF c
    <3>4. stack' = VecStack(rows, k + 1)
      BY <2>5, <3>2, <3>3, Zenon DEF VecStack
    <3> QED BY <2>1, <3>2, <3>4 DEF Listing
  <2> QED BY <1>4, <2>4, <2>5 DEF Turn, c, B, X
<1>5. CASE Wrapping(todo, stack, ref, "ListContracts", 6, VecSlots(rows, Len(rows)))
  <2> DEFINE V == VecSlots(rows, Len(rows))
  <2>1. V # Absent /\ <<V>> # Absent
    BY PageWhole
  <2> HIDE DEF V
  <2>2. /\ UNCHANGED <<meant, fault>>
        /\ \/ phase' = phase /\ Wrapping(todo', stack', ref', "ListContracts", 6, V)
           \/ phase' = "answered" /\ out' = Response(6, <<V>>)
    BY <1>5, <2>1, WrappingStep DEF V
  <2> QED BY <2>2 DEF Listing, V
<1> QED BY <1>2, <1>3, <1>4, <1>5 DEF Listing

-----------------------------------------------------------------------------
\* The stages of request_contract and of check_contract.
RC == "RequestContract"
Requesting(td, st, rf, c) ==
    \/ Fielding(td, st, "Message", <<>>, EchoCalls(c) \o Wrap(RC, 5), M0)
    \/ Contracting(td, st, rf, c, Base, Wrap(RC, 5))
    \/ Wrapping(td, st, rf, RC, 5, ContractSlots(c))
Checking(td, st, rf, c) ==
    \/ Contracting(td, st, rf, c, Base, Last(7))
    \/ Finishing(td, st, rf, 7, ContractSlots(c))

\* The request's contract is opened once the message has its fields.
LEMMA EchoOpen ==
    ASSUME NEW c, NEW td, NEW st, NEW rf, Requesting(td, st, rf, c)
    PROVE  /\ IsSeq(EchoCalls(c) \o Wrap(RC, 5)) /\ IsSeq(Wrap(RC, 5)) /\ IsSeq(<<>>) /\ IsSeq(Base)
           /\ td = EchoCalls(c) \o Wrap(RC, 5) /\ st = Append(<<>>, Frame("Message", M0))
                => Contracting(td, st, rf, c, Base, Wrap(RC, 5))
<1>1. IsSeq(Wrap(RC, 5)) /\ IsSeq(<<>>) /\ IsSeq(Base)
  BY WrapSeqs, StageSeqs
<1>2. IsSeq(EchoCalls(c)) /\ Opening(EchoCalls(c) \o Wrap(RC, 5), Base, c, Base, Wrap(RC, 5))
  BY <1>1, CallsOpen
<1>3. IsSeq(EchoCalls(c) \o Wrap(RC, 5))
  BY <1>1, <1>2, SeqMade, Zenon
<1>4. Base = Append(<<>>, Frame("Message", M0))
  BY Zenon DEF Base, RootStack
<1>5. ASSUME td = EchoCalls(c) \o Wrap(RC, 5), st = Append(<<>>, Frame("Message", M0))
      PROVE  Contracting(td, st, rf, c, Base, Wrap(RC, 5))
  BY <1>2, <1>4, <1>5, Zenon DEF Contracting
<1> QED BY <1>1, <1>3, <1>5, Zenon

\* The calls of request_contract reach their tables.
LEMMA RequestingAligned ==
    ASSUME NEW c, NEW td, NEW st, NEW rf, Requesting(td, st, rf, c)
    PROVE  Aligned(td, st)
<1> DEFINE X == EchoCalls(c) \o Wrap(RC, 5)
<1>1. /\ IsSeq(X) /\ IsSeq(Wrap(RC, 5)) /\ IsSeq(<<>>) /\ IsSeq(Base)
      /\ td = X /\ st = Append(<<>>, Frame("Message", M0))
           => Contracting(td, st, rf, c, Base, Wrap(RC, 5))
  BY EchoOpen, Zenon
<1> HIDE DEF X
<1>2. CASE Contracting(td, st, rf, c, Base, Wrap(RC, 5))
  BY <1>1, <1>2, ContractingAligned
<1>3. CASE Fielding(td, st, "Message", <<>>, X, M0)
  BY <1>1, <1>2, <1>3, FieldingAligned
<1>4. CASE Wrapping(td, st, rf, RC, 5, ContractSlots(c))
  BY <1>4, WrappingAligned
<1> QED BY <1>2, <1>3, <1>4 DEF Requesting, X

\* A step of request_contract's answer.
LEMMA RequestingStep ==
    ASSUME BuilderStep, NEW c \in Contracts(Nat), Requesting(todo, stack, ref, c)
    PROVE  /\ UNCHANGED <<meant, fault>>
           /\ \/ phase' = phase /\ Requesting(todo', stack', ref', c)
              \/ phase' = "answered" /\ out' = Response(5, <<ContractSlots(c)>>)
<1> DEFINE X == EchoCalls(c) \o Wrap(RC, 5)
           V == ContractSlots(c)
<1>1. /\ IsSeq(X) /\ IsSeq(Wrap(RC, 5)) /\ IsSeq(<<>>) /\ IsSeq(Base)
      /\ todo = X /\ stack = Append(<<>>, Frame("Message", M0))
           => Contracting(todo, stack, ref, c, Base, Wrap(RC, 5))
  BY EchoOpen, Zenon
<1>2. V # Absent /\ <<V>> # Absent
  <2>1. V \in NestedRow
    BY ContractWhole
  <2> HIDE DEF V
  <2>2. <<V>> \in Seq(NestedRow)
    BY <2>1
  <2> QED BY <2>1, <2>2, AbsentAssumption
<1> HIDE DEF X, V
<1>3. CASE Contracting(todo, stack, ref, c, Base, Wrap(RC, 5))
  <2>1. /\ UNCHANGED <<phase, out, meant, fault>>
        /\ \/ Contracting(todo', stack', ref', c, Base, Wrap(RC, 5))
           \/ todo' = Wrap(RC, 5) /\ stack' = Base /\ ref' = V
    BY <1>1, <1>3, ContractingStep DEF V
  <2> QED BY <2>1 DEF Requesting, Wrapping, V
<1>4. CASE Fielding(todo, stack, "Message", <<>>, X, M0)
  <2>1. "Message" \in BuildTables
    BY DEF BuildTables
  <2>2. \/ Fielding(todo', stack', "Message", <<>>, X, M0)
           /\ UNCHANGED <<phase, ref, out, meant, fault>>
        \/ todo = X /\ stack = Append(<<>>, Frame("Message", M0))
    BY <1>1, <1>4, <2>1, FieldingStep
  <2>3. CASE Fielding(todo', stack', "Message", <<>>, X, M0)
             /\ UNCHANGED <<phase, ref, out, meant, fault>>
    BY <2>3 DEF Requesting, X
  <2> QED BY <1>1, <1>3, <2>2, <2>3
<1>5. CASE Wrapping(todo, stack, ref, RC, 5, V)
  <2>1. RC \in {"RequestContract", "ListContracts"}
    BY DEF RC
  <2>2. /\ UNCHANGED <<meant, fault>>
        /\ \/ phase' = phase /\ Wrapping(todo', stack', ref', RC, 5, V)
           \/ phase' = "answered" /\ out' = Response(5, <<V>>)
    BY <1>2, <1>5, <2>1, WrappingStep
  <2> QED BY <2>2 DEF Requesting, V
<1> QED BY <1>3, <1>4, <1>5 DEF Requesting, X, V

\* The calls of check_contract reach their tables.
LEMMA CheckingAligned ==
    ASSUME NEW c, NEW td, NEW st, NEW rf, Checking(td, st, rf, c)
    PROVE  Aligned(td, st)
<1>1. IsSeq(Base) /\ IsSeq(Last(7))
  BY StageSeqs
<1> QED BY <1>1, ContractingAligned, FinishingAligned DEF Checking

\* A step of check_contract's answer.
LEMMA CheckingStep ==
    ASSUME BuilderStep, NEW c \in Contracts(Nat), Checking(todo, stack, ref, c)
    PROVE  /\ UNCHANGED <<meant, fault>>
           /\ \/ phase' = phase /\ Checking(todo', stack', ref', c)
              \/ phase' = "answered" /\ out' = Response(7, ContractSlots(c))
<1>1. IsSeq(Base) /\ IsSeq(Last(7))
  BY StageSeqs
<1>2. CASE Contracting(todo, stack, ref, c, Base, Last(7))
  <2>1. /\ UNCHANGED <<phase, out, meant, fault>>
        /\ \/ Contracting(todo', stack', ref', c, Base, Last(7))
           \/ todo' = Last(7) /\ stack' = Base /\ ref' = ContractSlots(c)
    BY <1>1, <1>2, ContractingStep
  <2> QED BY <2>1 DEF Checking, Finishing
<1>3. CASE Finishing(todo, stack, ref, 7, ContractSlots(c))
  <2>1. ContractSlots(c) # Absent
    BY ContractWhole
  <2> QED BY <1>3, <2>1, FinishingStep DEF Checking
<1> QED BY <1>2, <1>3 DEF Checking

Token(n) == <<Put(MessageType[n], 1, "token")>>

\* Where the builder is, for every answer of a handler.
Stage(td, st, rf, m) ==
    \/ m = Failed /\ Failing(td, st)
    \/ \E n \in {1, 2, 4} : /\ m = Done(n, [token |-> "token"])
                            /\ Single(td, st, rf, MessageType[n], n, Token(n), <<"token">>)
    \/ \E me \in Profiles : /\ m = Done(3, me)
                            /\ Single(td, st, rf, "GetMe", 3, MeFields(me), MeSlots(me))
    \/ \E c \in Contracts({1}) : m = Done(5, [result |-> c]) /\ Requesting(td, st, rf, c)
    \/ \E rows \in Pages : m = Done(6, [contracts |-> rows]) /\ Listing(td, st, rf, rows)
    \/ \E c \in Contracts({1}) : m = Done(7, c) /\ Checking(td, st, rf, c)

\* The three answers that hold a token.
LEMMA TokenTables ==
    ASSUME NEW n \in {1, 2, 4}
    PROVE  MessageType[n] \in {"Login", "Register", "EditMe"}
  BY DEF MessageType

\* A contract that is answered alone is a contract.
LEMMA OneContract == ASSUME NEW c \in Contracts({1}) PROVE c \in Contracts(Nat)
  BY DEF Contracts

\* At every stage the next call is for the open table, or opens one.
LEMMA StageAligned ==
    ASSUME NEW td, NEW st, NEW rf, NEW m, Stage(td, st, rf, m)
    PROVE  Aligned(td, st)
<1>1. CASE Failing(td, st)
  BY <1>1, FailingAligned
<1>2. ASSUME NEW n \in {1, 2, 4}, Single(td, st, rf, MessageType[n], n, Token(n), <<"token">>)
      PROVE  Aligned(td, st)
  <2>1. IsSeq(Token(n))
    BY SeqMade DEF Token
  <2> QED BY <1>2, <2>1, SingleAligned
<1>3. ASSUME NEW me, Single(td, st, rf, "GetMe", 3, MeFields(me), MeSlots(me))
      PROVE  Aligned(td, st)
  <2>1. IsSeq(MeFields(me))
    BY MeFills, Zenon DEF Fills
  <2> QED BY <1>3, <2>1, SingleAligned
<1>4. ASSUME NEW c, Requesting(td, st, rf, c) PROVE Aligned(td, st)
  BY <1>4, RequestingAligned
<1>5. ASSUME NEW rows \in Pages, Listing(td, st, rf, rows) PROVE Aligned(td, st)
  BY <1>5, PageType, ListingAligned
<1>6. ASSUME NEW c, Checking(td, st, rf, c) PROVE Aligned(td, st)
  BY <1>6, CheckingAligned
<1> QED BY <1>1, <1>2, <1>3, <1>4, <1>5, <1>6, Zenon DEF Stage

-----------------------------------------------------------------------------
\* What a client reads in a message with content W.
LEMMA SeenResponse ==
    ASSUME NEW n \in 1..7, NEW W, W # Absent
    PROVE  Seen(Response(n, W)) = Done(n, SeenContent(n, W))
<1> DEFINE m == Response(n, W)
<1>1. DOMAIN m = 1..4 /\ m[1] = n /\ m[2] = W /\ m[3] = Absent /\ m[4] = Absent
  BY DEF Response
<1> HIDE DEF m
<1>2. n # Absent /\ n # 0
  BY AbsentAssumption
<1>3. Read(MessageRead, m, 1) = n /\ Read(MessageRead, m, 2) = W
  BY <1>1, <1>2 DEF Read, Present
<1>4. Read(MessageRead, m, 4) = Absent
  BY <1>1 DEF Read, Present, MessageRead, Str
<1>5. Read(MessageRead, m, 3) = FALSE
  <2>1. ~Present(m, 3)
    BY <1>1 DEF Present
  <2>2. MessageRead[3] = Num("bool", FALSE)
    BY DEF MessageRead
  <2>3. Num("bool", FALSE).required = FALSE /\ Num("bool", FALSE).def = FALSE
    BY DEF Num
  <2> QED BY <2>1, <2>2, <2>3, Zenon DEF Read
<1> QED BY <1>2, <1>3, <1>4, <1>5, Zenon DEF Seen, Done, m

\* An error comes back as the error that was meant.
LEMMA SeenFailure == Seen(FailSlots) = Failed
<1> DEFINE m == FailSlots
<1>1. DOMAIN m = 1..4 /\ m[1] = Absent /\ m[3] = TRUE /\ m[4] = "why"
  BY DEF FailSlots
<1> HIDE DEF m
<1>2. TRUE # Absent /\ "why" # Absent
  BY AbsentAssumption, NotAbsent, Zenon
<1>3. Read(MessageRead, m, 1) = 0
  BY <1>1 DEF Read, Present, MessageRead, Num
<1>4. Read(MessageRead, m, 4) = "why"
  BY <1>1, <1>2 DEF Read, Present
<1>5. Read(MessageRead, m, 3) = TRUE
  <2>1. Present(m, 3)
    BY <1>1, <1>2, 3 \in 1..4, Zenon DEF Present
  <2> QED BY <1>1, <2>1, Zenon DEF Read
<1> QED BY <1>3, <1>4, <1>5, Zenon DEF Seen, Failed, m

\* A token comes back.
LEMMA SeenToken ==
    ASSUME NEW n \in {1, 2, 4}
    PROVE  SeenContent(n, <<"token">>) = [token |-> "token"]
<1>1. "token" # Absent
  BY NotAbsent, Zenon
<1>2. \A f : Read(f, <<"token">>, 1) = "token"
  BY <1>1 DEF Read, Present
<1> QED BY <1>2 DEF SeenContent

\* A profile comes back.
LEMMA SeenProfile ==
    ASSUME NEW me \in Profiles
    PROVE  SeenContent(3, MeSlots(me)) = me
<1> DEFINE W == MeSlots(me)
           a == Kept(me.admin, FALSE)
<1>1. /\ me.username = "username" /\ me.password = "password" /\ me.firstName = "firstName"
      /\ me.lastName = "lastName" /\ me.admin \in BOOLEAN
      /\ me = [username |-> me.username, password |-> me.password, firstName |-> me.firstName,
               lastName |-> me.lastName, admin |-> me.admin]
  BY DEF Profiles
<1>2. W = <<me.username, me.password, me.firstName, me.lastName, a>>
  BY Zenon DEF MeSlots
<1> HIDE DEF W, a
<1>3. /\ DOMAIN W = 1..5 /\ W[1] = me.username /\ W[2] = me.password /\ W[3] = me.firstName
      /\ W[4] = me.lastName /\ W[5] = a
  BY <1>2
<1>4. /\ me.username # Absent /\ me.password # Absent /\ me.firstName # Absent
      /\ me.lastName # Absent
  BY <1>1, NotAbsent, Zenon
<1>5. /\ Read(GetMeRead, W, 1) = me.username /\ Read(GetMeRead, W, 2) = me.password
      /\ Read(GetMeRead, W, 3) = me.firstName /\ Read(GetMeRead, W, 4) = me.lastName
  BY <1>3, <1>4 DEF Read, Present
<1>6. Read(GetMeRead, W, 5) = me.admin
  <2>1. CASE me.admin = FALSE
    <3>1. a = Absent
      BY <2>1, Zenon DEF a, Kept
    <3>2. ~Present(W, 5)
      BY <1>3, <3>1 DEF Present
    <3>3. GetMeRead[5] = Num("bool", FALSE)
      BY DEF GetMeRead
    <3>4. Num("bool", FALSE).required = FALSE /\ Num("bool", FALSE).def = FALSE
      BY DEF Num
    <3> QED BY <2>1, <3>2, <3>3, <3>4, Zenon DEF Read
  <2>2. CASE me.admin = TRUE
    <3>1. a = TRUE
      BY <2>2, Zenon DEF a, Kept
    <3>2. TRUE # Absent
      BY AbsentAssumption, Zenon
    <3>3. Present(W, 5)
      BY <1>3, <3>1, <3>2, 5 \in 1..5, Zenon DEF Present
    <3> QED BY <1>3, <2>2, <3>1, <3>3, Zenon DEF Read
  <2> QED BY <1>1, <2>1, <2>2, Zenon
<1>7. SeenMe(W) = me
  BY <1>1, <1>5, <1>6, Zenon DEF SeenMe
<1>8. SeenContent(3, W) = SeenMe(W)
  BY DEF SeenContent
<1> QED BY <1>7, <1>8 DEF W

\* A contract comes back, its defaults and its absent texts as they were.
LEMMA SeenContractIs ==
    ASSUME NEW c \in Contracts(Nat)
    PROVE  SeenContract(ContractSlots(c)) = c
<1> DEFINE W == ContractSlots(c)
           u == UserSlots(c.by_user)
<1>1. /\ c.id \in Nat /\ c.name = "name" /\ c.description \in {Absent, "description"}
      /\ c.price \in Int /\ c.attachment \in {Absent, "attachment"} /\ c.status = 1
      /\ c.created_at = 7 /\ c.by_user = Person
      /\ c = [id |-> c.id, name |-> c.name, description |-> c.description,
              price |-> c.price, attachment |-> c.attachment, status |-> c.status,
              created_at |-> c.created_at, by_user |-> c.by_user]
  BY ContractType
<1>2. W = <<Kept(c.id, -1), c.name, c.description, Kept(c.price, -1), c.attachment,
            Kept(c.status, 1), Kept(c.created_at, 0), u>>
  BY ContractWhole
<1>3. u # Absent
  BY UserWhole
<1> HIDE DEF W, u
<1>4. /\ DOMAIN W = 1..8 /\ W[1] = Kept(c.id, -1) /\ W[2] = c.name /\ W[3] = c.description
      /\ W[4] = Kept(c.price, -1) /\ W[5] = c.attachment /\ W[6] = Kept(c.status, 1)
      /\ W[7] = Kept(c.created_at, 0) /\ W[8] = u
  BY <1>2
<1>5. /\ c.id # Absent /\ c.price # Absent /\ c.created_at # Absent /\ "name" # Absent
  <2>1. c.id \in Int /\ c.created_at \in Int
    BY <1>1
  <2> QED BY <1>1, <2>1, NotAbsent, Zenon
<1>6. Read(CheckContractRead, W, 1) = c.id
  BY <1>1, <1>4, <1>5 DEF Read, Present, Kept
<1>7. Read(CheckContractRead, W, 2) = c.name
  BY <1>1, <1>4, <1>5 DEF Read, Present
<1>8. Read(CheckContractRead, W, 3) = c.description
  BY <1>4 DEF Read, Present, CheckContractRead, Str
<1>9. Read(CheckContractRead, W, 4) = c.price
  BY <1>4, <1>5 DEF Read, Present, Kept, CheckContractRead, Num
<1>10. Read(CheckContractRead, W, 5) = c.attachment
  BY <1>4 DEF Read, Present, CheckContractRead, Vec
<1>11. Read(CheckContractRead, W, 6) = c.status
  BY <1>1, <1>4 DEF Read, Present, Kept, CheckContractRead, Num
<1>12. Read(CheckContractRead, W, 7) = c.created_at
  BY <1>1, <1>4, <1>5 DEF Read, Present, Kept
<1>13. Read(CheckContractRead, W, 8) = u
  BY <1>3, <1>4 DEF Read, Present
<1>14. SeenUser(u) = c.by_user
  <2>1. u = <<"username", "firstName", "lastName">>
    BY <1>1 DEF u, UserSlots, Person
  <2>2. "username" # Absent /\ "firstName" # Absent /\ "lastName" # Absent
    BY NotAbsent, Zenon
  <2>3. /\ Read(UserRead, u, 1) = "username" /\ Read(UserRead, u, 2) = "firstName"
        /\ Read(UserRead, u, 3) = "lastName"
    BY <2>1, <2>2 DEF Read, Present
  <2> QED BY <1>1, <2>3, Zenon DEF SeenUser, Person
<1>15. SeenContract(W) = c
  BY <1>1, <1>6, <1>7, <1>8, <1>9, <1>10, <1>11, <1>12, <1>13, <1>14, Zenon DEF SeenContract
<1> QED BY <1>15 DEF W

\* A page comes back, row by row.
LEMMA SeenPageIs ==
    ASSUME NEW rows, rows \in Seq(Contracts(Nat))
    PROVE  SeenPage(VecSlots(rows, Len(rows))) = rows
<1> DEFINE V == VecSlots(rows, Len(rows))
<1>1. DOMAIN V = 1..Len(rows) /\ \A i \in 1..Len(rows) : V[i] = ContractSlots(rows[i])
  BY DEF VecSlots
<1> HIDE DEF V
<1>2. ASSUME NEW i \in 1..Len(rows) PROVE SeenContract(V[i]) = rows[i]
  <2>1. rows[i] \in Contracts(Nat)
    OBVIOUS
  <2> QED BY <1>1, <2>1, SeenContractIs
<1>3. SeenPage(V) = [i \in 1..Len(rows) |-> rows[i]]
  BY <1>1, <1>2 DEF SeenPage
<1>4. rows = [i \in 1..Len(rows) |-> rows[i]]
  OBVIOUS
<1> QED BY <1>3, <1>4 DEF V

\* A reference comes back.
LEMMA SeenRef == ASSUME NEW f, NEW V, V # Absent PROVE Read(f, <<V>>, 1) = V
  BY DEF Read, Present

\* A builder call goes to the next stage or finishes the message that was meant.
LEMMA StageStep ==
    ASSUME BuilderStep, Stage(todo, stack, ref, meant)
    PROVE  /\ UNCHANGED <<meant, fault>>
           /\ \/ phase' = phase /\ Stage(todo', stack', ref', meant)
              \/ phase' = "answered" /\ Seen(out') = meant
<1> DEFINE Goal == /\ UNCHANGED <<meant, fault>>
                   /\ \/ phase' = phase /\ Stage(todo', stack', ref', meant)
                      \/ phase' = "answered" /\ Seen(out') = meant
<1>1. ASSUME meant = Failed, Failing(todo, stack) PROVE Goal
  <2>1. /\ UNCHANGED <<meant, fault>>
        /\ \/ phase' = phase /\ Failing(todo', stack')
           \/ phase' = "answered" /\ out' = FailSlots
    BY <1>1, FailingStep
  <2> QED BY <1>1, <2>1, SeenFailure, Zenon DEF Stage
<1>2. ASSUME NEW n \in {1, 2, 4}, meant = Done(n, [token |-> "token"]),
             Single(todo, stack, ref, MessageType[n], n, Token(n), <<"token">>)
      PROVE  Goal
  <2> DEFINE t == MessageType[n]
             W == <<"token">>
  <2>1. t \in {"Login", "Register", "EditMe"}
    BY TokenTables
  <2> HIDE DEF t
  <2>2. n \in 1..7 /\ t \in BuildTables
    BY <2>1 DEF BuildTables
  <2>3. Fills(Token(n), t, NoSlots(t), W)
    BY <2>1, TokenFills DEF Token, t
  <2>4. "token" # Absent /\ "token" \in Plain
    BY NotAbsent, Zenon
  <2>5. W # Absent
    <3>1. W \in PlainRow
      BY <2>4 DEF PlainRow
    <3> QED BY <3>1, AbsentAssumption
  <2>6. \A s \in Builder[t].required : Present(W, s)
    <3>1. Builder[t].required = {1}
      BY <2>1 DEF Builder, LoginBuilder, RegisterBuilder, EditMeBuilder, Build
    <3> QED BY <2>4, <3>1 DEF Present
  <2> HIDE DEF W
  <2>7. /\ UNCHANGED <<meant, fault>>
        /\ \/ phase' = phase /\ Single(todo', stack', ref', t, n, Token(n), W)
           \/ phase' = "answered" /\ out' = Response(n, W)
    BY <1>2, <2>2, <2>3, <2>5, <2>6, SingleStep DEF t, W
  <2>8. Seen(Response(n, W)) = meant
    <3>1. Seen(Response(n, W)) = Done(n, SeenContent(n, W))
      BY <2>2, <2>5, SeenResponse
    <3>2. SeenContent(n, W) = [token |-> "token"]
      BY SeenToken DEF W
    <3> QED BY <1>2, <3>1, <3>2
  <2> QED BY <1>2, <2>7, <2>8, Zenon DEF Stage, t, W
<1>3. ASSUME NEW me \in Profiles, meant = Done(3, me),
             Single(todo, stack, ref, "GetMe", 3, MeFields(me), MeSlots(me))
      PROVE  Goal
  <2> DEFINE W == MeSlots(me)
             a == Kept(me.admin, FALSE)
  <2>1. "GetMe" \in BuildTables /\ Fills(MeFields(me), "GetMe", NoSlots("GetMe"), W)
    BY MeFills DEF BuildTables
  <2>2. /\ me.username = "username" /\ me.password = "password" /\ me.firstName = "firstName"
        /\ me.lastName = "lastName" /\ me.admin \in BOOLEAN
    BY DEF Profiles
  <2>3. W = <<me.username, me.password, me.firstName, me.lastName, a>>
    BY Zenon DEF MeSlots
  <2>4. a \in Plain
    BY <2>2, Zenon DEF a, Kept, Plain
  <2>5. /\ me.username \in Plain /\ me.password \in Plain /\ me.firstName \in Plain
        /\ me.lastName \in Plain /\ me.username # Absent /\ me.password # Absent
        /\ me.firstName # Absent /\ me.lastName # Absent
    BY <2>2, NotAbsent, Zenon
  <2> HIDE DEF W, a
  <2>6. W # Absent
    <3>1. W \in PlainRow
      BY <2>3, <2>4, <2>5 DEF PlainRow
    <3> QED BY <3>1, AbsentAssumption
  <2>7. \A s \in Builder["GetMe"].required : Present(W, s)
    <3>1. Builder["GetMe"].required = {1, 2, 3, 4}
      BY DEF Builder, GetMeBuilder, Build
    <3>2. /\ DOMAIN W = 1..5 /\ W[1] = me.username /\ W[2] = me.password
          /\ W[3] = me.firstName /\ W[4] = me.lastName
      BY <2>3
    <3> QED BY <2>5, <3>1, <3>2 DEF Present
  <2>8. /\ UNCHANGED <<meant, fault>>
        /\ \/ phase' = phase /\ Single(todo', stack', ref', "GetMe", 3, MeFields(me), W)
           \/ phase' = "answered" /\ out' = Response(3, W)
    BY <1>3, <2>1, <2>6, <2>7, SingleStep DEF W
  <2>9. Seen(Response(3, W)) = meant
    <3>1. Seen(Response(3, W)) = Done(3, SeenContent(3, W))
      BY <2>6, SeenResponse
    <3>2. SeenContent(3, W) = me
      BY SeenProfile DEF W
    <3> QED BY <1>3, <3>1, <3>2
  <2> QED BY <1>3, <2>8, <2>9, Zenon DEF Stage, W
<1>4. ASSUME NEW c \in Contracts({1}), meant = Done(5, [result |-> c]),
             Requesting(todo, stack, ref, c)
      PROVE  Goal
  <2> DEFINE V == ContractSlots(c)
  <2>1. c \in Contracts(Nat)
    BY OneContract
  <2>2. V # Absent /\ V \in NestedRow
    BY <2>1, ContractWhole
  <2>3. SeenContract(V) = c
    BY <2>1, SeenContractIs
  <2>4. /\ UNCHANGED <<meant, fault>>
        /\ \/ phase' = phase /\ Requesting(todo', stack', ref', c)
           \/ phase' = "answered" /\ out' = Response(5, <<V>>)
    BY <1>4, <2>1, RequestingStep
  <2> HIDE DEF V
  <2>5. <<V>> # Absent
    <3>1. <<V>> \in Seq(NestedRow)
      BY <2>2
    <3> QED BY <3>1, AbsentAssumption
  <2>6. Seen(Response(5, <<V>>)) = meant
    <3> DEFINE W == <<V>>
    <3>1. Read(RequestContractRead, W, 1) = V
      BY <2>2, SeenRef
    <3>2. W # Absent
      BY <2>5
    <3> HIDE DEF W
    <3>3. Seen(Response(5, W)) = Done(5, SeenContent(5, W))
      BY <3>2, SeenResponse
    <3>4. SeenContent(5, W) = [result |-> c]
      BY <2>3, <3>1 DEF SeenContent
    <3> QED BY <1>4, <3>3, <3>4 DEF W
  <2> QED BY <1>4, <2>4, <2>6, Zenon DEF Stage
<1>5. ASSUME NEW rows \in Pages, meant = Done(6, [contracts |-> rows]),
             Listing(todo, stack, ref, rows)
      PROVE  Goal
  <2> DEFINE V == VecSlots(rows, Len(rows))
             W == <<V>>
  <2>1. rows \in Seq(Contracts(Nat))
    BY PageType
  <2>2. V # Absent /\ W # Absent
    BY <2>1, PageWhole
  <2>3. SeenPage(V) = rows
    BY <2>1, SeenPageIs
  <2>4. /\ UNCHANGED <<meant, fault>>
        /\ \/ phase' = phase /\ Listing(todo', stack', ref', rows)
           \/ phase' = "answered" /\ out' = Response(6, W)
    BY <1>5, <2>1, ListingStep
  <2> HIDE DEF V
  <2>5. Read(ListContractsRead, W, 1) = V
    BY <2>2, SeenRef
  <2> HIDE DEF W
  <2>6. Seen(Response(6, W)) = meant
    <3>1. Seen(Response(6, W)) = Done(6, SeenContent(6, W))
      BY <2>2, SeenResponse
    <3>2. SeenContent(6, W) = [contracts |-> rows]
      BY <2>3, <2>5 DEF SeenContent
    <3> QED BY <1>5, <3>1, <3>2
  <2> QED BY <1>5, <2>4, <2>6, Zenon DEF Stage
<1>6. ASSUME NEW c \in Contracts({1}), meant = Done(7, c), Checking(todo, stack, ref, c)
      PROVE  Goal
  <2> DEFINE W == ContractSlots(c)
  <2>1. c \in Contracts(Nat)
    BY OneContract
  <2>2. W # Absent /\ SeenContract(W) = c
    BY <2>1, ContractWhole, SeenContractIs
  <2>3. /\ UNCHANGED <<meant, fault>>
        /\ \/ phase' = phase /\ Checking(todo', stack', ref', c)
           \/ phase' = "answered" /\ out' = Response(7, W)
    BY <1>6, <2>1, CheckingStep
  <2> HIDE DEF W
  <2>4. Seen(Response(7, W)) = meant
    <3>1. Seen(Response(7, W)) = Done(7, SeenContent(7, W))
      BY <2>2, SeenResponse
    <3>2. SeenContent(7, W) = c
      BY <2>2 DEF SeenContent
    <3> QED BY <1>6, <3>1, <3>2
  <2> QED BY <1>6, <2>3, <2>4, Zenon DEF Stage
<1> HIDE DEF Goal
<1>7. Goal
  BY <1>1, <1>2, <1>3, <1>4, <1>5, <1>6, Zenon DEF Stage
<1> QED BY <1>7 DEF Goal

\* Two calls, one after the other.
LEMMA TwoCalls ==
    ASSUME NEW x, NEW y, NEW a, NEW b, a = <<x>>, b = <<y>>
    PROVE  a \o b = <<x, y>>
<1> DEFINE q == <<x, y>>
           r == a \o b
<1>1. /\ a \in Seq({x, y}) /\ b \in Seq({x, y}) /\ q \in Seq({x, y}) /\ Len(q) = 2
      /\ q[1] = x /\ q[2] = y
  OBVIOUS
<1>2. Len(a) = 1 /\ Len(b) = 1 /\ a[1] = x /\ b[1] = y /\ Len(r) = 2
  OBVIOUS
<1>3. r[1] = x /\ r[2] = y
  BY <1>1, <1>2
<1>4. r \in Seq({x, y})
  BY <1>1
<1> HIDE DEF q, r
<1>5. \A i \in 1..2 : q[i] = r[i]
  BY <1>1, <1>3
<1>6. q = r
  BY <1>1, <1>2, <1>4, <1>5, SeqEqual
<1> QED BY <1>6 DEF q, r

\* The last two calls.
LEMMA LastCalls == ASSUME NEW n PROVE Last(n) = <<MsgAdd(n), EndAsRoot>>
  BY TwoCalls DEF Last

\* A table of fields only, after error_add(false).
LEMMA DoneFlat ==
    ASSUME NEW a, NEW t, NEW p, NEW n, IsSeq(a), IsSeq(p)
    PROVE  DoneCalls(n, a \o Table(t, p)) = a \o (<<Start(t)>> \o (p \o EndsWith(t, n)))
<1> DEFINE b == <<Start(t)>>
           e == <<End(t)>>
           m == Last(n)
<1>1. IsSeq(b) /\ IsSeq(e) /\ IsSeq(m)
  BY SeqMade, StageSeqs
<1>2. m = <<MsgAdd(n), EndAsRoot>>
  BY LastCalls
<1>3. DoneCalls(n, a \o Table(t, p)) = Cat(Cat(a, Cat(Cat(b, p), e)), m)
  BY <1>2, Zenon DEF DoneCalls, Table, Cat
<1>4. a \o (<<Start(t)>> \o (p \o EndsWith(t, n))) = Cat(a, Cat(b, Cat(p, Cat(e, m))))
  BY Zenon DEF EndsWith, Cat
<1> HIDE DEF b, e, m
<1>5. Cat(Cat(a, Cat(Cat(b, p), e)), m) = Cat(a, Cat(b, Cat(p, Cat(e, m))))
  BY <1>1, CatAssoc
<1> QED BY <1>3, <1>4, <1>5, Zenon

\* The calls of request_contract.
LEMMA EchoFlat ==
    ASSUME NEW c
    PROVE  DoneCalls(5, Success \o EchoCalls(c)
                     \o Table("RequestContract", <<PutRef("RequestContract", 1)>>))
             = Success \o (EchoCalls(c) \o Wrap(RC, 5))
<1> DEFINE a == Success
           f == EchoCalls(c)
           b == <<Start(RC)>>
           p == <<PutRef(RC, 1)>>
           e == <<End(RC)>>
           m == Last(5)
<1>1. IsSeq(a) /\ IsSeq(b) /\ IsSeq(p) /\ IsSeq(e) /\ IsSeq(m)
  BY SeqMade, StageSeqs DEF Success
<1>2. IsSeq(f)
  BY SeqMade, CallsOpen
<1>3. m = <<MsgAdd(5), EndAsRoot>>
  BY LastCalls
<1>4. DoneCalls(5, Success \o EchoCalls(c)
                \o Table("RequestContract", <<PutRef("RequestContract", 1)>>))
        = Cat(Cat(Cat(a, f), Cat(Cat(b, p), e)), m)
  BY <1>3, Zenon DEF DoneCalls, Table, Cat, RC
<1>5. Success \o (EchoCalls(c) \o Wrap(RC, 5)) = Cat(a, Cat(f, Cat(b, Cat(p, Cat(e, m)))))
  BY Zenon DEF Wrap, AddWrap, EndWrap, Cat
<1> HIDE DEF a, f, b, p, e, m
<1>6. Cat(Cat(Cat(a, f), Cat(Cat(b, p), e)), m) = Cat(a, Cat(f, Cat(b, Cat(p, Cat(e, m)))))
  BY <1>1, <1>2, CatAssoc
<1> QED BY <1>4, <1>5, <1>6, Zenon

\* The calls of list_contracts.
LEMMA PageFlat ==
    ASSUME NEW rows, rows \in Seq(Contracts(Nat))
    PROVE  DoneCalls(6, PageCalls(rows)) = <<VecStart>> \o PageFrom(rows, 0)
<1> DEFINE t == "ListContracts"
           v == <<VecStart>>
           r == RowsFrom(rows, 0)
           w == <<VecEnd>>
           b == <<Start(t)>>
           p == <<PutRef(t, 1)>>
           e == <<End(t)>>
           m == Last(6)
<1>1. IsSeq(v) /\ IsSeq(w) /\ IsSeq(b) /\ IsSeq(p) /\ IsSeq(e) /\ IsSeq(m)
  BY SeqMade, StageSeqs
<1>2. IsSeq(r)
  <2>1. 0 \in 0..Len(rows)
    OBVIOUS
  <2> QED BY <2>1, RowsLeft
<1>3. m = <<MsgAdd(6), EndAsRoot>>
  BY LastCalls
<1>4. r = [k \in 1..Len(rows) |-> Row(rows[k])]
  <2>1. Len(rows) \in Nat
    OBVIOUS
  <2>2. Len(rows) - 0 = Len(rows) /\ \A i \in 1..Len(rows) : i + 0 = i
    BY <2>1
  <2> QED BY <2>2 DEF RowsFrom
<1>5. DoneCalls(6, PageCalls(rows)) = Cat(Cat(Cat(v, r), Cat(w, Cat(Cat(b, p), e))), m)
  BY <1>3, <1>4, Zenon DEF DoneCalls, PageCalls, Table, Cat
<1>6. <<VecStart>> \o PageFrom(rows, 0) = Cat(v, Cat(r, Cat(w, Cat(b, Cat(p, Cat(e, m))))))
  BY Zenon DEF PageFrom, EndRows, Wrap, AddWrap, EndWrap, Cat
<1> HIDE DEF v, r, w, b, p, e, m
<1>7. Cat(Cat(Cat(v, r), Cat(w, Cat(Cat(b, p), e))), m)
        = Cat(v, Cat(r, Cat(w, Cat(b, Cat(p, Cat(e, m))))))
  BY <1>1, <1>2, CatAssoc
<1> QED BY <1>5, <1>6, <1>7, Zenon

\* A handler's answer begins with a stage for what it means.
LEMMA AnswerStage ==
    ASSUME Answer
    PROVE  /\ phase' = "building" /\ UNCHANGED fault
           /\ Stage(todo', stack', ref', meant')
<1>1. phase' = "building" /\ UNCHANGED fault
  BY DEF Answer, AnswerError, AnswerToken, AnswerGetMe, AnswerRequestContract,
         AnswerListContracts, AnswerCheckContract, Respond
<1> SUFFICES Stage(todo', stack', ref', meant')
  BY <1>1
<1>2. ASSUME NEW says, NEW calls, Respond(says, calls)
      PROVE  /\ meant' = says /\ todo' = calls /\ stack' = Append(<<>>, Frame("Message", M0))
             /\ stack' = Base
  <2>1. M0 = [s \in 1..4 |-> Absent]
    BY SlotNumbers DEF M0, NoSlots
  <2>2. meant' = says /\ todo' = calls /\ stack' = <<Frame("Message", M0)>>
    BY <1>2, <2>1, Zenon DEF Respond, Frame
  <2>3. \A f : Append(<<>>, f) = <<f>>
    OBVIOUS
  <2> QED BY <2>2, <2>3, Zenon DEF Base, RootStack
<1>3. IsSeq(Success) /\ IsSeq(<<>>)
  BY SeqMade DEF Success
<1>4. Fills(Success, "Message", M0, M0)
  BY SuccessFills
<1>5. CASE AnswerError
  <2>1. meant' = Failed /\ todo' = FailCalls /\ stack' = Append(<<>>, Frame("Message", M0))
    BY <1>2, <1>5, Zenon DEF AnswerError
  <2>2. FailCalls = FailFields \o <<EndAsRoot>>
    <3>1. ASSUME NEW x, NEW y
          PROVE  <<Scalar("Message", 3, x), Put("Message", 4, y), EndAsRoot>>
                   = <<Scalar("Message", 3, x), Put("Message", 4, y)>> \o <<EndAsRoot>>
      OBVIOUS
    <3> QED BY <3>1, Zenon DEF FailCalls, FailFields
  <2>3. Failing(todo', stack')
    BY <2>1, <2>2, FailFills, Zenon DEF Failing, Fielding
  <2> QED BY <2>1, <2>3 DEF Stage
<1>6. CASE AnswerToken
  <2>1. PICK n \in {1, 2, 4} :
            Respond(Done(n, [token |-> "token"]),
                    DoneCalls(n, Success \o TokenCalls(MessageType[n], "token")))
    BY <1>6 DEF AnswerToken
  <2> DEFINE t == MessageType[n]
             X == <<Start(t)>> \o (Token(n) \o EndsWith(t, n))
  <2>2. /\ meant' = Done(n, [token |-> "token"])
        /\ todo' = DoneCalls(n, Success \o Table(t, Token(n)))
        /\ stack' = Append(<<>>, Frame("Message", M0))
    BY <1>2, <2>1, Zenon DEF TokenCalls, Token
  <2>3. IsSeq(Token(n))
    BY SeqMade DEF Token
  <2>4. DoneCalls(n, Success \o Table(t, Token(n))) = Success \o X
    BY <1>3, <2>3, DoneFlat
  <2>5. Fielding(todo', stack', "Message", <<>>, X, M0)
    BY <1>4, <2>2, <2>4, Zenon DEF Fielding
  <2>6. Single(todo', stack', ref', t, n, Token(n), <<"token">>)
    BY <2>5, Zenon DEF Single
  <2> QED BY <2>2, <2>6, Zenon DEF Stage
<1>7. CASE AnswerGetMe
  <2>1. PICK me \in Profiles : Respond(Done(3, me), DoneCalls(3, Success \o GetMeCalls(me)))
    BY <1>7 DEF AnswerGetMe
  <2> DEFINE t == "GetMe"
             X == <<Start(t)>> \o (MeFields(me) \o EndsWith(t, 3))
  <2>2. /\ meant' = Done(3, me) /\ todo' = DoneCalls(3, Success \o Table(t, MeFields(me)))
        /\ stack' = Append(<<>>, Frame("Message", M0))
    BY <1>2, <2>1, Zenon DEF GetMeCalls, MeFields
  <2>3. IsSeq(MeFields(me))
    BY MeFills, Zenon DEF Fills
  <2>4. DoneCalls(3, Success \o Table(t, MeFields(me))) = Success \o X
    BY <1>3, <2>3, DoneFlat
  <2>5. Fielding(todo', stack', "Message", <<>>, X, M0)
    BY <1>4, <2>2, <2>4, Zenon DEF Fielding
  <2>6. Single(todo', stack', ref', t, 3, MeFields(me), MeSlots(me))
    BY <2>5, Zenon DEF Single
  <2> QED BY <2>2, <2>6, Zenon DEF Stage
<1>8. CASE AnswerRequestContract
  <2>1. PICK c \in Contracts({1}) :
            Respond(Done(5, [result |-> c]),
                    DoneCalls(5, Success \o EchoCalls(c)
                        \o Table("RequestContract", <<PutRef("RequestContract", 1)>>)))
    BY <1>8 DEF AnswerRequestContract
  <2>2. /\ meant' = Done(5, [result |-> c])
        /\ todo' = Success \o (EchoCalls(c) \o Wrap(RC, 5))
        /\ stack' = Append(<<>>, Frame("Message", M0))
    BY <1>2, <2>1, EchoFlat, Zenon
  <2>3. Requesting(todo', stack', ref', c)
    BY <1>4, <2>2, Zenon DEF Requesting, Fielding
  <2> QED BY <2>2, <2>3, Zenon DEF Stage
<1>9. CASE AnswerListContracts
  <2>1. PICK rows \in Pages :
            Respond(Done(6, [contracts |-> rows]), DoneCalls(6, PageCalls(rows)))
    BY <1>9 DEF AnswerListContracts
  <2>2. rows \in Seq(Contracts(Nat))
    BY PageType
  <2>3. DoneCalls(6, PageCalls(rows)) = <<VecStart>> \o PageFrom(rows, 0)
    BY <2>2, PageFlat
  <2>4. /\ meant' = Done(6, [contracts |-> rows]) /\ todo' = <<VecStart>> \o PageFrom(rows, 0)
        /\ stack' = Base
    BY <1>2, <2>1, <2>3, Zenon
  <2>5. Listing(todo', stack', ref', rows)
    BY <2>4, Zenon DEF Listing
  <2> QED BY <2>4, <2>5, Zenon DEF Stage
<1>10. CASE AnswerCheckContract
  <2>1. PICK c \in Contracts({1}) : Respond(Done(7, c), DoneCalls(7, ContractCalls(c)))
    BY <1>10 DEF AnswerCheckContract
  <2>2. Last(7) = <<MsgAdd(7), EndAsRoot>> /\ IsSeq(Last(7))
    BY StageSeqs, LastCalls
  <2>3. meant' = Done(7, c) /\ todo' = ContractCalls(c) \o Last(7) /\ stack' = Base
    BY <1>2, <2>1, <2>2, Zenon DEF DoneCalls
  <2>4. Opening(ContractCalls(c) \o Last(7), Base, c, Base, Last(7))
    BY <2>2, CallsOpen
  <2>5. Checking(todo', stack', ref', c)
    BY <2>3, <2>4, Zenon DEF Checking, Contracting
  <2> QED BY <2>3, <2>5, Zenon DEF Stage
<1> QED BY <1>5, <1>6, <1>7, <1>8, <1>9, <1>10 DEF Answer

-----------------------------------------------------------------------------
\* While a response is built it is at a stage of what was meant; when it is
\* finished the client reads that.
BuildInv ==
    /\ fault \notin {"frame", "required"}
    /\ phase = "building" => Stage(todo, stack, ref, meant)
    /\ phase = "answered" => Seen(out) = meant

\* Reading a verified table goes well.
LEMMA ReadNoFault == ASSUME IInv, ReadField PROVE fault' = "none"
  <1> USE DEF IInv, ReadField
  <1> DEFINE h == MessageType[type]
  <1>1. h \in Handlers /\ VerifyTable(Verifier[h], body) /\ todo \in Seq(ReadsOf(h))
    BY HandlerOfType DEF ReadInv
  <1>2. Head(todo) \in ReadsOf(h)
    BY <1>1, HeadTailProperties
  <1> QED BY <1>1, <1>2, SafeReads

\* Every step keeps the response at its stage.
LEMMA BuildInvNext == ASSUME IInv, BuildInv, [Next]_vars PROVE BuildInv'
<1>1. CASE UNCHANGED vars
  BY <1>1, Zenon DEF vars, BuildInv
<1>2. CASE Verify \/ Dispatch \/ ReadField
  <2>1. phase' \notin {"building", "answered"}
    BY <1>2 DEF Verify, Dispatch, ReadField
  <2>2. fault' \notin {"frame", "required"}
    BY <1>2, ReadNoFault DEF BuildInv, Verify, Dispatch
  <2> QED BY <2>1, <2>2 DEF BuildInv
<1>3. CASE Answer
  <2>1. /\ phase' = "building" /\ fault' = fault
        /\ Stage(todo', stack', ref', meant')
    BY <1>3, AnswerStage
  <2> QED BY <2>1, Zenon DEF BuildInv
<1>4. CASE BuilderStep
  <2>1. phase = "building"
    BY <1>4, TurnOf
  <2>2. Stage(todo, stack, ref, meant)
    BY <2>1 DEF BuildInv
  <2>3. /\ UNCHANGED <<meant, fault>>
        /\ \/ phase' = phase /\ Stage(todo', stack', ref', meant)
           \/ phase' = "answered" /\ Seen(out') = meant
    BY <1>4, <2>2, StageStep
  <2> QED BY <2>1, <2>3 DEF BuildInv
<1> QED BY <1>1, <1>2, <1>3, <1>4 DEF Next

\* It holds for ever.
LEMMA BuildInvHolds == Spec => []BuildInv
<1>1. Init => BuildInv
  BY DEF Init, BuildInv
<1>2. IInv /\ BuildInv /\ [Next]_vars => BuildInv'
  BY BuildInvNext
<1> QED BY <1>1, <1>2, InvHolds, PTL DEF Spec

\* Every builder call reaches the table it was generated for and no table is
\* closed without its required fields, for pages of any length.
THEOREM BuilderCallsMatch == Spec => []CallsReachTheirTable
<1>1. BuildInv => CallsReachTheirTable
  <2> SUFFICES ASSUME BuildInv PROVE CallsReachTheirTable
    OBVIOUS
  <2>1. ASSUME phase = "building" PROVE Aligned(todo, stack)
    BY <2>1, StageAligned DEF BuildInv
  <2> QED BY <2>1 DEF BuildInv, CallsReachTheirTable, Aligned, Top
<1> QED BY <1>1, BuildInvHolds, PTL

\* The client reads in every response what the handler meant, for pages of any
\* length and any prices.
THEOREM ResponsesFaithful == Spec => []ClientReadsWhatWasMeant
<1>1. BuildInv => ClientReadsWhatWasMeant
  BY DEF BuildInv, ClientReadsWhatWasMeant
<1> QED BY <1>1, BuildInvHolds, PTL
=============================================================================
