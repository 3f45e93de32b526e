------------------------------ MODULE Messages ------------------------------
(***************************************************************************)
(* One call of process() as the generated FlatBuffers bindings carry it    *)
(* out: the verifier accepts or refuses the request, the union type picks  *)
(* the handler, the handler reads its fields, builds a response and a      *)
(* client reads that response.  Verifier, reader and builder are separate  *)
(* headers generated for each table and know the table's fields only by    *)
(* number, so each has its own description here and nothing but the        *)
(* properties makes them agree.                                            *)
(*                                                                         *)
(* Field id ID of the code is slot ID + 1.  A slot of a request holds      *)
(* Absent or the set of the kinds it can be read as without leaving the    *)
(* buffer; a slot of a response holds Absent or its content.  What the     *)
(* database does is in ContractService; here a handler may end with any    *)
(* of its answers.  Allocation does not fail.                              *)
(***************************************************************************)
EXTENDS Integers, Sequences, FiniteSets

CONSTANTS
    Absent,      \* no offset in the vtable; a null pointer
    Cells,       \* what a slot of a request may hold
    MaxSlots,    \* bound: slots in the vtable of a request's table
    UnionTypes,  \* values of the request's union type
    Prices,      \* prices of rows
    MaxRows      \* bound: rows of a page

Kinds   == {"string", "bytes", "bool", "int64", "double"}
Scalars == {"bool", "int64", "double"}

ASSUME MessagesAssumption ==
    /\ \A c \in Cells : c = Absent \/ c \subseteq Kinds
    /\ Absent \in Cells /\ MaxSlots \in Nat
    /\ UnionTypes \subseteq 0..255 /\ MaxRows \in Nat
    /\ Absent \notin UnionTypes /\ Prices \subseteq Int

\* Absent is nothing that a slot of a response can hold: no number or text, no
\* table of these, no contract, no page of contracts.
Texts     == {"username", "password", "firstName", "lastName", "name", "description",
              "attachment", "token", "why"}
Plain     == Int \cup BOOLEAN \cup Texts \cup {Absent}
PlainRow  == Seq(Plain)
NestedRow == Seq(Plain \cup PlainRow)
ASSUME AbsentAssumption ==
    /\ Absent \notin Int /\ Absent \notin BOOLEAN /\ Absent \notin Texts
    /\ Absent \notin PlainRow /\ Absent \notin NestedRow
    /\ Absent \notin Seq(NestedRow) /\ Absent \notin Seq(Seq(NestedRow))

MessageType ==
    <<"Login", "Register", "GetMe", "EditMe", "RequestContract", "ListContracts",
      "CheckContract">>

VARIABLES
    phase,   \* received, verified, rejected, ignored, reading, building, answered
    type,    \* the union type in the request, or Absent
    body,    \* the slots of the union's table, or Absent
    todo,    \* the reads, then the builder calls, that are left to do
    stack,   \* the builder's open frames
    ref,     \* what the last _end returned, Absent for 0
    out,     \* the root table of the finished response
    meant,   \* what the handler means to say
    fault    \* the assertion or bad access that ended the process

vars == <<phase, type, body, todo, stack, ref, out, meant, fault>>

Tables == UNION {[1..n -> Cells] : n \in 0..MaxSlots}

Init ==
    /\ phase = "received"
    /\ type \in UnionTypes \cup {Absent} /\ body \in Tables \cup {Absent}
    /\ todo = <<>> /\ stack = <<>> /\ ref = Absent /\ out = Absent /\ meant = Absent
    /\ fault = "none"

-----------------------------------------------------------------------------
(***************************************************************************)
(* The request: readers and verifiers.                                     *)
(***************************************************************************)

\* A field as a header describes it: what a verifier checks and a getter
\* expects, whether it must be there, what a getter returns if it is not.
Str(required) == [kind |-> "string", required |-> required, def |-> Absent]
Vec(required) == [kind |-> "bytes", required |-> required, def |-> Absent]
Num(kind, def) == [kind |-> kind, required |-> FALSE, def |-> def]

LoginReader           == <<Str(TRUE), Str(TRUE)>>
RegisterReader        == <<Str(TRUE), Str(TRUE), Str(TRUE), Str(TRUE)>>
GetMeReader           == <<Str(TRUE)>>
EditMeReader          == <<Str(FALSE), Str(FALSE), Str(FALSE), Str(FALSE),
                           Num("bool", FALSE), Str(TRUE)>>
RequestContractReader == <<Str(TRUE), Str(TRUE), Str(FALSE), Num("double", -1), Vec(FALSE)>>
ListContractsReader   == <<Str(TRUE)>>
CheckContractReader   == <<Str(TRUE), Num("int64", -1)>>

Reader ==
    [Login |-> LoginReader, Register |-> RegisterReader, GetMe |-> GetMeReader,
     EditMe |-> EditMeReader, RequestContract |-> RequestContractReader,
     ListContracts |-> ListContractsReader, CheckContract |-> CheckContractReader]

\* A verifier knows of a scalar only its size.
Field(kind)         == [kind |-> kind, required |-> FALSE]
StrField(required)  == [kind |-> "string", required |-> required]

LoginVerify           == <<StrField(TRUE), StrField(TRUE)>>
RegisterVerify        == <<StrField(TRUE), StrField(TRUE), StrField(TRUE), StrField(TRUE)>>
GetMeVerify           == <<StrField(TRUE)>>
EditMeVerifyNoToken   == <<StrField(FALSE), StrField(FALSE), StrField(FALSE),
                           StrField(FALSE), Field("bool")>>
EditMeVerify          == <<StrField(FALSE), StrField(FALSE), StrField(FALSE),
                           StrField(FALSE), Field("bool"), StrField(TRUE)>>
RequestContractVerify == <<StrField(TRUE), StrField(TRUE), StrField(FALSE),
                           Field("double"), Field("bytes")>>
ListContractsVerify   == <<StrField(TRUE)>>
CheckContractVerify   == <<StrField(TRUE), Field("int64")>>

Verifier ==
    [Login |-> LoginVerify, Register |-> RegisterVerify, GetMe |-> GetMeVerify,
     EditMe |-> EditMeVerify, RequestContract |-> RequestContractVerify,
     ListContracts |-> ListContractsVerify, CheckContract |-> CheckContractVerify]

\* __flatbuffers_read_vt: a vtable may be shorter than the table the code
\* knows, and longer.
Present(t, slot) == slot \in DOMAIN t /\ t[slot] # Absent

\* The fields of a table, one after the other; slots beyond them are not looked at.
VerifyTable(fields, t) ==
    \A slot \in DOMAIN fields :
        IF Present(t, slot) THEN fields[slot].kind \in t[slot] ELSE ~fields[slot].required

\* flatcc_verify_union_field, with the union's verifier: a type the schema does
\* not know is accepted whatever its table is.
VerifyUnion ==
    /\ type # Absent
    /\ type = 0 => body = Absent
    /\ type # 0 =>
         /\ body # Absent
         /\ type \in DOMAIN MessageType => VerifyTable(Verifier[MessageType[type]], body)

\* What the handlers read, in their order; some ask _is_present first.
Get(slot)       == [slot |-> slot, guarded |-> FALSE]
IfPresent(slot) == [slot |-> slot, guarded |-> TRUE]

LoginReads           == <<Get(1), Get(2)>>
RegisterReads        == <<Get(1), Get(2), Get(3), Get(4)>>
GetMeReads           == <<Get(1)>>
EditMeReads          == <<Get(6), Get(5), IfPresent(1), IfPresent(2), IfPresent(3), IfPresent(4)>>
RequestContractReads == <<Get(1), Get(2), Get(4), IfPresent(3), IfPresent(5)>>
ListContractsReads   == <<Get(1)>>
CheckContractReads   == <<Get(2)>>

Reads ==
    [Login |-> LoginReads, Register |-> RegisterReads, GetMe |-> GetMeReads,
     EditMe |-> EditMeReads, RequestContract |-> RequestContractReads,
     ListContracts |-> ListContractsReads, CheckContract |-> CheckContractReads]

\* What a getter does: an access outside the buffer, a failed assertion, or a
\* null pointer that the handler goes on to use.
GetFault(fields, t, slot) ==
    CASE Present(t, slot) /\ fields[slot].kind \in t[slot] -> "none"
      [] Present(t, slot) /\ fields[slot].kind \notin t[slot] -> "wild"
      [] ~Present(t, slot) /\ fields[slot].required -> "assert"
      [] ~Present(t, slot) /\ ~fields[slot].required ->
           IF fields[slot].kind \in Scalars THEN "none" ELSE "null"

ReadFault(handler, t, r) ==
    IF r.guarded /\ ~Present(t, r.slot) THEN "none"
    ELSE GetFault(Reader[handler], t, r.slot)

builderVars == <<stack, ref, out, meant>>

Verify ==
    /\ phase = "received"
    /\ phase' = (IF VerifyUnion THEN "verified" ELSE "rejected")
    /\ UNCHANGED <<type, body, todo, builderVars, fault>>

DispatchFewer ==
    /\ phase = "verified"
    /\ IF type \in DOMAIN MessageType \ {7}
       THEN phase' = "reading" /\ todo' = Reads[MessageType[type]]
       ELSE phase' = "ignored" /\ UNCHANGED todo
    /\ UNCHANGED <<type, body, builderVars, fault>>
\* msg_union and the switch of process(): no handler, and so no response, for
\* type 0 and for types the schema does not know.
Dispatch ==
    /\ phase = "verified"
    /\ IF type \in DOMAIN MessageType
       THEN phase' = "reading" /\ todo' = Reads[MessageType[type]]
       ELSE phase' = "ignored" /\ UNCHANGED todo
    /\ UNCHANGED <<type, body, builderVars, fault>>

ReadField ==
    /\ phase = "reading" /\ fault = "none" /\ todo # <<>>
    /\ fault' = ReadFault(MessageType[type], body, Head(todo))
    /\ todo' = Tail(todo)
    /\ UNCHANGED <<phase, type, body, builderVars>>

-----------------------------------------------------------------------------
(***************************************************************************)
(* The response: builders.  A table's builder knows the default of each    *)
(* scalar, which it does not store, and the fields _end asserts.           *)
(***************************************************************************)

Build(defaults, required) == [defaults |-> defaults, required |-> required]

UserBuilder            == Build(<<Absent, Absent, Absent>>, {1, 2, 3})
CheckContractBuilder   == Build(<<-1, Absent, Absent, -1, Absent, 1, 0, Absent>>, {2, 8})
LoginBuilder           == Build(<<Absent>>, {1})
RegisterBuilder        == Build(<<Absent>>, {1})
GetMeBuilder           == Build(<<Absent, Absent, Absent, Absent, FALSE>>, {1, 2, 3, 4})
EditMeBuilder          == Build(<<Absent>>, {1})
RequestContractBuilder == Build(<<Absent>>, {1})
ListContractsBuilder   == Build(<<Absent>>, {1})
MessageBuilder         == Build(<<Absent, Absent, FALSE, Absent>>, {})

Builder ==
    [User |-> UserBuilder, CheckContract |-> CheckContractBuilder, Login |-> LoginBuilder,
     Register |-> RegisterBuilder, GetMe |-> GetMeBuilder, EditMe |-> EditMeBuilder,
     RequestContract |-> RequestContractBuilder, ListContracts |-> ListContractsBuilder,
     Message |-> MessageBuilder]

\* The builder calls of a handler.  A call names the table it was generated for.
Call(op, table, slot, val) == [op |-> op, table |-> table, slot |-> slot, val |-> val]
Start(table)          == Call("start", table, 0, Absent)
End(table)            == Call("end", table, 0, Absent)
Scalar(table, slot, v) == Call("scalar", table, slot, v)
\* A string or byte vector is created and its offset added.
Put(table, slot, v)   == Call("put", table, slot, v)
PutUnlessNull(table, slot, v) == IF v = Absent THEN <<>> ELSE <<Put(table, slot, v)>>
\* The offset that the last _end returned is added.
PutRef(table, slot)   == Call("ref", table, slot, Absent)
VecStart              == Call("vec_start", "vec", 0, Absent)
Push                  == Call("push", "vec", 0, Absent)
Row(c)                == Call("row", "vec", 0, c)
VecEnd                == Call("vec_end", "vec", 0, Absent)
MsgAdd(n)             == Call("union", "Message", 2, n)
EndAsRoot             == Call("root", "Message", 0, Absent)

Table(table, calls)   == <<Start(table)>> \o calls \o <<End(table)>>

TokenCalls(table, token) == Table(table, <<Put(table, 1, token)>>)

GetMeCalls(me) ==
    Table("GetMe",
        <<Put("GetMe", 1, me.username), Put("GetMe", 2, me.password),
          Put("GetMe", 3, me.firstName), Put("GetMe", 4, me.lastName),
          Scalar("GetMe", 5, me.admin)>>)

UserCalls(u) ==
    Table("User",
        <<Put("User", 1, u.username), Put("User", 2, u.firstName), Put("User", 3, u.lastName)>>)
    \o <<PutRef("CheckContract", 8)>>

RowCalls(c) ==
    <<Put("CheckContract", 2, c.name)>>
    \o PutUnlessNull("CheckContract", 3, c.description)
    \o <<Scalar("CheckContract", 4, c.price)>>
    \o PutUnlessNull("CheckContract", 5, c.attachment)
    \o <<Scalar("CheckContract", 6, c.status), Scalar("CheckContract", 7, c.created_at)>>

\* request_contract adds the id first, the other two handlers add it last.
EchoCalls(c) ==
    Table("CheckContract",
        <<Scalar("CheckContract", 1, c.id)>> \o RowCalls(c) \o UserCalls(c.by_user))

ContractCallsOpen(c) ==
    <<Start("CheckContract")>> \o RowCalls(c) \o <<Scalar("CheckContract", 1, c.id)>>
    \o <<Start("User"), Put("User", 1, c.by_user.username), Put("User", 2, c.by_user.firstName),
         Put("User", 3, c.by_user.lastName), PutRef("CheckContract", 8), End("CheckContract")>>
ContractCalls(c) ==
    Table("CheckContract",
        RowCalls(c) \o <<Scalar("CheckContract", 1, c.id)>> \o UserCalls(c.by_user))

\* list_contracts: a turn of its loop for every row of the result.
PageCalls(rows) ==
    <<VecStart>> \o [k \in 1..Len(rows) |-> Row(rows[k])]
    \o (<<VecEnd>> \o Table("ListContracts", <<PutRef("ListContracts", 1)>>))

\* error_add(false): stored by no one, but called by all handlers except two.
Success == <<Scalar("Message", 3, FALSE)>>

-----------------------------------------------------------------------------
\* What the handlers answer with: an error, or the content of their message.
Failed == [error |-> TRUE, errorDescription |-> "why", type |-> 0, body |-> Absent]
Done(n, content) == [error |-> FALSE, errorDescription |-> Absent, type |-> n, body |-> content]

FailCalls == <<Scalar("Message", 3, TRUE), Put("Message", 4, "why"), EndAsRoot>>
DoneCalls(n, calls) == calls \o <<MsgAdd(n), EndAsRoot>>

Person == [username |-> "username", firstName |-> "firstName", lastName |-> "lastName"]
Contracts(ids) ==
    [id : ids, name : {"name"}, description : {Absent, "description"}, price : Prices,
     attachment : {Absent, "attachment"}, status : {1}, created_at : {7}, by_user : {Person}]
Profiles ==
    [username : {"username"}, password : {"password"}, firstName : {"firstName"},
     lastName : {"lastName"}, admin : BOOLEAN]
\* A page, the newest contract first.
Pages ==
    UNION {{rows \in [1..n -> Contracts(1..n)] : \A i \in 1..n : rows[i].id = n + 1 - i} :
           n \in 0..MaxRows}

\* start_as_root, then the calls one by one.
Respond(says, calls) ==
    /\ phase' = "building" /\ type' = Absent /\ body' = Absent
    /\ meant' = says /\ todo' = calls
    /\ stack' = <<[table |-> "Message", slots |-> [s \in 1..4 |-> Absent]]>>
    /\ UNCHANGED <<ref, out, fault>>

Answering(n) == phase = "reading" /\ fault = "none" /\ type = n

\* The query failed, or found nothing; request_contract may give up after the
\* token and after the price.
AnswerError ==
    /\ phase = "reading" /\ fault = "none"
    /\ todo = <<>> \/ (type = 5 /\ Len(todo) \in {2, 4})
    /\ Respond(Failed, FailCalls)

AnswerToken ==
    \E n \in {1, 2, 4} :
        /\ Answering(n) /\ todo = <<>>
        /\ Respond(Done(n, [token |-> "token"]),
                   DoneCalls(n, Success \o TokenCalls(MessageType[n], "token")))

AnswerGetMe ==
    \E me \in Profiles :
        /\ Answering(3) /\ todo = <<>>
        /\ Respond(Done(3, me), DoneCalls(3, Success \o GetMeCalls(me)))

AnswerRequestContract ==
    \E c \in Contracts({1}) :
        /\ Answering(5) /\ todo = <<>>
        /\ Respond(Done(5, [result |-> c]),
                   DoneCalls(5, Success \o EchoCalls(c)
                       \o Table("RequestContract", <<PutRef("RequestContract", 1)>>)))

AnswerListContracts ==
    \E rows \in Pages :
        /\ Answering(6) /\ todo = <<>>
        /\ Respond(Done(6, [contracts |-> rows]), DoneCalls(6, PageCalls(rows)))

AnswerCheckContract ==
    \E c \in Contracts({1}) :
        /\ Answering(7) /\ todo = <<>>
        /\ Respond(Done(7, c), DoneCalls(7, ContractCalls(c)))

-----------------------------------------------------------------------------
\* A builder call.  The open frame takes the field, whatever table it is of.
Top == stack[Len(stack)]
Below == SubSeq(stack, 1, Len(stack) - 1)

Calling(op) == phase = "building" /\ fault = "none" /\ todo # <<>> /\ Head(todo).op = op
Doing(op) ==
    /\ Calling(op) /\ todo' = Tail(todo)
    /\ UNCHANGED <<type, body, meant>>

\* flatcc_builder_table_add and _add_offset assert that a table is open and
\* that it has the field.
Slotted(slot) == Top.table # "vec" /\ slot \in DOMAIN Top.slots
Set(slot, v) ==
    /\ IF Slotted(slot)
       THEN stack' = [stack EXCEPT ![Len(stack)].slots[slot] = v] /\ UNCHANGED fault
       ELSE fault' = "frame" /\ UNCHANGED stack
    /\ UNCHANGED <<phase, ref, out>>

StartTable ==
    /\ Doing("start")
    /\ LET b == Builder[Head(todo).table] IN
       stack' = Append(stack, [table |-> Head(todo).table,
                               slots |-> [s \in DOMAIN b.defaults |-> Absent]])
    /\ UNCHANGED <<phase, ref, out, fault>>

AddScalar ==
    /\ Doing("scalar")
    /\ LET c == Head(todo) IN
       IF c.val = Builder[c.table].defaults[c.slot]
       THEN UNCHANGED <<phase, stack, ref, out, fault>>
       ELSE Set(c.slot, c.val)

AddObject == Doing("put") /\ Set(Head(todo).slot, Head(todo).val)

\* A null reference is not added.
AddRef ==
    /\ Doing("ref")
    /\ IF ref = Absent THEN UNCHANGED <<phase, stack, ref, out, fault>>
       ELSE Set(Head(todo).slot, ref)

AddUnion ==
    /\ Doing("union")
    /\ LET c == Head(todo) IN
       CASE c.val = 0 \/ ref = Absent -> UNCHANGED <<stack, fault>>
         [] c.val # 0 /\ ref # Absent /\ Slotted(c.slot) ->
              /\ stack' = [stack EXCEPT ![Len(stack)].slots =
                              [@ EXCEPT ![c.slot - 1] = c.val, ![c.slot] = ref]]
              /\ UNCHANGED fault
         [] c.val # 0 /\ ref # Absent /\ ~Slotted(c.slot) ->
              fault' = "frame" /\ UNCHANGED stack
    /\ UNCHANGED <<phase, ref, out>>

\* assert(flatcc_builder_check_required(...)), against the open frame.
Complete(table) ==
    Top.table # "vec" /\ \A s \in Builder[table].required : Present(Top.slots, s)

EndTable ==
    /\ Doing("end")
    /\ IF Complete(Head(todo).table)
       THEN ref' = Top.slots /\ stack' = Below /\ UNCHANGED fault
       ELSE fault' = "required" /\ UNCHANGED <<ref, stack>>
    /\ UNCHANGED <<phase, out>>

StartVec ==
    /\ Doing("vec_start")
    /\ stack' = Append(stack, [table |-> "vec", slots |-> <<>>])
    /\ UNCHANGED <<phase, ref, out, fault>>

PushRefSameSlot ==
    /\ Doing("push")
    /\ stack' = [stack EXCEPT ![Len(stack)].slots = <<ref>>]
    /\ UNCHANGED <<phase, ref, out, fault>>
PushRef ==
    /\ Doing("push")
    /\ IF Top.table = "vec"
       THEN /\ stack' = [stack EXCEPT ![Len(stack)].slots =
                            IF ref = Absent THEN @ ELSE Append(@, ref)]
            /\ UNCHANGED fault
       ELSE fault' = "frame" /\ UNCHANGED stack
    /\ UNCHANGED <<phase, ref, out>>

\* The loop of list_contracts takes a row: its table is built and pushed.
ListRow ==
    /\ Calling("row") /\ todo' = ContractCalls(Head(todo).val) \o (<<Push>> \o Tail(todo))
    /\ UNCHANGED <<phase, type, body, stack, ref, out, meant, fault>>

EndVec ==
    /\ Doing("vec_end")
    /\ IF Top.table = "vec"
       THEN ref' = Top.slots /\ stack' = Below /\ UNCHANGED fault
       ELSE fault' = "frame" /\ UNCHANGED <<ref, stack>>
    /\ UNCHANGED <<phase, out>>

\* end_as_root, and the finished buffer in pss->out_data.
EndRoot ==
    /\ Doing("root")
    /\ IF Complete("Message") /\ Len(stack) = 1
       THEN out' = Top.slots /\ stack' = <<>> /\ phase' = "answered" /\ UNCHANGED fault
       ELSE fault' = "frame" /\ UNCHANGED <<out, stack, phase>>
    /\ UNCHANGED ref

Answer ==
    \/ AnswerError \/ AnswerToken \/ AnswerGetMe \/ AnswerRequestContract
    \/ AnswerListContracts \/ AnswerCheckContract

BuilderStep ==
    \/ StartTable \/ AddScalar \/ AddObject \/ AddRef \/ AddUnion \/ EndTable
    \/ StartVec \/ ListRow \/ PushRef \/ EndVec \/ EndRoot

Next == Verify \/ Dispatch \/ ReadField \/ Answer \/ BuilderStep

\* One thread runs process() from its call to its return.
Spec == Init /\ [][Next]_vars /\ WF_vars(Next)

-----------------------------------------------------------------------------
(***************************************************************************)
(* What a client reads in a response, with the readers of the response.    *)
(***************************************************************************)

Ref(required) == [kind |-> "table", required |-> required, def |-> Absent]

UserRead          == <<Str(TRUE), Str(TRUE), Str(TRUE)>>
CheckContractRead == <<Num("int64", -1), Str(TRUE), Str(FALSE), Num("double", -1), Vec(FALSE),
                       Num("status", 1), Num("uint64", 0), Ref(TRUE)>>
GetMeRead         == <<Str(TRUE), Str(TRUE), Str(TRUE), Str(TRUE), Num("bool", FALSE)>>
LoginRead         == <<Str(TRUE)>>
RegisterRead      == <<Str(TRUE)>>
EditMeRead        == <<Str(TRUE)>>
RequestContractRead == <<Ref(TRUE)>>
ListContractsRead == <<Ref(TRUE)>>
MessageRead       == <<Num("type", 0), Ref(FALSE), Num("bool", FALSE), Str(FALSE)>>

\* A getter on a response; a required field that is not there would fail the
\* client's assertion, which no client can tell from a broken answer.
Read(fields, t, slot) ==
    IF Present(t, slot) THEN t[slot]
    ELSE IF fields[slot].required THEN "assert" ELSE fields[slot].def

SeenUser(t) ==
    [username |-> Read(UserRead, t, 1), firstName |-> Read(UserRead, t, 2),
     lastName |-> Read(UserRead, t, 3)]

SeenContract(t) ==
    [id |-> Read(CheckContractRead, t, 1), name |-> Read(CheckContractRead, t, 2),
     description |-> Read(CheckContractRead, t, 3), price |-> Read(CheckContractRead, t, 4),
     attachment |-> Read(CheckContractRead, t, 5), status |-> Read(CheckContractRead, t, 6),
     created_at |-> Read(CheckContractRead, t, 7),
     by_user |-> SeenUser(Read(CheckContractRead, t, 8))]

SeenMe(t) ==
    [username |-> Read(GetMeRead, t, 1), password |-> Read(GetMeRead, t, 2),
     firstName |-> Read(GetMeRead, t, 3), lastName |-> Read(GetMeRead, t, 4),
     admin |-> Read(GetMeRead, t, 5)]

SeenPage(v) == [i \in DOMAIN v |-> SeenContract(v[i])]

SeenContent(n, t) ==
    CASE n = 1 -> [token |-> Read(LoginRead, t, 1)]
      [] n = 2 -> [token |-> Read(RegisterRead, t, 1)]
      [] n = 3 -> SeenMe(t)
      [] n = 4 -> [token |-> Read(EditMeRead, t, 1)]
      [] n = 5 -> [result |-> SeenContract(Read(RequestContractRead, t, 1))]
      [] n = 6 -> [contracts |-> SeenPage(Read(ListContractsRead, t, 1))]
      [] n = 7 -> SeenContract(t)

Seen(m) ==
    LET n == Read(MessageRead, m, 1) IN
    [error |-> Read(MessageRead, m, 3), errorDescription |-> Read(MessageRead, m, 4),
     type |-> n, body |-> IF n = 0 THEN Absent ELSE SeenContent(n, Read(MessageRead, m, 2))]

-----------------------------------------------------------------------------
(***************************************************************************)
(* Properties.                                                             *)
(***************************************************************************)

\* The phases follow the code and a handler's table is one of the request.
TypeOK ==
    /\ phase \in {"received", "verified", "rejected", "ignored", "reading", "building",
                  "answered"}
    /\ type \in UnionTypes \cup {Absent} /\ body \in Tables \cup {Absent}
    /\ fault \in {"none", "wild", "assert", "null", "frame", "required"}
    /\ phase = "reading" => type \in DOMAIN MessageType /\ body # Absent

\* After the verifier has accepted a request no handler reads outside it, trips
\* an assertion of a getter or uses a null pointer: the verifier of every table
\* covers all that the handler of that table reads, for vtables of any length.
ReadsAreChecked == fault \notin {"wild", "assert", "null"}

\* Every builder call of a handler reaches the table it was generated for, and
\* no table is closed without its required fields, which would abort the
\* process with all its connections.
CallsReachTheirTable ==
    /\ fault \notin {"frame", "required"}
    /\ phase = "building" /\ todo # <<>> /\ Head(todo).op \notin {"start", "vec_start"}
         => Top.table = Head(todo).table

\* The client reads in the response what the handler meant: absent texts are
\* absent, fields equal to the builder's default come back as the reader's, no
\* row of a page replaces another, and the union's type is that of its table.
ClientReadsWhatWasMeant == phase = "answered" => Seen(out) = meant

\* A request that the verifier accepts and that is of a type the schema knows
\* is answered, whatever else is in it.
KnownRequestsAnswered ==
    phase = "verified" /\ type \in DOMAIN MessageType ~> phase = "answered"
=============================================================================
