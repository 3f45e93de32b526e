----------------------- MODULE ContractServiceProofs -----------------------
(***************************************************************************)
(* Theorems about ContractService, for any number of connections, threads, *)
(* users, tokens and restarts.                                             *)
(***************************************************************************)
EXTENDS ContractService, TLAPS

-----------------------------------------------------------------------------
(***************************************************************************)
(* What the operators on texts, rows and pages return.                     *)
(***************************************************************************)

\* A clipped text fits its column (PQescapeLiteral's length argument).
LEMMA ClipType ==
    ASSUME NEW t \in Text PROVE Clip(t) \in Stored
BY DEF Text, Stored, Clip

\* A text that the column takes is one that it can hold.
LEMMA FitsType ==
    ASSUME NEW t \in Text, Fits(t) PROVE t \in Stored
BY DEF Text, Stored, Fits

\* A stored text is a text, and what is shown of it is a shown text.
LEMMA CopyOutType ==
    ASSUME NEW t \in Stored, NEW x \in CopyOut(t) PROVE x \in Shown
BY DEF Stored, Shown, CopyOut

\* What a column holds is also a text a client may send or be shown.
LEMMA StoredShown == Stored \subseteq Shown /\ Stored \subseteq Text
BY DEF Stored, Shown, Text

\* edit_me leaves a row of the table's type.
LEMMA EditedType ==
    ASSUME NEW r \in User, NEW u \in Usernames \cup {None},
           NEW p \in Passwords \cup {None}, NEW f \in FirstNames \cup {None},
           NEW l \in LastNames \cup {None}, NEW a \in AdminFlags, NEW tok \in Nat
    PROVE  Edited(r, u, p, f, l, a, tok) \in User
<1>1. /\ r.username \in Stored /\ r.firstname \in Stored /\ r.lastname \in Stored
      /\ r.password \in Hash /\ r.id \in Nat /\ r.token \in Nat
  BY DEF User
<1>2. /\ u # None => Clip(u) \in Stored
      /\ f # None => Clip(f) \in Stored
      /\ l # None => Clip(l) \in Stored
  BY ClipType, InputAssumption
<1>3. p # None => PwdHash(p) \in Hash
  BY DEF PwdHash, Hash
<1>4. a \in BOOLEAN
  BY InputAssumption
<1> QED BY <1>1, <1>2, <1>3, <1>4 DEF Edited, User

\* The join shows a contract and its user's names.
LEMMA ViewType ==
    ASSUME NEW r \in Contract, NEW u \in User PROVE ViewOf(r, u) \in View
BY StoredShown DEF Contract, User, View, ViewOf, WhoShown

\* A page is a sequence of the views it was taken from.
LEMMA PageType ==
    ASSUME NEW V, NEW S, S \subseteq V, NEW p \in Pages(S) PROVE p \in Seq(V)
<1>1. PICK n \in 0..PageLimit : p \in [1..n -> S]
  BY DEF Pages
<1>2. n \in Nat
  BY <1>1, BoundAssumption
<1> QED BY <1>1, <1>2

-----------------------------------------------------------------------------
(***************************************************************************)
(* Type correctness.                                                       *)
(***************************************************************************)

\* An absent job has the type of a job.
LEMMA NoJobType == NoJob \in Job
BY DEF NoJob, Job, Junk

\* Finalising a response leaves every connection's state well typed.
LEMMA AnswerType ==
    ASSUME ConnTypes, NEW c \in Conns, NEW kind \in Kinds, NEW tok \in Int,
           NEW uid \in Nat, NEW rows \in Seq(View) \cup Seq(Profile),
           AnswerWith(c, kind, tok, uid, rows)
    PROVE  ConnTypes'
<1>1. [kind |-> kind, token |-> tok, uid |-> uid] \in Reply
  BY DEF Reply
<1>2. /\ pc' \in [Conns -> {"idle", "insert", "page", "reply"}]
      /\ job' \in [Conns -> Job]
      /\ reply' \in [Conns -> Reply]
      /\ body' \in [Conns -> Seq(View) \cup Seq(Profile)]
  BY <1>1, NoJobType DEF ConnTypes, AnswerWith
<1>3. \A d \in Conns : pc'[d] = "insert" => job'[d].who # None /\ job'[d].req # None
  BY DEF ConnTypes, AnswerWith
<1> QED BY <1>2, <1>3 DEF ConnTypes

\* An error response is well typed, and so is one that carries a token.
LEMMA AnswerErrorType ==
    ASSUME ConnTypes, NEW c \in Conns, NEW kind \in Kinds,
           AnswerError(c, kind) \/ DbLost(c, kind)
    PROVE  ConnTypes'
<1>1. AnswerWith(c, kind, Junk, 0, <<>>)
  BY DEF AnswerError, DbLost
<1>2. <<>> \in Seq(View) /\ Junk \in Int
  BY DEF Junk
<1> QED BY <1>1, <1>2, AnswerType

\* A response that carries a token keeps the types.
LEMMA AnswerTokenType ==
    ASSUME ConnTypes, NEW c \in Conns, NEW kind \in Kinds, NEW tok \in Int,
           NEW uid \in Nat, AnswerToken(c, kind, tok, uid)
    PROVE  ConnTypes'
<1>1. <<>> \in Seq(View)
  OBVIOUS
<1> QED BY <1>1, AnswerType DEF AnswerToken

\* A response that carries records keeps the types.
LEMMA AnswerRowsType ==
    ASSUME ConnTypes, NEW c \in Conns, NEW kind \in Kinds,
           NEW rows \in Seq(View) \cup Seq(Profile), AnswerRows(c, kind, rows)
    PROVE  ConnTypes'
BY AnswerType DEF AnswerRows, Junk

\* Entering the second half of a handler is well typed.
LEMMA JobType ==
    ASSUME ConnTypes, NEW c \in Conns, NEW j \in Job, NEW l \in {"insert", "page"},
           l = "insert" => j.who # None /\ j.req # None,
           Proceed(c, l, j)
    PROVE  ConnTypes'
BY DEF ConnTypes, Proceed

\* None is no record of the names of a user, and no request.
LEMMA NoneRecord == None \notin WhoRow /\ None \notin Request
BY NoneAssumption

\* Each action preserves the types.
LEMMA LoginType ==
    ASSUME TypeOK, NEW c \in Conns, Login(c) PROVE TypeOK'
<1>1. PICK u \in Usernames, p \in Passwords :
         \/ DbAnswers /\ \E r \in users : AnswerToken(c, "Login", r.token, r.id)
         \/ DbAnswers /\ AnswerError(c, "WrongPassword")
         \/ DbAnswers /\ AnswerError(c, "Failed")
         \/ DbLost(c, "Failed")
  BY DEF Login
<1>2. \A r \in users : r.token \in Int /\ r.id \in Nat
  BY DEF TypeOK, StoreTypes, User
<1>3. ConnTypes'
  BY <1>1, <1>2, AnswerTokenType, AnswerErrorType DEF TypeOK, Kinds
<1>4. StoreTypes'
  BY <1>1 DEF TypeOK, StoreTypes, Login, DbAnswers, DbLost, db
<1> QED BY <1>3, <1>4 DEF TypeOK

\* register keeps the types: the row it inserts fits the columns.
LEMMA RegisterType ==
    ASSUME TypeOK, NEW c \in Conns, Register(c) PROVE TypeOK'
<1> USE DEF TypeOK
<1>1. PICK u \in Usernames, p \in Passwords, f \in FirstNames, l \in LastNames :
          InsertUser(c, NewUser(u, p, f, l))
  BY DEF Register
<1> DEFINE row == NewUser(u, p, f, l)
<1>2. u \in Text /\ f \in Text /\ l \in Text
  BY InputAssumption
<1>3. PwdHash(p) \in Hash
  BY DEF PwdHash, Hash
<1>4. nextUser \in Nat /\ FreshToken \in Nat /\ users \subseteq User
  BY DEF StoreTypes, FreshToken
<1>5. Fits(u) /\ Fits(f) /\ Fits(l) => row \in User
  BY <1>2, <1>3, <1>4, FitsType DEF NewUser, User
<1>6. /\ row.username = u /\ row.firstname = f /\ row.lastname = l
      /\ row.token \in Int /\ row.id \in Nat
  BY <1>4 DEF NewUser
<1>12. InsertUser(c, row)
  BY <1>1
<1> HIDE DEF row
<1>7. users' \subseteq User
  BY <1>12, <1>4, <1>5, <1>6 DEF InsertUser, NarrowRows
<1>8. nextUser' \in Nat
  BY <1>12, <1>4 DEF InsertUser
<1>9. dbUp' \in BOOLEAN
  BY <1>12 DEF InsertUser, DbAnswers, DbLost
<1>10. ConnTypes'
  BY <1>12, <1>6, AnswerTokenType, AnswerErrorType DEF InsertUser, Kinds
<1>11. nextTok' \in Nat \ {0}
  BY DEF Register, StoreTypes
<1> QED BY <1>7, <1>8, <1>9, <1>10, <1>11 DEF StoreTypes, Register

\* get_me keeps the types.
LEMMA GetMeType ==
    ASSUME TypeOK, NEW c \in Conns, GetMe(c) PROVE TypeOK'
<1> USE DEF TypeOK
<1>1. PICK t \in Presented :
         \/ DbAnswers /\ \E r \in users : AnswerRows(c, "GetMe", <<ProfileOf(r)>>)
         \/ DbAnswers /\ AnswerError(c, "InvalidToken")
         \/ DbLost(c, "DbMessage")
  BY DEF GetMe, RowsWith
<1>2. \A r \in users : ProfileOf(r) \in Profile
  BY DEF StoreTypes, User, Profile, ProfileOf
<1>3. \A r \in users : <<ProfileOf(r)>> \in Seq(Profile)
  BY <1>2
<1>4. ConnTypes'
  BY <1>1, <1>3, AnswerRowsType, AnswerErrorType DEF Kinds
<1>5. StoreTypes'
  BY <1>1 DEF StoreTypes, GetMe, DbAnswers, DbLost, db
<1> QED BY <1>4, <1>5

\* edit_me keeps the types: what it writes is clipped to the columns.
LEMMA EditMeType ==
    ASSUME TypeOK, NEW c \in Conns, EditMe(c) PROVE TypeOK'
<1> USE DEF TypeOK
<1>1. PICK t \in Presented, u \in Usernames \cup {None}, p \in Passwords \cup {None},
          f \in FirstNames \cup {None}, l \in LastNames \cup {None}, a \in AdminFlags :
         /\ nextTok' = IF Regenerates(u, p) THEN nextTok + 1 ELSE nextTok
         /\ UpdateUsers(c, EditedTable(t, u, p, f, l, a),
                        IF Regenerates(u, p) THEN {FreshToken} ELSE CopyToken(t),
                        IF RowsWith(t) = {} THEN {0} ELSE {r.id : r \in RowsWith(t)})
  BY DEF EditMe
<1> DEFINE toks == IF Regenerates(u, p) THEN {FreshToken} ELSE CopyToken(t)
           uids == IF RowsWith(t) = {} THEN {0} ELSE {r.id : r \in RowsWith(t)}
           table == EditedTable(t, u, p, f, l, a)
<1>2. t \in Int
  BY DEF Presented, StoreTypes, Junk
<1>3. nextTok \in Nat \ {0} /\ FreshToken \in Nat /\ users \subseteq User
  BY DEF StoreTypes, FreshToken
<1>4. \A r \in RowsWith(t) : r \in User /\ r.id \in Nat
  BY <1>3 DEF RowsWith, User
<1>5. table \subseteq User
  <2>1. \A r \in RowsWith(t) : Edited(r, u, p, f, l, a, FreshToken) \in User
    BY <1>3, <1>4, EditedType
  <2> QED BY <1>3, <2>1 DEF EditedTable
<1>6. toks \subseteq Int /\ uids \subseteq Nat
  BY <1>2, <1>3, <1>4 DEF CopyToken, Cut, Junk
<1>7. UpdateUsers(c, table, toks, uids)
  BY <1>1
<1> HIDE DEF toks, uids, table
<1>8. users' \subseteq User
  BY <1>3, <1>5, <1>7 DEF UpdateUsers
<1>9. ConnTypes'
  BY <1>6, <1>7, AnswerTokenType, AnswerErrorType DEF UpdateUsers, Kinds
<1>10. dbUp' \in BOOLEAN
  BY <1>7 DEF UpdateUsers, DbAnswers, DbLost
<1>11. nextTok' \in Nat \ {0}
  BY <1>1, <1>3
<1> QED BY <1>8, <1>9, <1>10, <1>11 DEF StoreTypes, EditMe

\* request_contract keeps the types up to its second query,
LEMMA RequestContractType ==
    ASSUME TypeOK, NEW c \in Conns, RequestContract(c) PROVE TypeOK'
<1> USE DEF TypeOK
<1>1. PICK t \in Presented, n \in ContractNames, d \in Descriptions \cup {None},
           p \in Prices, a \in Attachments \cup {None} :
         LET q == [name |-> n, description |-> d, price |-> p, attachment |-> a]
         IN  \/ DbAnswers /\ AnswerError(c, "InvalidToken")
             \/ DbAnswers /\ AnswerError(c, "NegativePrice")
             \/ DbAnswers /\ \E r \in users : Proceed(c, "insert", RequestJob(t, r, q))
             \/ DbLost(c, "DbMessage")
  BY DEF RequestContract, RowsWith
<1>2. t \in Int /\ now \in Nat /\ nextContract \in Nat
  BY DEF Presented, StoreTypes, Junk
<1>3. StoreTypes'
  BY <1>1 DEF StoreTypes, RequestContract, DbAnswers, DbLost, db
<1> DEFINE q == [name |-> n, description |-> d, price |-> p, attachment |-> a]
<1>4. q \in Request
  BY InputAssumption DEF Request
<1>5. ASSUME NEW r \in users
      PROVE  /\ RequestJob(t, r, q) \in Job
             /\ RequestJob(t, r, q).who # None /\ RequestJob(t, r, q).req # None
  <2>1. WhoOf(r) \in WhoRow /\ r.id \in Nat
    BY DEF WhoOf, WhoRow, StoreTypes, User
  <2> HIDE DEF q
  <2> QED BY <2>1, <1>2, <1>4, NoneRecord DEF RequestJob, Job
<1>6. ConnTypes'
  <2> HIDE DEF q
  <2> QED BY <1>1, <1>5, AnswerErrorType, JobType DEF Kinds, q
<1> QED BY <1>3, <1>6

\* The row of a request and its echo.
LEMMA RowType ==
    ASSUME NEW j \in Job, j.req # None, NEW id \in Nat, NEW at \in Nat,
           NEW w \in WhoShown
    PROVE  /\ j.req \in Request
           /\ Fits(RowOf(j, id, at).name) => RowOf(j, id, at) \in Contract
           /\ Fits(RowOf(j, id, at).name) => Echo(j.req, id, at, w) \in View
<1> DEFINE q == j.req
<1>1. q \in Request /\ j.uid \in Nat
  BY DEF Job
<1>2. q.name \in Text /\ q.description \in Text \cup {None} /\ q.price \in Prices
      /\ q.attachment \in Attachments \cup {None}
  BY <1>1 DEF Request
<1>3. StoredDescription(q.description) \in Stored \cup {None}
  BY <1>2, ClipType DEF StoredDescription
<1>4. StoredPrice(q.price) \in Amounts /\ q.price \in Amounts
  BY <1>2, PriceAssumption DEF StoredPrice, Amounts, Asked
<1>5. StoredAttachment(q.attachment) \in Attachments \cup {None}
  BY <1>2 DEF StoredAttachment
<1>6. Fits(q.name) => q.name \in Stored
  BY <1>2, FitsType
<1>7. RowOf(j, id, at).name = q.name
  BY DEF RowOf
<1> HIDE DEF q
<1>8. Fits(q.name) => RowOf(j, id, at) \in Contract
  BY <1>1, <1>3, <1>4, <1>5, <1>6 DEF RowOf, Contract, Status, q
<1>9. Fits(q.name) => Echo(q, id, at, w) \in View
  BY <1>2, <1>4, <1>5, <1>6 DEF Echo, View, Status
<1> QED BY <1>1, <1>7, <1>8, <1>9 DEF q

\* ... and after it: the row it inserts fits the columns.
LEMMA RequestContractInsertType ==
    ASSUME TypeOK, NEW c \in Conns, RequestContractInsert(c) PROVE TypeOK'
<1> USE DEF TypeOK
<1> DEFINE w == job[c].who
<1>1. PICK at \in job[c].since..now :
         InsertContract(c, at, RowOf(job[c], nextContract, at))
  BY DEF RequestContractInsert
<1> DEFINE row == RowOf(job[c], nextContract, at)
<1>2. job[c] \in Job /\ job[c].req # None /\ w # None
  BY DEF ConnTypes, RequestContractInsert
<1>3. nextContract \in Nat /\ contracts \subseteq Contract /\ now \in Nat
  BY DEF StoreTypes
<1>4. at \in Nat /\ job[c].uid \in Nat /\ w \in WhoRow
  BY <1>2, <1>3 DEF Job
<1>5. InsertContract(c, at, row)
  BY <1>1
<1>6. Insertable(row) => row \in Contract
  <2>1. [username |-> w.username, firstName |-> w.firstName,
         lastName |-> w.lastName] \in WhoShown
    BY <1>4, StoredShown DEF WhoRow, WhoShown
  <2>2. Insertable(row) => Fits(row.name)
    BY DEF Insertable
  <2> QED BY <1>2, <1>3, <1>4, <2>1, <2>2, RowType
<1>7. ASSUME Insertable(row), NEW un \in CopyOut(w.username),
             NEW fn \in CopyOut(w.firstName), NEW ln \in CopyOut(w.lastName)
      PROVE  <<Echo(job[c].req, nextContract, at,
                    [username |-> un, firstName |-> fn, lastName |-> ln])>> \in Seq(View)
  <2>1. [username |-> un, firstName |-> fn, lastName |-> ln] \in WhoShown
    BY <1>4, CopyOutType DEF WhoRow, WhoShown
  <2>2. Fits(row.name)
    BY <1>7 DEF Insertable
  <2>3. Echo(job[c].req, nextContract, at,
             [username |-> un, firstName |-> fn, lastName |-> ln]) \in View
    BY <1>2, <1>3, <1>4, <2>1, <2>2, RowType
  <2> QED BY <2>3
<1> HIDE DEF row, w
<1>8. contracts' \subseteq Contract /\ nextContract' \in Nat
  BY <1>3, <1>5, <1>6 DEF InsertContract
<1>9. dbUp' \in BOOLEAN
  BY <1>5 DEF InsertContract, DbAnswers, DbLost
<1>10. ConnTypes'
  <2>1. CASE AnswerError(c, "DbMessage") \/ DbLost(c, "DbMessage")
    BY <2>1, AnswerErrorType DEF Kinds
  <2>2. CASE ~(AnswerError(c, "DbMessage") \/ DbLost(c, "DbMessage"))
    <3>1. Insertable(row) /\
          \E un \in CopyOut(w.username), fn \in CopyOut(w.firstName),
             ln \in CopyOut(w.lastName) :
             AnswerWith(c, "RequestContract", Junk, job[c].uid,
                <<Echo(job[c].req, nextContract, at,
                       [username |-> un, firstName |-> fn, lastName |-> ln])>>)
      BY <1>5, <2>2 DEF InsertContract, w
    <3>2. Junk \in Int /\ "RequestContract" \in Kinds
      BY DEF Junk, Kinds
    <3> QED BY <1>4, <1>7, <3>1, <3>2, AnswerType
  <2> QED BY <2>1, <2>2
<1> QED BY <1>8, <1>9, <1>10 DEF StoreTypes, RequestContractInsert

\* list_contracts keeps the types up to its second query,
LEMMA ListContractsType ==
    ASSUME TypeOK, NEW c \in Conns, ListContracts(c) PROVE TypeOK'
<1> USE DEF TypeOK
<1>1. PICK t \in Presented :
         \/ DbAnswers /\ AnswerError(c, "InvalidToken")
         \/ DbAnswers /\ \E r \in users : Proceed(c, "page", ListJob(t, r))
         \/ DbLost(c, "DbMessage")
  BY DEF ListContracts, RowsWith
<1>2. t \in Int /\ now \in Nat
  BY DEF Presented, StoreTypes, Junk
<1>3. StoreTypes'
  BY <1>1 DEF StoreTypes, ListContracts, DbAnswers, DbLost, db
<1>4. \A r \in users : ListJob(t, r) \in Job
  BY <1>2 DEF StoreTypes, User, Job, ListJob
<1>5. ConnTypes'
  BY <1>1, <1>4, AnswerErrorType, JobType DEF Kinds
<1> QED BY <1>3, <1>5

\* The views of stored contracts.
LEMMA JoinedType ==
    ASSUME TypeOK, NEW S \in SUBSET contracts PROVE Joined(S) \subseteq View
<1>1. \A r \in contracts, u \in users : ViewOf(r, u) \in View
  BY ViewType DEF TypeOK, StoreTypes
<1> QED BY <1>1 DEF Joined

\* ... and after it.
LEMMA ListContractsQueryType ==
    ASSUME TypeOK, NEW c \in Conns, ListContractsQuery(c) PROVE TypeOK'
<1> USE DEF TypeOK
<1>1. Joined(Listed(job[c])) \subseteq View
  BY JoinedType DEF Listed
<1>2. \A p \in Pages(Joined(Listed(job[c]))) : p \in Seq(View)
  BY <1>1, PageType
<1>3. ConnTypes'
  BY <1>2, AnswerRowsType, AnswerErrorType DEF ListContractsQuery, Kinds
<1>4. StoreTypes'
  BY DEF StoreTypes, ListContractsQuery, DbAnswers, DbLost, db
<1> QED BY <1>3, <1>4

\* check_contract keeps the types.
LEMMA CheckContractType ==
    ASSUME TypeOK, NEW c \in Conns, CheckContract(c) PROVE TypeOK'
<1> USE DEF TypeOK
<1>1. PICK id \in 0..MaxContracts :
         \/ DbAnswers /\ \E v \in Joined({r \in contracts : r.id = id}) :
                            AnswerRows(c, "CheckContract", <<v>>)
         \/ DbAnswers /\ AnswerError(c, "InvalidId")
         \/ DbLost(c, "DbMessage")
  BY DEF CheckContract
<1>2. Joined({r \in contracts : r.id = id}) \subseteq View
  BY JoinedType
<1>3. \A v \in Joined({r \in contracts : r.id = id}) : <<v>> \in Seq(View)
  BY <1>2
<1>4. ConnTypes'
  BY <1>1, <1>3, AnswerRowsType, AnswerErrorType DEF Kinds
<1>5. StoreTypes'
  BY <1>1 DEF StoreTypes, CheckContract, DbAnswers, DbLost, db
<1> QED BY <1>4, <1>5

\* The response leaves pss; the client may learn a token.
LEMMA ForgetType ==
    ASSUME TypeOK, NEW c \in Conns, Deliver(c) \/ LoseReply(c) PROVE TypeOK'
<1> USE DEF TypeOK
<1>1. NoReply \in Reply /\ <<>> \in Seq(View)
  BY DEF NoReply, Reply, Kinds, Junk
<1>2. ConnTypes'
  BY <1>1 DEF ConnTypes, Deliver, LoseReply, Forget
<1>3. [token |-> reply[c].token, uid |-> reply[c].uid] \in [token : Int, uid : Nat]
  BY DEF ConnTypes, Reply
<1>4. StoreTypes'
  BY <1>3 DEF StoreTypes, Deliver, LoseReply, db
<1> QED BY <1>2, <1>4

\* The tables and the connections at the start of the process.
LEMMA FreshConnType ==
    /\ [c \in Conns |-> "idle"] \in [Conns -> {"idle", "insert", "page", "reply"}]
    /\ [c \in Conns |-> NoJob] \in [Conns -> Job]
    /\ [c \in Conns |-> NoReply] \in [Conns -> Reply]
    /\ [c \in Conns |-> <<>>] \in [Conns -> Seq(View) \cup Seq(Profile)]
<1>1. NoReply \in Reply
  BY DEF NoReply, Reply, Kinds, Junk
<1>2. <<>> \in Seq(View)
  OBVIOUS
<1> QED BY <1>1, <1>2, NoJobType

\* The schema statements of main() keep the types.
LEMMA RestartType ==
    ASSUME TypeOK, Restart PROVE TypeOK'
<1>1. ConnTypes'
  BY FreshConnType DEF ConnTypes, Restart
<1>2. StoreTypes'
  BY DEF TypeOK, StoreTypes, Restart
<1> QED BY <1>1, <1>2 DEF TypeOK

\* The clock keeps the types.
LEMMA TickType ==
    ASSUME TypeOK, Tick PROVE TypeOK'
BY DEF TypeOK, StoreTypes, ConnTypes, Tick, db

\* Every step keeps the types.
LEMMA NextType ==
    ASSUME TypeOK, [Next]_vars PROVE TypeOK'
<1>1. ASSUME NEW c \in Conns, Handle(c) PROVE TypeOK'
  BY <1>1, LoginType, RegisterType, GetMeType, EditMeType, RequestContractType,
     RequestContractInsertType, ListContractsType, ListContractsQueryType,
     CheckContractType, ForgetType DEF Handle
<1>2. CASE UNCHANGED vars
  BY <1>2 DEF TypeOK, StoreTypes, ConnTypes, vars, db
<1> QED BY <1>1, <1>2, TickType, RestartType DEF Next

\* Rows never outgrow their columns, and locals and responses are what the
\* handlers declare, in every behaviour of the service.
THEOREM TypeCorrect == Spec => []TypeOK
<1>1. Init => TypeOK
  BY FreshConnType DEF Init, TypeOK, StoreTypes, ConnTypes
<1>2. TypeOK /\ [Next]_vars => TypeOK'
  BY NextType
<1> QED BY <1>1, <1>2, PTL DEF Spec

-----------------------------------------------------------------------------
(***************************************************************************)
(* Sessions.  Evolves is what every step does to the table of users: a row *)
(* keeps its id and token, or holds the token drawn in that step.          *)
(***************************************************************************)
Evolves ==
    /\ nextTok <= nextTok'
    /\ \A r \in users' : \/ \E q \in users : q.id = r.id /\ q.token = r.token
                         \/ r.token = nextTok /\ nextTok' = nextTok + 1

\* Ids that are in use stay in use, unless the tables are dropped.
Keeps == \A q \in users : \E r \in users' : r.id = q.id

\* A registration adds one row, with the drawn id and the drawn token.
LEMMA RegisterRows ==
    ASSUME TypeOK, RowsInv, NEW c \in Conns, Register(c)
    PROVE  RowsInv' /\ Evolves /\ Keeps
<1>1. PICK u \in Usernames, p \in Passwords, f \in FirstNames, l \in LastNames :
          InsertUser(c, NewUser(u, p, f, l))
  BY DEF Register
<1> DEFINE row == NewUser(u, p, f, l)
<1>2. row.id = nextUser /\ row.token = nextTok
  BY DEF NewUser, FreshToken
<1>3. InsertUser(c, row)
  BY <1>1
<1> HIDE DEF row
<1>4. \/ users' = users /\ nextUser' \in {nextUser, nextUser + 1}
      \/ users' = users \cup {row} /\ nextUser' = nextUser + 1
  BY <1>3 DEF InsertUser
<1>5. /\ nextTok' = nextTok + 1 /\ nextTok \in Nat \ {0} /\ nextUser \in Nat
      /\ \A r \in users : r.id \in Nat /\ r.token \in Nat
  BY DEF Register, TypeOK, StoreTypes, User
<1>6. RowsInv'
  BY <1>2, <1>4, <1>5 DEF RowsInv, TokensDistinct
<1>7. Evolves /\ Keeps
  BY <1>2, <1>4, <1>5 DEF Evolves, Keeps
<1> QED BY <1>6, <1>7

\* edit_me rewrites the one row that holds the token, if any.
LEMMA EditMeRows ==
    ASSUME TypeOK, RowsInv, NEW c \in Conns, EditMe(c)
    PROVE  RowsInv' /\ Evolves /\ Keeps
<1>1. PICK t \in Presented, u \in Usernames \cup {None}, p \in Passwords \cup {None},
          f \in FirstNames \cup {None}, l \in LastNames \cup {None}, a \in AdminFlags :
         /\ nextTok' = IF Regenerates(u, p) THEN nextTok + 1 ELSE nextTok
         /\ UpdateUsers(c, EditedTable(t, u, p, f, l, a),
                        IF Regenerates(u, p) THEN {FreshToken} ELSE CopyToken(t),
                        IF RowsWith(t) = {} THEN {0} ELSE {r.id : r \in RowsWith(t)})
  BY DEF EditMe
<1> DEFINE E(r) == Edited(r, u, p, f, l, a, FreshToken)
<1>2. users' = users \/ users' = EditedTable(t, u, p, f, l, a)
  BY <1>1 DEF UpdateUsers
<1>3. \A r : E(r).id = r.id /\ E(r).token = IF Regenerates(u, p) THEN nextTok ELSE r.token
  BY DEF Edited, FreshToken
<1>4. /\ nextTok \in Nat \ {0} /\ nextUser \in Nat /\ nextUser' = nextUser
      /\ \A r \in users : r.id \in Nat /\ r.token \in Nat
  BY DEF EditMe, TypeOK, StoreTypes, User
<1>5. nextTok' = nextTok \/ nextTok' = nextTok + 1
  BY <1>1
<1>6. CASE users' = users
  BY <1>4, <1>5, <1>6 DEF RowsInv, TokensDistinct, Evolves, Keeps
<1>7. CASE users' = EditedTable(t, u, p, f, l, a)
  <2>1. users' = {r \in users : r.token # t} \cup {E(r) : r \in {q \in users : q.token = t}}
    BY <1>7 DEF EditedTable, RowsWith
  <2> HIDE DEF E
  <2>2. Evolves
    BY <2>1, <1>1, <1>3, <1>4, <1>5 DEF Evolves
  <2>3. Keeps
    BY <2>1, <1>3 DEF Keeps
  <2>4. \A r \in users' : r.token \in 1..(nextTok' - 1) /\ r.id < nextUser'
    BY <2>1, <1>1, <1>3, <1>4, <1>5 DEF RowsInv
  <2>5. \A r1, r2 \in users : r1.token = t /\ r2.token = t => r1 = r2
    BY DEF RowsInv, TokensDistinct
  <2>6. TokensDistinct'
    BY <2>1, <2>5, <1>1, <1>3, <1>4 DEF RowsInv, TokensDistinct
  <2>7. \A r1, r2 \in users' : r1.id = r2.id => r1 = r2
    BY <2>1, <2>5, <1>3 DEF RowsInv
  <2> QED BY <2>2, <2>3, <2>4, <2>6, <2>7 DEF RowsInv
<1> QED BY <1>2, <1>6, <1>7

\* Every step of a handler, as the table of users sees it.
LEMMA HandleRows ==
    ASSUME TypeOK, RowsInv, NEW c \in Conns, Handle(c)
    PROVE  RowsInv' /\ Evolves /\ Keeps
<1>1. CASE Register(c)
  BY <1>1, RegisterRows
<1>2. CASE EditMe(c)
  BY <1>2, EditMeRows
<1>3. CASE ~Register(c) /\ ~EditMe(c)
  <2>1. UNCHANGED <<users, nextUser, nextTok>>
    BY <1>3 DEF Handle, Login, GetMe, RequestContract, RequestContractInsert,
       ListContracts, ListContractsQuery, CheckContract, Deliver, LoseReply, db
  <2> QED BY <2>1 DEF RowsInv, TokensDistinct, Evolves, Keeps, TypeOK, StoreTypes
<1> QED BY <1>1, <1>2, <1>3

\* Every step, as the table of users sees it.
LEMMA NextRows ==
    ASSUME TypeOK, RowsInv, [Next]_vars
    PROVE  RowsInv' /\ Evolves
<1>1. CASE Restart
  BY <1>1 DEF RowsInv, TokensDistinct, Evolves, Restart, TypeOK, StoreTypes
<1>2. CASE UNCHANGED vars \/ Tick
  <2>1. UNCHANGED <<users, nextUser, nextTok>>
    BY <1>2 DEF vars, db, Tick
  <2> QED BY <2>1 DEF RowsInv, TokensDistinct, Evolves, TypeOK, StoreTypes
<1> QED BY <1>1, <1>2, HandleRows DEF Next

\* Bound in the state after the step.
BoundNext(t, uid) == t < nextTok' /\ \A r \in users' : r.token = t => r.id = uid

\* What is bound to a user stays bound to him.
LEMMA BoundStep ==
    ASSUME TypeOK, TypeOK', Evolves, NEW t \in Int, NEW uid, Bound(t, uid)
    PROVE  BoundNext(t, uid)
<1>1. nextTok \in Nat /\ nextTok' \in Nat
  BY DEF TypeOK, StoreTypes
<1> QED BY <1>1 DEF Evolves, Bound, BoundNext

\* The invariant after a step, from what the step changed.
LEMMA HeldStep ==
    ASSUME TypeOK, TypeOK', HeldInv, Evolves,
           \A k \in known' : k \in known \/ BoundNext(k.token, k.uid),
           \A c \in Conns : reply'[c].kind \in Tokened =>
               reply'[c] = reply[c] \/ BoundNext(reply'[c].token, reply'[c].uid),
           \A c \in Conns : pc'[c] \in {"insert", "page"} =>
               \/ pc'[c] = pc[c] /\ job'[c] = job[c]
               \/ BoundNext(job'[c].token, job'[c].uid)
    PROVE  HeldInv'
<1>1. \A k \in known : k.token \in Int
  BY DEF TypeOK, StoreTypes
<1>2. \A c \in Conns : reply[c].token \in Int /\ job[c].token \in Int
  BY DEF TypeOK, ConnTypes, Reply, Job
<1>3. \A k \in known' : BoundNext(k.token, k.uid)
  BY <1>1, BoundStep DEF HeldInv
<1>4. \A c \in Conns : reply'[c].kind \in Tokened => BoundNext(reply'[c].token, reply'[c].uid)
  BY <1>2, BoundStep DEF HeldInv
<1>5. \A c \in Conns : pc'[c] \in {"insert", "page"} => BoundNext(job'[c].token, job'[c].uid)
  BY <1>2, BoundStep DEF HeldInv
<1> QED BY <1>3, <1>4, <1>5 DEF HeldInv, Bound, BoundNext

\* A finalised response holds nothing new, unless it carries a token.
LEMMA AnswerHeld ==
    ASSUME TypeOK, TypeOK', HeldInv, Evolves, NEW c \in Conns,
           NEW kind, NEW tok, NEW uid, NEW rows,
           AnswerWith(c, kind, tok, uid, rows), UNCHANGED known,
           kind \in Tokened => BoundNext(tok, uid)
    PROVE  HeldInv'
<1>1. /\ pc'[c] = "reply"
      /\ reply'[c].kind = kind /\ reply'[c].token = tok /\ reply'[c].uid = uid
  BY DEF AnswerWith, TypeOK, ConnTypes
<1>2. \A d \in Conns : d # c => reply'[d] = reply[d] /\ job'[d] = job[d] /\ pc'[d] = pc[d]
  BY DEF AnswerWith, TypeOK, ConnTypes
<1> QED BY <1>1, <1>2, HeldStep

\* A response that carries no token leaves every held token bound.
LEMMA AnswerErrorHeld ==
    ASSUME TypeOK, TypeOK', HeldInv, Evolves, NEW c \in Conns, NEW kind, kind \notin Tokened,
           AnswerError(c, kind) \/ DbLost(c, kind) \/ \E rows : AnswerRows(c, kind, rows),
           UNCHANGED known
    PROVE  HeldInv'
BY AnswerHeld DEF AnswerError, AnswerRows, DbLost

\* A handler between two queries holds the token it looked up.
LEMMA JobHeld ==
    ASSUME TypeOK, TypeOK', RowsInv, HeldInv, UNCHANGED <<users, nextTok, known>>,
           NEW c \in Conns, NEW r \in users, NEW l,
           NEW j, j.token = r.token, j.uid = r.id, Proceed(c, l, j)
    PROVE  HeldInv'
<1> USE DEF Proceed
<1>1. BoundNext(r.token, r.id)
  BY DEF RowsInv, TokensDistinct, BoundNext, TypeOK, StoreTypes, User
<1>2. job'[c].token = r.token /\ job'[c].uid = r.id
  BY DEF TypeOK, ConnTypes
<1>3. \A d \in Conns : d # c => job'[d] = job[d] /\ pc'[d] = pc[d]
  BY DEF TypeOK, ConnTypes
<1>4. Evolves
  BY DEF Evolves, TypeOK, StoreTypes
<1> QED BY <1>1, <1>2, <1>3, <1>4, HeldStep

\* The token that login answers with is bound to the user who logs in.
LEMMA LoginHeld ==
    ASSUME TypeOK, TypeOK', RowsInv, HeldInv, Evolves, NEW c \in Conns, Login(c)
    PROVE  HeldInv'
<1>1. \/ \E r \in users : AnswerToken(c, "Login", r.token, r.id)
      \/ \E k \in {"WrongPassword", "Failed"} : AnswerError(c, k) \/ DbLost(c, k)
  BY DEF Login
<1>2. UNCHANGED <<users, nextTok, known>>
  BY DEF Login, db
<1>3. \A r \in users : BoundNext(r.token, r.id)
  BY <1>2 DEF RowsInv, TokensDistinct, BoundNext, TypeOK, StoreTypes, User
<1>4. \A k \in {"WrongPassword", "Failed"} : k \notin Tokened
  BY DEF Tokened
<1> QED BY <1>1, <1>2, <1>3, <1>4, AnswerHeld, AnswerErrorHeld DEF AnswerToken

\* The token that register answers with is bound to the new user.
LEMMA RegisterHeld ==
    ASSUME TypeOK, TypeOK', RowsInv, RowsInv', HeldInv, Evolves, NEW c \in Conns, Register(c)
    PROVE  HeldInv'
<1>1. PICK u \in Usernames, p \in Passwords, f \in FirstNames, l \in LastNames :
          InsertUser(c, NewUser(u, p, f, l))
  BY DEF Register
<1> DEFINE row == NewUser(u, p, f, l)
<1>2. InsertUser(c, row)
  BY <1>1
<1> HIDE DEF row
<1>3. \/ row \in users' /\ AnswerToken(c, "Register", row.token, row.id)
      \/ \E k \in {"DbMessage", "UserExists"} : AnswerError(c, k) \/ DbLost(c, k)
  BY <1>2 DEF InsertUser
<1>4. UNCHANGED known
  BY DEF Register
<1>5. \A r \in users' : BoundNext(r.token, r.id)
  BY DEF RowsInv, TokensDistinct, BoundNext, TypeOK, StoreTypes, User
<1>6. \A k \in {"DbMessage", "UserExists"} : k \notin Tokened
  BY DEF Tokened
<1> QED BY <1>3, <1>4, <1>5, <1>6, AnswerHeld, AnswerErrorHeld DEF AnswerToken

\* edit_me answers with the token it drew, which is in the row it changed or
\* in none, or with a cut copy of the old one, which is in none.
LEMMA EditMeHeld ==
    ASSUME TypeOK, TypeOK', RowsInv, RowsInv', HeldInv, Evolves, NEW c \in Conns, EditMe(c)
    PROVE  HeldInv'
<1>1. PICK t \in Presented, u \in Usernames \cup {None}, p \in Passwords \cup {None},
          f \in FirstNames \cup {None}, l \in LastNames \cup {None}, a \in AdminFlags :
         /\ nextTok' = IF Regenerates(u, p) THEN nextTok + 1 ELSE nextTok
         /\ UpdateUsers(c, EditedTable(t, u, p, f, l, a),
                        IF Regenerates(u, p) THEN {FreshToken} ELSE CopyToken(t),
                        IF RowsWith(t) = {} THEN {0} ELSE {r.id : r \in RowsWith(t)})
  BY DEF EditMe
<1> DEFINE toks == IF Regenerates(u, p) THEN {FreshToken} ELSE CopyToken(t)
           uids == IF RowsWith(t) = {} THEN {0} ELSE {r.id : r \in RowsWith(t)}
           table == EditedTable(t, u, p, f, l, a)
           E(r) == Edited(r, u, p, f, l, a, FreshToken)
<1>2. UpdateUsers(c, table, toks, uids)
  BY <1>1
<1>3. t \in Int /\ nextTok \in Nat \ {0} /\ nextTok' \in Nat \ {0}
  BY DEF Presented, TypeOK, StoreTypes, Junk
<1>4. ASSUME users' = table, NEW tok \in toks, NEW uid \in uids
      PROVE  BoundNext(tok, uid)
  <2>1. CASE Regenerates(u, p)
    <3>1. tok = nextTok /\ nextTok' = nextTok + 1
      BY <1>1, <1>4, <2>1 DEF FreshToken
    <3>2. ASSUME NEW r \in users', r.token = tok PROVE r.id = uid
      <4>1. r \notin users
        BY <1>3, <3>1, <3>2 DEF RowsInv
      <4>2. PICK q \in RowsWith(t) : r = E(q)
        BY <1>4, <4>1, <3>2 DEF EditedTable
      <4>3. r.id = q.id
        BY <4>2 DEF Edited
      <4>4. PICK q2 \in RowsWith(t) : uid = q2.id
        BY <1>4, <4>2
      <4>5. q = q2
        BY <4>2, <4>4 DEF RowsWith, RowsInv, TokensDistinct
      <4> QED BY <4>3, <4>4, <4>5
    <3> QED BY <1>3, <3>1, <3>2 DEF BoundNext
  <2>2. CASE ~Regenerates(u, p)
    <3>1. tok \in {Cut(t), Junk} /\ tok \in Int /\ tok <= 0
      BY <1>3, <1>4, <2>2 DEF CopyToken, Cut, Junk
    <3>2. \A r \in users' : r.token > 0
      BY <1>3 DEF RowsInv
    <3>3. \A r \in users' : r.token \in Nat
      BY DEF TypeOK, StoreTypes, User
    <3> QED BY <1>3, <3>1, <3>2, <3>3 DEF BoundNext
  <2> QED BY <2>1, <2>2
<1> HIDE DEF toks, uids, table
<1>5. \/ users' = table /\ \E tok \in toks, uid \in uids : AnswerToken(c, "EditMe", tok, uid)
      \/ \E k \in {"DbMessage", "UserExists"} : AnswerError(c, k) \/ DbLost(c, k)
  BY <1>2 DEF UpdateUsers
<1>6. UNCHANGED known
  BY DEF EditMe
<1>7. \A k \in {"DbMessage", "UserExists"} : k \notin Tokened
  BY DEF Tokened
<1> QED BY <1>4, <1>5, <1>6, <1>7, AnswerHeld, AnswerErrorHeld DEF AnswerToken

\* Every handler leaves every held token bound.
LEMMA HandleHeld ==
    ASSUME TypeOK, TypeOK', RowsInv, RowsInv', HeldInv, Evolves,
           NEW c \in Conns, Handle(c)
    PROVE  HeldInv'
<1>1. CASE Login(c)
  BY <1>1, LoginHeld
<1>2. CASE Register(c)
  BY <1>2, RegisterHeld
<1>3. CASE EditMe(c)
  BY <1>3, EditMeHeld
<1>4. CASE GetMe(c)
  <2>1. \E k \in {"GetMe", "InvalidToken", "DbMessage"} :
          AnswerError(c, k) \/ DbLost(c, k) \/ \E rows : AnswerRows(c, k, rows)
    BY <1>4 DEF GetMe
  <2>2. UNCHANGED known /\ \A k \in {"GetMe", "InvalidToken", "DbMessage"} : k \notin Tokened
    BY <1>4 DEF GetMe, Tokened
  <2> QED BY <2>1, <2>2, AnswerErrorHeld
<1>5. CASE CheckContract(c)
  <2>1. \E k \in {"CheckContract", "InvalidId", "DbMessage"} :
          AnswerError(c, k) \/ DbLost(c, k) \/ \E rows : AnswerRows(c, k, rows)
    BY <1>5 DEF CheckContract
  <2>2. UNCHANGED known /\ \A k \in {"CheckContract", "InvalidId", "DbMessage"} : k \notin Tokened
    BY <1>5 DEF CheckContract, Tokened
  <2> QED BY <2>1, <2>2, AnswerErrorHeld
<1>6. CASE ListContractsQuery(c)
  <2>1. \E k \in {"ListContracts", "DbMessage"} :
          AnswerError(c, k) \/ DbLost(c, k) \/ \E rows : AnswerRows(c, k, rows)
    BY <1>6 DEF ListContractsQuery
  <2>2. UNCHANGED known /\ \A k \in {"ListContracts", "DbMessage"} : k \notin Tokened
    BY <1>6 DEF ListContractsQuery, Tokened
  <2> QED BY <2>1, <2>2, AnswerErrorHeld
<1>7. CASE RequestContractInsert(c)
  <2>1. \/ \E tok, uid, rows : AnswerWith(c, "RequestContract", tok, uid, rows)
        \/ AnswerError(c, "DbMessage") \/ DbLost(c, "DbMessage")
    BY <1>7 DEF RequestContractInsert, InsertContract
  <2>2. UNCHANGED known /\ "RequestContract" \notin Tokened /\ "DbMessage" \notin Tokened
    BY <1>7 DEF RequestContractInsert, Tokened
  <2> QED BY <2>1, <2>2, AnswerErrorHeld, AnswerHeld
<1>8. CASE RequestContract(c)
  <2>1. UNCHANGED <<users, nextTok, known>>
    BY <1>8 DEF RequestContract, db
  <2>2. \/ \E k \in {"InvalidToken", "NegativePrice", "DbMessage"} :
              AnswerError(c, k) \/ DbLost(c, k)
        \/ \E t \in Presented : \E q : \E r \in RowsWith(t) :
              Proceed(c, "insert", RequestJob(t, r, q))
    BY <1>8 DEF RequestContract
  <2>3. \A k \in {"InvalidToken", "NegativePrice", "DbMessage"} : k \notin Tokened
    BY DEF Tokened
  <2>4. ASSUME NEW t \in Presented, NEW q, NEW r \in RowsWith(t)
        PROVE  r \in users /\ RequestJob(t, r, q).token = r.token
               /\ RequestJob(t, r, q).uid = r.id
    BY DEF RowsWith, RequestJob
  <2> QED BY <2>1, <2>2, <2>3, <2>4, AnswerErrorHeld, JobHeld
<1>9. CASE ListContracts(c)
  <2>1. UNCHANGED <<users, nextTok, known>>
    BY <1>9 DEF ListContracts, db
  <2>2. \/ \E k \in {"InvalidToken", "DbMessage"} : AnswerError(c, k) \/ DbLost(c, k)
        \/ \E t \in Presented : \E r \in RowsWith(t) : Proceed(c, "page", ListJob(t, r))
    BY <1>9 DEF ListContracts
  <2>3. \A k \in {"InvalidToken", "DbMessage"} : k \notin Tokened
    BY DEF Tokened
  <2>4. ASSUME NEW t \in Presented, NEW r \in RowsWith(t)
        PROVE  r \in users /\ ListJob(t, r).token = r.token /\ ListJob(t, r).uid = r.id
    BY DEF RowsWith, ListJob
  <2> QED BY <2>1, <2>2, <2>3, <2>4, AnswerErrorHeld, JobHeld
<1>10. CASE Deliver(c) \/ LoseReply(c)
  <2>1. \A d \in Conns : job'[d] = job[d] /\ (d # c => reply'[d] = reply[d] /\ pc'[d] = pc[d])
    BY <1>10 DEF Deliver, LoseReply, Forget, TypeOK, ConnTypes
  <2>2. pc'[c] = "idle" /\ reply'[c].kind \notin Tokened
    BY <1>10 DEF Deliver, LoseReply, Forget, NoReply, Tokened, TypeOK, ConnTypes
  <2>3. ASSUME NEW k \in known' PROVE k \in known \/ BoundNext(k.token, k.uid)
    <3>1. k \in known \/ (reply[c].kind \in Tokened /\
                          k = [token |-> reply[c].token, uid |-> reply[c].uid])
      BY <1>10 DEF Deliver, LoseReply
    <3>2. reply[c].kind \in Tokened => BoundNext(reply[c].token, reply[c].uid)
      BY BoundStep DEF HeldInv, TypeOK, ConnTypes, Reply
    <3> QED BY <3>1, <3>2
  <2> QED BY <2>1, <2>2, <2>3, HeldStep
<1> QED BY <1>1, <1>2, <1>3, <1>4, <1>5, <1>6, <1>7, <1>8, <1>9, <1>10 DEF Handle

\* All handlers but the two that go on to a second query end in a response.
Answered(c) == \E kind, tok, uid, rows : AnswerWith(c, kind, tok, uid, rows)

\* A handler answers, goes on to its second query, or is done with.
LEMMA HandleMoves ==
    ASSUME NEW c \in Conns, Handle(c)
    PROVE  \/ Answered(c)
           \/ Forget(c) /\ UNCHANGED job
           \/ \E l, j : Proceed(c, l, j) /\ \E r \in users : j.uid = r.id
<1> USE DEF Answered, AnswerToken, AnswerRows, AnswerError, DbLost
<1>1. CASE Login(c)
  BY <1>1 DEF Login
<1>2. CASE Register(c)
  BY <1>2 DEF Register, InsertUser
<1>3. CASE GetMe(c)
  BY <1>3 DEF GetMe
<1>4. CASE EditMe(c)
  BY <1>4 DEF EditMe, UpdateUsers
<1>5. CASE RequestContract(c)
  <2>1. Answered(c) \/ \E t, q : \E r \in RowsWith(t) : Proceed(c, "insert", RequestJob(t, r, q))
    BY <1>5 DEF RequestContract
  <2>2. \A t, q, r : RequestJob(t, r, q).uid = r.id
    BY DEF RequestJob
  <2> QED BY <2>1, <2>2 DEF RowsWith
<1>6. CASE RequestContractInsert(c)
  BY <1>6 DEF RequestContractInsert, InsertContract
<1>7. CASE ListContracts(c)
  <2>1. Answered(c) \/ \E t : \E r \in RowsWith(t) : Proceed(c, "page", ListJob(t, r))
    BY <1>7 DEF ListContracts
  <2>2. \A t, r : ListJob(t, r).uid = r.id
    BY DEF ListJob
  <2> QED BY <2>1, <2>2 DEF RowsWith
<1>8. CASE ListContractsQuery(c)
  BY <1>8 DEF ListContractsQuery
<1>9. CASE CheckContract(c)
  BY <1>9 DEF CheckContract
<1>10. CASE Deliver(c) \/ LoseReply(c)
  BY <1>10 DEF Deliver, LoseReply
<1> QED BY <1>1, <1>2, <1>3, <1>4, <1>5, <1>6, <1>7, <1>8, <1>9, <1>10 DEF Handle

\* The handlers between two queries keep a user that exists.
LEMMA RequesterStep ==
    ASSUME TypeOK, RequesterExists, NEW c \in Conns, Handle(c), Keeps
    PROVE  RequesterExists'
<1>1. ASSUME NEW d \in Conns, pc'[d] \in {"insert", "page"}
      PROVE  \E r \in users : r.id = job'[d].uid
  <2>1. CASE Answered(c) \/ (Forget(c) /\ UNCHANGED job)
    <3>1. pc'[c] \in {"reply", "idle"} /\ (d # c => pc'[d] = pc[d] /\ job'[d] = job[d])
      BY <2>1 DEF Answered, AnswerWith, Forget, TypeOK, ConnTypes
    <3> QED BY <1>1, <3>1 DEF RequesterExists
  <2>2. ASSUME NEW l, NEW j, Proceed(c, l, j), \E r \in users : j.uid = r.id
        PROVE  \E r \in users : r.id = job'[d].uid
    BY <1>1, <2>2 DEF Proceed, RequesterExists, TypeOK, ConnTypes
  <2> QED BY <2>1, <2>2, HandleMoves
<1> QED BY <1>1 DEF RequesterExists, Keeps

\* Every step keeps the session invariant.
LEMMA NextSession ==
    ASSUME TypeOK, SessionInv, [Next]_vars
    PROVE  SessionInv'
<1>1. TypeOK' /\ RowsInv' /\ Evolves
  BY NextType, NextRows DEF SessionInv
<1>2. ASSUME NEW c \in Conns, Handle(c) PROVE SessionInv'
  <2>1. Keeps
    BY <1>2, HandleRows DEF SessionInv
  <2> QED BY <1>1, <1>2, <2>1, HandleHeld, RequesterStep DEF SessionInv
<1>3. CASE Restart
  <2>1. /\ \A c \in Conns : pc'[c] = "idle" /\ reply'[c].kind \notin Tokened
        /\ known' = known
    BY <1>3 DEF Restart, NoReply, Tokened
  <2>2. HeldInv'
    BY <1>1, <2>1, HeldStep DEF SessionInv
  <2> QED BY <1>1, <2>1, <2>2 DEF SessionInv, RequesterExists
<1>4. CASE Tick \/ UNCHANGED vars
  <2>1. UNCHANGED <<users, pc, job, reply, known>>
    BY <1>4 DEF Tick, vars, db
  <2> QED BY <1>1, <2>1, HeldStep DEF SessionInv, RequesterExists
<1> QED BY <1>2, <1>3, <1>4 DEF Next

\* The inductive invariant of the sessions.
THEOREM SessionInvariant == Spec => [](TypeOK /\ SessionInv)
<1>1. Init => TypeOK /\ SessionInv
  <2>1. Init => TypeOK
    BY FreshConnType DEF Init, TypeOK, StoreTypes, ConnTypes
  <2>2. Init => SessionInv
    BY DEF Init, SessionInv, RowsInv, TokensDistinct, HeldInv, RequesterExists,
       NoReply, Tokened
  <2> QED BY <2>1, <2>2
<1>2. TypeOK /\ SessionInv /\ [Next]_vars => (TypeOK /\ SessionInv)'
  BY NextType, NextSession
<1> QED BY <1>1, <1>2, PTL DEF Spec

-----------------------------------------------------------------------------
(***************************************************************************)
(* The properties.                                                         *)
(***************************************************************************)

\* A token handed out by login, register or edit_me opens no account but the
\* one it was handed out for, neither at rest nor between two queries.
THEOREM SessionsSafe == Spec => []SessionIntegrity
<1>1. SessionInv => SessionIntegrity
  BY DEF SessionInv, RowsInv, HeldInv, Bound, SessionIntegrity, Grants
<1> QED BY <1>1, SessionInvariant, PTL

\* A replaced or dropped token never becomes valid again.
THEOREM TokensNeverReturn == Spec => NoTokenResurrection
<1>1. TypeOK /\ SessionInv /\ [Next]_vars =>
        [\A t \in 1..(nextTok - 1) :
           (\E r \in users' : r.token = t) => (\E r \in users : r.token = t)]_vars
  <2> SUFFICES ASSUME TypeOK, SessionInv, [Next]_vars,
                      NEW t \in 1..(nextTok - 1), NEW r \in users', r.token = t
               PROVE  \E q \in users : q.token = t
    OBVIOUS
  <2>1. Evolves
    BY NextRows DEF SessionInv
  <2>2. t # nextTok
    BY DEF TypeOK, StoreTypes
  <2> QED BY <2>1, <2>2 DEF Evolves
<1> QED BY <1>1, SessionInvariant, PTL DEF Spec, NoTokenResurrection

\* The rows of the table before and after a step that is not a restart.
LEMMA RowChange ==
    ASSUME TypeOK, SessionInv, NEW c \in Conns, Handle(c)
    PROVE  \/ \A r \in users : r \in users'
           \/ \E t \in Presented : \E u, p, f, l, a :
                 users' = EditedTable(t, u, p, f, l, a)
<1>1. CASE Register(c)
  BY <1>1 DEF Register, InsertUser
<1>2. CASE EditMe(c)
  BY <1>2 DEF EditMe, UpdateUsers
<1>3. CASE ~Register(c) /\ ~EditMe(c)
  BY <1>3 DEF Handle, Login, GetMe, RequestContract, RequestContractInsert,
     ListContracts, ListContractsQuery, CheckContract, Deliver, LoseReply, db
<1> QED BY <1>1, <1>2, <1>3

\* A step that changes a user's name or password changes his token.
THEOREM CredentialsRotate == Spec => CredentialChangeRotates
<1>1. TypeOK /\ SessionInv /\ [Next]_vars =>
        [\A r \in users, q \in users' :
           r.id = q.id /\ (r.username # q.username \/ r.password # q.password)
             => q.token # r.token]_vars
  <2> SUFFICES ASSUME TypeOK, SessionInv, [Next]_vars, NEW r \in users, NEW q \in users',
                      r.id = q.id, r.username # q.username \/ r.password # q.password
               PROVE  q.token # r.token
    OBVIOUS
  <2>1. users' # users
    BY DEF SessionInv, RowsInv
  <2>2. PICK c \in Conns : Handle(c)
    BY <2>1 DEF Next, Tick, Restart, vars, db
  <2>3. RowsInv'
    BY <2>2, HandleRows DEF SessionInv
  <2>4. r \notin users'
    BY <2>3 DEF RowsInv
  <2>t. PICK t \in Presented : \E u, p, f, l, a : users' = EditedTable(t, u, p, f, l, a)
    BY <2>2, <2>4, RowChange
  <2>5. PICK u, p, f, l, a : users' = EditedTable(t, u, p, f, l, a)
    BY <2>t
  <2>6. q \notin users
    BY DEF SessionInv, RowsInv
  <2>7. PICK o \in users : q = Edited(o, u, p, f, l, a, FreshToken)
    BY <2>5, <2>6 DEF EditedTable, RowsWith
  <2>8. q.id = o.id /\ q.token = IF Regenerates(u, p) THEN nextTok ELSE o.token
    BY <2>7 DEF Edited, FreshToken
  <2>9. o = r
    BY <2>8 DEF SessionInv, RowsInv
  <2>10. Regenerates(u, p)
    BY <2>7, <2>9 DEF Edited, Regenerates
  <2>11. r.token < nextTok /\ nextTok \in Nat /\ r.token \in Nat
    BY DEF SessionInv, RowsInv, TypeOK, StoreTypes, User
  <2> QED BY <2>8, <2>10, <2>11
<1> QED BY <1>1, SessionInvariant, PTL DEF Spec, CredentialChangeRotates

\* Only who was given the row's token for that user changes a user's row.
THEOREM HolderEdits == Spec => OnlyHolderEdits
<1>1. TypeOK /\ SessionInv /\ [Next]_vars =>
        [users' = {} \/ \A r \in users : r \in users' \/
                          [token |-> r.token, uid |-> r.id] \in known]_vars
  <2> SUFFICES ASSUME TypeOK, SessionInv, [Next]_vars, users' # {},
                      NEW r \in users, r \notin users'
               PROVE  [token |-> r.token, uid |-> r.id] \in known
    OBVIOUS
  <2>1. PICK c \in Conns : Handle(c)
    BY DEF Next, Tick, Restart, vars, db
  <2>t. PICK t \in Presented : \E u, p, f, l, a : users' = EditedTable(t, u, p, f, l, a)
    BY <2>1, RowChange
  <2>2. PICK u, p, f, l, a : users' = EditedTable(t, u, p, f, l, a)
    BY <2>t
  <2>3. r.token = t
    BY <2>2 DEF EditedTable, RowsWith
  <2>4. t # Junk
    BY <2>3 DEF SessionInv, RowsInv, Junk
  <2>5. PICK k \in known : k.token = t
    BY <2>4 DEF Presented
  <2>6. k.uid = r.id
    BY <2>3, <2>5 DEF SessionInv, HeldInv, Bound
  <2>7. k = [token |-> k.token, uid |-> k.uid]
    BY DEF TypeOK, StoreTypes
  <2> QED BY <2>3, <2>5, <2>6, <2>7
<1> QED BY <1>1, SessionInvariant, PTL DEF Spec, OnlyHolderEdits

\* No two rows of users carry the same token: _register and edit_me draw every
\* token they write, although the column is not UNIQUE.
THEOREM TokensStayDistinct == Spec => []TokensDistinct
<1>1. TypeOK /\ SessionInv => TokensDistinct
  BY DEF SessionInv, RowsInv
<1> QED BY <1>1, SessionInvariant, PTL

\* The user that the first query of request_contract or list_contracts found
\* still exists when the second query is sent.
THEOREM RequestersExist == Spec => []RequesterExists
<1>1. TypeOK /\ SessionInv => RequesterExists
  BY DEF SessionInv
<1> QED BY <1>1, SessionInvariant, PTL

-----------------------------------------------------------------------------
(***************************************************************************)
(* The contracts.                                                          *)
(***************************************************************************)

\* A handler that has looked up a token and has its second query before it.
Between(c) == pc[c] \in {"insert", "page"}

\* The first query found the row r under the token t; l is what comes next.
LooksUp(c, l, j) ==
    /\ Proceed(c, l, j) /\ l \in {"insert", "page"}
    /\ \E r \in users : /\ r.token = j.token /\ r.id = j.uid
                        /\ l = "page" => r.admin = j.admin
    /\ j.since = now /\ j.next = nextContract /\ j.token \in Presented

\* The INSERT of request_contract added a row of its time.
Inserts(c) ==
    /\ pc[c] = "insert"
    /\ \E row, at : /\ contracts' = contracts \cup {row}
                    /\ nextContract' = nextContract + 1
                    /\ at \in job[c].since..now
                    /\ row.id = nextContract /\ row.created_at = at
                    /\ row.user = job[c].uid
                    /\ \E u \in users : u.id = row.user

Idle == UNCHANGED <<contracts, nextContract>>

\* The four shapes of a handler's step: a request answered by one query, one
\* that goes on to a second, the second query, and the end of a response.
LEMMA HandleShape ==
    ASSUME NEW c \in Conns, Handle(c)
    PROVE  /\ now' = now /\ known \subseteq known'
           /\ \/ Receive(c) /\ Answered(c) /\ Idle
              \/ Receive(c) /\ Idle /\ users' = users /\ \E l, j : LooksUp(c, l, j)
              \/ Between(c) /\ Answered(c) /\ users' = users /\ (Idle \/ Inserts(c))
              \/ Forget(c) /\ Idle /\ UNCHANGED <<users, job>>
<1> USE DEF Answered, AnswerToken, AnswerRows, AnswerError, DbLost, Idle
<1>1. CASE Login(c)
  BY <1>1 DEF Login, db
<1>2. CASE Register(c)
  BY <1>2 DEF Register, InsertUser
<1>3. CASE GetMe(c)
  BY <1>3 DEF GetMe, db
<1>4. CASE EditMe(c)
  BY <1>4 DEF EditMe, UpdateUsers
<1>5. CASE RequestContract(c)
  <2>1. Answered(c) \/ \E t \in Presented : \E q : \E r \in RowsWith(t) :
                          Proceed(c, "insert", RequestJob(t, r, q))
    BY <1>5 DEF RequestContract
  <2>2. ASSUME NEW t \in Presented, NEW q, NEW r \in RowsWith(t), Proceed(c, "insert", RequestJob(t, r, q))
        PROVE  LooksUp(c, "insert", RequestJob(t, r, q))
    BY <2>2 DEF LooksUp, RequestJob, RowsWith
  <2> QED BY <1>5, <2>1, <2>2 DEF RequestContract, db
<1>6. CASE ListContracts(c)
  <2>1. Answered(c) \/ \E t \in Presented : \E r \in RowsWith(t) :
                          Proceed(c, "page", ListJob(t, r))
    BY <1>6 DEF ListContracts
  <2>2. ASSUME NEW t \in Presented, NEW r \in RowsWith(t), Proceed(c, "page", ListJob(t, r))
        PROVE  LooksUp(c, "page", ListJob(t, r))
    BY <2>2 DEF LooksUp, ListJob, RowsWith
  <2> QED BY <1>6, <2>1, <2>2 DEF ListContracts, db
<1>7. CASE RequestContractInsert(c)
  <2>1. PICK at \in job[c].since..now : InsertContract(c, at, RowOf(job[c], nextContract, at))
    BY <1>7 DEF RequestContractInsert
  <2> DEFINE row == RowOf(job[c], nextContract, at)
  <2>2. row.id = nextContract /\ row.created_at = at /\ row.user = job[c].uid
    BY DEF RowOf
  <2> HIDE DEF row
  <2>3. Answered(c)
    BY <2>1 DEF InsertContract
  <2>4. Idle \/ Inserts(c)
    BY <1>7, <2>1, <2>2 DEF InsertContract, Inserts, RequestContractInsert, Insertable, row
  <2> QED BY <1>7, <2>3, <2>4 DEF RequestContractInsert, Between
<1>8. CASE ListContractsQuery(c)
  BY <1>8 DEF ListContractsQuery, Between, db
<1>9. CASE CheckContract(c)
  BY <1>9 DEF CheckContract, db
<1>10. CASE Deliver(c) \/ LoseReply(c)
  BY <1>10 DEF Deliver, LoseReply, db
<1> QED BY <1>1, <1>2, <1>3, <1>4, <1>5, <1>6, <1>7, <1>8, <1>9, <1>10 DEF Handle

\* A handler touches no connection but its own.
LEMMA HandleLocal ==
    ASSUME TypeOK, NEW c \in Conns, Handle(c), NEW d \in Conns, d # c
    PROVE  UNCHANGED <<pc[d], job[d], reply[d], body[d]>>
BY HandleMoves DEF Answered, AnswerWith, Forget, Proceed, TypeOK, ConnTypes

\* Only the INSERT leaves an answer of request_contract behind.
LEMMA EchoSource ==
    ASSUME TypeOK, NEW c \in Conns, Handle(c), reply'[c].kind = "RequestContract"
    PROVE  RequestContractInsert(c) \/ UNCHANGED <<reply[c], body[c]>>
<1> USE DEF AnswerToken, AnswerRows, AnswerError, AnswerWith, DbLost, TypeOK, ConnTypes
<1>1. CASE Login(c)
  BY <1>1 DEF Login
<1>2. CASE Register(c)
  BY <1>2 DEF Register, InsertUser
<1>3. CASE GetMe(c)
  BY <1>3 DEF GetMe
<1>4. CASE EditMe(c)
  BY <1>4 DEF EditMe, UpdateUsers
<1>5. CASE RequestContract(c)
  BY <1>5 DEF RequestContract, Proceed
<1>6. CASE ListContracts(c)
  BY <1>6 DEF ListContracts, Proceed
<1>7. CASE ListContractsQuery(c)
  BY <1>7 DEF ListContractsQuery
<1>8. CASE CheckContract(c)
  <2> HIDE DEF AnswerRows, AnswerError, DbLost
  <2>1. \E k \in {"CheckContract", "InvalidId", "DbMessage"} :
          AnswerError(c, k) \/ DbLost(c, k) \/ \E rows : AnswerRows(c, k, rows)
    BY <1>8 DEF CheckContract
  <2> QED BY <2>1 DEF AnswerRows, AnswerError, DbLost
<1>9. CASE Deliver(c) \/ LoseReply(c)
  BY <1>9 DEF Deliver, LoseReply, Forget, NoReply
<1> QED BY <1>1, <1>2, <1>3, <1>4, <1>5, <1>6, <1>7, <1>8, <1>9 DEF Handle

\* What request_contract answers agrees with a row, in one connection.
EchoOf(c) ==
    reply[c].kind = "RequestContract" =>
        \E r \in contracts :
            /\ r.id = body[c][1].id /\ r.user = reply[c].uid
            /\ r.name = body[c][1].name
            /\ r.description = StoredDescription(body[c][1].description)
            /\ r.price = StoredPrice(body[c][1].price)
            /\ r.attachment = body[c][1].attachment
            /\ r.created_at = body[c][1].created_at
            /\ r.status = body[c][1].status

\* The INSERT adds the row that its answer agrees with.
LEMMA EchoInsert ==
    ASSUME TypeOK, NEW c \in Conns, RequestContractInsert(c),
           reply'[c].kind = "RequestContract"
    PROVE  EchoOf(c)'
<1>1. PICK at \in job[c].since..now : InsertContract(c, at, RowOf(job[c], nextContract, at))
  BY DEF RequestContractInsert
<1> DEFINE row == RowOf(job[c], nextContract, at)
<1>n. ~DbLost(c, "DbMessage") /\ ~AnswerError(c, "DbMessage")
  BY DEF DbLost, AnswerError, AnswerWith, TypeOK, ConnTypes
<1>2. /\ contracts' = contracts \cup {row}
      /\ \E who : AnswerWith(c, "RequestContract", Junk, job[c].uid,
                             <<Echo(job[c].req, nextContract, at, who)>>)
  BY <1>1, <1>n DEF InsertContract
<1>3. PICK who : AnswerWith(c, "RequestContract", Junk, job[c].uid,
                            <<Echo(job[c].req, nextContract, at, who)>>)
  BY <1>2
<1> DEFINE echo == Echo(job[c].req, nextContract, at, who)
<1>4. body'[c] = <<echo>> /\ reply'[c].uid = job[c].uid
  BY <1>3 DEF AnswerWith, TypeOK, ConnTypes
<1>5. /\ row.id = echo.id /\ row.user = job[c].uid /\ row.name = echo.name
      /\ row.description = StoredDescription(echo.description)
      /\ row.price = StoredPrice(echo.price)
      /\ row.attachment = echo.attachment
      /\ row.created_at = echo.created_at /\ row.status = echo.status
  BY DEF RowOf, Echo
<1> HIDE DEF row, echo
<1>6. body'[c][1] = echo
  BY <1>4
<1>7. row \in contracts'
  BY <1>2
<1> QED BY <1>4, <1>5, <1>6, <1>7 DEF EchoOf

\* request_contract answers with the id of a contract of its requester and
\* with the columns as they were stored, until the tables are dropped.
THEOREM EchoTrue == Spec => []EchoMatchesStore
<1>1. Init => EchoMatchesStore
  BY DEF Init, EchoMatchesStore, NoReply
<1>2. TypeOK /\ EchoMatchesStore /\ [Next]_vars => EchoMatchesStore'
  <2> SUFFICES ASSUME TypeOK, EchoMatchesStore, [Next]_vars, NEW d \in Conns
               PROVE  EchoOf(d)'
    BY DEF EchoMatchesStore, EchoOf
  <2>1. EchoOf(d)
    BY DEF EchoMatchesStore, EchoOf
  <2>2. CASE Restart
    BY <2>2 DEF Restart, EchoOf, NoReply
  <2>3. CASE Tick \/ UNCHANGED vars
    BY <2>1, <2>3 DEF Tick, vars, db, EchoOf
  <2>4. ASSUME NEW c \in Conns, Handle(c) PROVE EchoOf(d)'
    <3>1. contracts \subseteq contracts'
      BY <2>4, HandleShape DEF Idle, Inserts
    <3>2. CASE UNCHANGED <<reply[d], body[d]>>
      BY <2>1, <3>1, <3>2 DEF EchoOf
    <3>3. CASE c = d /\ reply'[c].kind = "RequestContract" /\ RequestContractInsert(c)
      BY <3>3, EchoInsert
    <3>4. CASE reply'[d].kind # "RequestContract"
      BY <3>4 DEF EchoOf
    <3> QED BY <2>4, <3>2, <3>3, <3>4, HandleLocal, EchoSource
  <2> QED BY <2>2, <2>3, <2>4 DEF Next
<1> QED BY <1>1, <1>2, TypeCorrect, PTL DEF Spec

-----------------------------------------------------------------------------
(***************************************************************************)
(* Pages.                                                                  *)
(***************************************************************************)

\* The foreign key of contracts holds, and a connection that has no answer
\* waiting has none in its variables.
PageInv ==
    /\ \A r \in contracts : \E u \in users : u.id = r.user
    /\ \A c \in Conns : pc[c] # "reply" => reply[c] = NoReply

\* Every step keeps it: UPDATEs keep ids, and only an answer sets a reply.
LEMMA PageStep ==
    ASSUME TypeOK, SessionInv, PageInv, [Next]_vars
    PROVE  PageInv'
<1>1. CASE Restart
  BY <1>1 DEF Restart, PageInv
<1>2. CASE Tick \/ UNCHANGED vars
  BY <1>2 DEF Tick, vars, db, PageInv
<1>3. ASSUME NEW c \in Conns, Handle(c) PROVE PageInv'
  <2>1. Keeps
    BY <1>3, HandleRows DEF SessionInv
  <2>2. ASSUME NEW r \in contracts' PROVE \E u \in users' : u.id = r.user
    <3>1. r \in contracts \/ \E u \in users : u.id = r.user
      BY <1>3, HandleShape DEF Idle, Inserts
    <3>2. PICK u \in users : u.id = r.user
      BY <3>1 DEF PageInv
    <3> QED BY <2>1, <3>2 DEF Keeps
  <2>3. ASSUME NEW d \in Conns, pc'[d] # "reply" PROVE reply'[d] = NoReply
    <3>1. CASE d # c
      BY <1>3, <2>3, <3>1, HandleLocal DEF PageInv
    <3>2. CASE d = c
      <4>1. CASE Answered(c)
        BY <2>3, <3>2, <4>1 DEF Answered, AnswerWith, TypeOK, ConnTypes
      <4>2. CASE Forget(c)
        BY <3>2, <4>2 DEF Forget, TypeOK, ConnTypes
      <4>3. CASE Receive(c) /\ \E l, j : LooksUp(c, l, j)
        BY <3>2, <4>3 DEF Receive, LooksUp, Proceed, PageInv
      <4> QED BY <1>3, <4>1, <4>2, <4>3, HandleShape
    <3> QED BY <3>1, <3>2
  <2> QED BY <2>2, <2>3 DEF PageInv
<1> QED BY <1>1, <1>2, <1>3 DEF Next

\* The page the second query returns, as the property asks for it.
LEMMA PageRight ==
    ASSUME PageInv, NEW j, NEW p \in Pages(Joined(Listed(j)))
    PROVE  /\ \A r \in contracts : r.user = j.uid =>
                \/ \E i \in DOMAIN p : p[i].id = r.id
                \/ /\ Len(p) = PageLimit
                   /\ \A i \in DOMAIN p : p[i].created_at >= r.created_at
           /\ ~j.admin => \A i \in DOMAIN p :
                \E r \in contracts : r.id = p[i].id /\ r.user = j.uid
<1>1. ASSUME NEW r \in contracts, r.user = j.uid
      PROVE  \/ \E i \in DOMAIN p : p[i].id = r.id
             \/ /\ Len(p) = PageLimit
                /\ \A i \in DOMAIN p : p[i].created_at >= r.created_at
  <2>1. PICK u \in users : u.id = r.user
    BY DEF PageInv
  <2>2. r \in Listed(j)
    BY <1>1 DEF Listed
  <2>3. ViewOf(r, u) \in Joined(Listed(j))
    <3>1. <<r, u>> \in {y \in Listed(j) \X users : y[1].user = y[2].id}
      BY <2>1, <2>2
    <3> QED BY <3>1 DEF Joined
  <2>4. ViewOf(r, u).id = r.id /\ ViewOf(r, u).created_at = r.created_at
    BY DEF ViewOf
  <2> QED BY <2>3, <2>4 DEF Pages
<1>2. ASSUME ~j.admin, NEW i \in DOMAIN p
      PROVE  \E r \in contracts : r.id = p[i].id /\ r.user = j.uid
  <2>1. p[i] \in Joined(Listed(j))
    BY DEF Pages
  <2>2. PICK x \in Listed(j) \X users : p[i] = ViewOf(x[1], x[2])
    BY <2>1 DEF Joined
  <2>3. x[1] \in Listed(j) /\ p[i].id = x[1].id
    BY <2>2 DEF ViewOf
  <2> QED BY <1>2, <2>3 DEF Listed
<1> QED BY <1>1, <1>2

\* list_contracts shows its reader his contracts, the newest if they do not
\* all fit, and nobody else's unless he was an administrator when looked up.
THEOREM PagesRight == Spec => PageShowsOwn
<1> DEFINE Right(c) ==
      pc[c] = "page" /\ reply'[c].kind = "ListContracts" =>
        /\ \A r \in contracts : r.user = job[c].uid =>
             \/ \E i \in DOMAIN body'[c] : body'[c][i].id = r.id
             \/ /\ Len(body'[c]) >= PageLimit
                /\ \A i \in DOMAIN body'[c] : body'[c][i].created_at >= r.created_at
        /\ ~job[c].admin => \A i \in DOMAIN body'[c] :
             \E r \in contracts : r.id = body'[c][i].id /\ r.user = job[c].uid
<1>1. Init => PageInv
  BY DEF Init, PageInv
<1>2. TypeOK /\ SessionInv /\ PageInv /\ [Next]_vars => PageInv'
  BY PageStep
<1>3. TypeOK /\ SessionInv /\ PageInv /\ [Next]_vars => [\A c \in Conns : Right(c)]_vars
  <2> SUFFICES ASSUME TypeOK, PageInv, [Next]_vars, NEW c \in Conns, pc[c] = "page",
                      reply'[c].kind = "ListContracts"
               PROVE  Right(c)
    OBVIOUS
  <2>1. reply[c].kind # "ListContracts"
    BY DEF PageInv, NoReply
  <2>2. PICK d \in Conns : Handle(d)
    BY <2>1 DEF Next, Tick, Restart, NoReply, vars
  <2>3. d = c
    BY <2>1, <2>2, HandleLocal
  <2>4. ListContractsQuery(c)
    BY <2>2, <2>3 DEF Handle, Receive, Login, Register, GetMe, EditMe, RequestContract,
       RequestContractInsert, ListContracts, CheckContract, Deliver, LoseReply
  <2>5. PICK p \in Pages(Joined(Listed(job[c]))) : body'[c] = p
    BY <2>4 DEF ListContractsQuery, AnswerRows, DbLost, AnswerError, AnswerWith, TypeOK, ConnTypes
  <2>6. PageLimit >= PageLimit
    BY BoundAssumption
  <2> QED BY <2>5, <2>6, PageRight
<1> QED BY <1>1, <1>2, <1>3, SessionInvariant, PTL DEF Spec, PageShowsOwn

-----------------------------------------------------------------------------
(***************************************************************************)
(* Requests of contracts on any number of threads.                         *)
(***************************************************************************)

\* What a handler that is about to INSERT knows: the token was delivered for
\* the user it will file under, and the contracts that were there when it
\* began are no newer than its clock reading can be.
Informed(c) ==
    /\ [token |-> job[c].token, uid |-> job[c].uid] \in known
    /\ job[c].next <= nextContract
    /\ \A r \in contracts : r.id < job[c].next => r.created_at <= job[c].since

\* No contract has an id still to come or a time still to come.
RequestInv ==
    /\ \A r \in contracts : r.id < nextContract /\ r.created_at <= now
    /\ \A c \in Conns : pc[c] = "insert" => Informed(c)

\* An INSERT gives a new id and a time no earlier than its handler's start.
LEMMA InsertTimes ==
    ASSUME TypeOK, NEW c \in Conns, Inserts(c)
    PROVE  \E row : /\ contracts' = contracts \cup {row}
                    /\ nextContract' = nextContract + 1
                    /\ row.id = nextContract /\ row.user = job[c].uid
                    /\ job[c].since <= row.created_at /\ row.created_at <= now
<1>1. job[c].since \in Nat /\ now \in Nat
  BY DEF TypeOK, ConnTypes, StoreTypes, Job
<1> QED BY <1>1 DEF Inserts

\* A lookup finds its row under a token that was delivered for that row.
LEMMA LookupInformed ==
    ASSUME TypeOK, SessionInv, RequestInv, NEW c \in Conns, NEW l, NEW j, LooksUp(c, l, j),
           Idle, users' = users, known \subseteq known'
    PROVE  Informed(c)'
<1>1. job'[c] = j
  BY DEF LooksUp, Proceed, TypeOK, ConnTypes
<1>2. PICK r \in users : r.token = j.token /\ r.id = j.uid
  BY DEF LooksUp
<1>3. r.token \in Nat /\ r.token > 0
  BY DEF SessionInv, RowsInv, TypeOK, StoreTypes, User
<1>4. PICK k \in known : k.token = j.token
  BY <1>2, <1>3 DEF LooksUp, Presented, Junk
<1>5. k.uid = j.uid
  BY <1>2, <1>4 DEF SessionInv, HeldInv, Bound
<1>6. k = [token |-> j.token, uid |-> j.uid]
  BY <1>4, <1>5 DEF TypeOK, StoreTypes
<1>7. nextContract \in Nat
  BY DEF TypeOK, StoreTypes
<1> QED BY <1>1, <1>4, <1>6, <1>7 DEF Informed, LooksUp, RequestInv, Idle

\* What a handler knows stays true while others go on: contracts that are
\* added get ids from its next on.
LEMMA InformedStays ==
    ASSUME TypeOK, RequestInv, NEW c \in Conns, pc[c] = "insert", job'[c] = job[c],
           known \subseteq known',
           Idle \/ \E d \in Conns : Inserts(d)
    PROVE  Informed(c)'
<1>1. Informed(c)
  BY DEF RequestInv
<1>2. nextContract \in Nat /\ job[c].next \in Nat
  BY DEF TypeOK, StoreTypes, ConnTypes, Job
<1>3. CASE Idle
  BY <1>1, <1>3 DEF Informed, Idle
<1>4. ASSUME NEW d \in Conns, Inserts(d) PROVE Informed(c)'
  <2>1. PICK row : /\ contracts' = contracts \cup {row}
                   /\ nextContract' = nextContract + 1 /\ row.id = nextContract
    BY <1>4, InsertTimes
  <2> QED BY <1>1, <1>2, <2>1 DEF Informed
<1> QED BY <1>3, <1>4

\* Every step of a handler keeps RequestInv.
LEMMA RequestHandle ==
    ASSUME TypeOK, SessionInv, RequestInv, NEW c \in Conns, Handle(c)
    PROVE  RequestInv'
<1>1. now' = now /\ known \subseteq known' /\ (Idle \/ Inserts(c))
  BY HandleShape
<1>2. now \in Nat /\ nextContract \in Nat /\ \A r \in contracts : r.id \in Nat
  BY DEF TypeOK, StoreTypes, Contract
<1>3. \A r \in contracts' : r.id < nextContract' /\ r.created_at <= now'
  <2>1. CASE Idle
    BY <1>1, <2>1 DEF RequestInv, Idle
  <2>2. CASE Inserts(c)
    <3>1. PICK row : /\ contracts' = contracts \cup {row} /\ nextContract' = nextContract + 1
                     /\ row.id = nextContract /\ row.created_at <= now
      BY <2>2, InsertTimes
    <3> QED BY <1>1, <1>2, <3>1 DEF RequestInv
  <2> QED BY <1>1, <2>1, <2>2
<1>4. ASSUME NEW d \in Conns, pc'[d] = "insert" PROVE Informed(d)'
  <2>1. CASE d # c
    BY <1>1, <1>4, <2>1, HandleLocal, InformedStays
  <2>2. CASE d = c
    <3>1. PICK l, j : LooksUp(c, l, j) /\ Idle /\ users' = users
      BY <1>4, <2>2, HandleShape DEF Answered, AnswerWith, Forget, TypeOK, ConnTypes
    <3> QED BY <1>1, <2>2, <3>1, LookupInformed
  <2> QED BY <2>1, <2>2
<1> QED BY <1>3, <1>4 DEF RequestInv

\* So does every other step: the clock only goes forward.
LEMMA RequestStep ==
    ASSUME TypeOK, SessionInv, RequestInv, [Next]_vars
    PROVE  RequestInv'
<1>1. CASE Restart
  BY <1>1 DEF Restart, RequestInv
<1>2. CASE Tick
  <2>1. now \in Nat /\ now' = now + 1 /\ \A r \in contracts : r.created_at \in Nat
    BY <1>2 DEF Tick, TypeOK, StoreTypes, Contract
  <2>2. UNCHANGED <<contracts, nextContract, pc, job, known>>
    BY <1>2 DEF Tick, db
  <2> QED BY <2>1, <2>2 DEF RequestInv, Informed
<1>3. CASE UNCHANGED vars
  BY <1>3 DEF vars, db, RequestInv, Informed
<1> QED BY <1>1, <1>2, <1>3, RequestHandle DEF Next

\* A step that adds a contract is the INSERT of the one handler that leaves
\* "insert", and that handler was informed.
LEMMA Added ==
    ASSUME TypeOK, SessionInv, RequestInv, [Next]_vars, NEW q \in contracts' \ contracts
    PROVE  \E c \in Conns :
             /\ pc[c] = "insert" /\ pc'[c] # "insert" /\ Informed(c)
             /\ \A d \in Conns : d # c => pc'[d] = pc[d]
             /\ q.id = nextContract /\ q.user = job[c].uid
             /\ job[c].since <= q.created_at
<1>1. PICK c \in Conns : Handle(c)
  BY DEF Next, Tick, Restart, vars, db
<1>2. Inserts(c) /\ Answered(c)
  BY <1>1, HandleShape DEF Idle
<1>3. pc[c] = "insert" /\ pc'[c] # "insert" /\ Informed(c)
  BY <1>2 DEF Inserts, Answered, AnswerWith, TypeOK, ConnTypes, RequestInv
<1>4. \A d \in Conns : d # c => pc'[d] = pc[d]
  BY <1>1, HandleLocal
<1>5. q.id = nextContract /\ q.user = job[c].uid /\ job[c].since <= q.created_at
  BY <1>2, InsertTimes
<1> QED BY <1>3, <1>4, <1>5

\* Whatever the other threads do between the two queries of request_contract,
\* what its first query told it is good enough for the second.
THEOREM RequestInvariant == Spec => [](TypeOK /\ SessionInv /\ RequestInv)
<1>1. Init => RequestInv
  BY DEF Init, RequestInv
<1>2. TypeOK /\ SessionInv /\ RequestInv /\ [Next]_vars => RequestInv'
  BY RequestStep
<1> QED BY <1>1, <1>2, SessionInvariant, PTL DEF Spec

\* request_contract files under the account its client's token was given for.
THEOREM HolderFiles == Spec => FiledByHolder
<1> DEFINE Filed ==
      \A q \in contracts' \ contracts : \E c \in Conns :
         /\ pc[c] = "insert" /\ pc'[c] # "insert"
         /\ [token |-> job[c].token, uid |-> q.user] \in known
         /\ \E u \in users : u.id = q.user
<1>1. TypeOK /\ SessionInv /\ RequestInv /\ [Next]_vars => [Filed]_vars
  <2> SUFFICES ASSUME TypeOK, SessionInv, RequestInv, [Next]_vars,
                      NEW q \in contracts' \ contracts
               PROVE  \E c \in Conns :
                        /\ pc[c] = "insert" /\ pc'[c] # "insert"
                        /\ [token |-> job[c].token, uid |-> q.user] \in known
                        /\ \E u \in users : u.id = q.user
    OBVIOUS
  <2>1. PICK c \in Conns : /\ pc[c] = "insert" /\ pc'[c] # "insert" /\ Informed(c)
                           /\ q.user = job[c].uid
    BY Added
  <2>2. \E u \in users : u.id = q.user
    BY <2>1 DEF SessionInv, RequesterExists
  <2> QED BY <2>1, <2>2 DEF Informed
<1> QED BY <1>1, RequestInvariant, PTL DEF Spec, FiledByHolder

\* Contracts whose requests did not overlap have their times in the order of
\* their ids, on any number of threads.
THEOREM OrderKept == Spec => RequestsKeepOrder
<1> DEFINE Ordered ==
      \A c \in Conns, q \in contracts' \ contracts :
         pc[c] = "insert" /\ pc'[c] # "insert" =>
           \A r \in contracts : r.id < job[c].next =>
               r.id < q.id /\ r.created_at <= q.created_at
<1>1. TypeOK /\ SessionInv /\ RequestInv /\ [Next]_vars => [Ordered]_vars
  <2> SUFFICES ASSUME TypeOK, SessionInv, RequestInv, [Next]_vars,
                      NEW c \in Conns, NEW q \in contracts' \ contracts,
                      pc[c] = "insert", pc'[c] # "insert",
                      NEW r \in contracts, r.id < job[c].next
               PROVE  r.id < q.id /\ r.created_at <= q.created_at
    OBVIOUS
  <2>1. /\ Informed(c) /\ q.id = nextContract /\ job[c].since <= q.created_at
    BY Added
  <2>2. q \in Contract
    BY NextType DEF TypeOK, StoreTypes
  <2>3. /\ r.id \in Nat /\ r.created_at \in Nat /\ q.id \in Nat /\ q.created_at \in Nat
        /\ job[c].since \in Nat
    BY <2>2 DEF TypeOK, StoreTypes, ConnTypes, Job, Contract
  <2> QED BY <2>1, <2>3 DEF Informed, RequestInv
<1> QED BY <1>1, RequestInvariant, PTL DEF Spec, RequestsKeepOrder
=============================================================================
