-------------------------- MODULE ContractService --------------------------
(***************************************************************************)
(* The backend's request handlers (backend/src/api/*.c) and the two        *)
(* PostgreSQL tables they work on (backend/src/main.c, the schema created  *)
(* at start).  One action per handler; a handler that sends two queries is *)
(* two actions, because handlers of other service threads run between the  *)
(* queries.  A query is atomic here: what overlapping calls on the one     *)
(* shared PGconn do instead is the subject of SharedConn.                  *)
(*                                                                         *)
(* Request texts contain no quote character and one byte per character.    *)
(*                                                                         *)
(* A definition whose name extends that of the definition below it         *)
(* (RowsWithAny, FreshTokenOfId, ...) is a faulty variant of it: the         *)
(* properties are tried against the variants as well (README, Mutants).    *)
(***************************************************************************)
EXTENDS Integers, Sequences, FiniteSets

CONSTANTS
    Conns,          \* client connections, one request at a time each
    Threads,        \* libwebsockets service threads
    Tsi,            \* the thread that serves each connection
    Stems,          \* what tells texts apart, their length aside
    Usernames, Passwords, FirstNames, LastNames,     \* register, login, edit
    AdminFlags,     \* the values of edit_me's "admin" field
    ContractNames, Descriptions, Prices, Attachments,    \* request_contract
    PageLimit,      \* LIMIT 50 of list_contracts
    MaxUsers, MaxContracts, MaxTokens, MaxTime,      \* bounds
    None            \* an absent optional field, SQL NULL

(***************************************************************************)
(* Texts.  "full" is exactly the column's width (and the width that the    *)
(* code clips or copies to), "long" is longer, "overread" is a full text   *)
(* followed by whatever lies behind an unterminated copy of it.            *)
(***************************************************************************)
Text   == [s : Stems, l : {"short", "full", "long"}]
Stored == [s : Stems, l : {"short", "full"}]
Shown  == [s : Stems, l : {"short", "full", "long", "overread"}]
Hash   == [pbkdf2 : Passwords]
Status == 1

(***************************************************************************)
(* Prices.  "fine" has more than the six decimals of "%f", "huge" is       *)
(* longer than the 128 byte buffer it is formatted into, "nonfinite" is    *)
(* inf or nan; "rounded" and "cut" are what is stored of the first two.    *)
(***************************************************************************)
Asked   == {"negative", "plain", "fine", "huge", "nonfinite"}
Amounts == Asked \cup {"rounded", "cut"}

ASSUME ConnAssumption == Tsi \in [Conns -> Threads]
ASSUME InputAssumption ==
    /\ Usernames \subseteq Text /\ FirstNames \subseteq Text
    /\ LastNames \subseteq Text /\ ContractNames \subseteq Text
    /\ Descriptions \subseteq Text /\ AdminFlags \subseteq BOOLEAN
ASSUME PriceAssumption ==
    Prices \subseteq Asked
ASSUME BoundAssumption ==
    /\ PageLimit \in Nat /\ MaxUsers \in Nat /\ MaxContracts \in Nat
    /\ MaxTokens \in Nat /\ MaxTime \in Nat

(***************************************************************************)
(* Access tokens.  n > 0 is the n-th token drawn from RAND_bytes; -n is    *)
(* its first 32 characters; Junk is any text that no row will ever hold.   *)
(***************************************************************************)
Junk   == 0
Cut(t) == IF t > 0 THEN -t ELSE t

(***************************************************************************)
(* What PQescapeLiteral with a length, a VARCHAR column, and a strncpy     *)
(* into a buffer of exactly the column's width do to a text or a token.    *)
(***************************************************************************)
Clip(t)      == IF t.l = "long" THEN [t EXCEPT !.l = "full"] ELSE t
Fits(t)      == t.l # "long"
CopyOut(t)   == IF t.l = "full" THEN {t, [t EXCEPT !.l = "overread"]} ELSE {t}
CopyToken(t) == {Cut(t), Junk}
PwdHash(p)   == [pbkdf2 |-> p]

(***************************************************************************)
(* The columns that request_contract computes from a request.              *)
(***************************************************************************)
StoredPrice(p) == IF p = "fine" THEN "rounded" ELSE IF p = "huge" THEN "cut" ELSE p
StoredAttachment(a) == IF a \in {"empty", "oversized"} THEN None ELSE a
StoredDescription(d) == IF d = None THEN None ELSE Clip(d)

VARIABLES
    users, contracts,           \* the tables, as sets of rows
    nextUser, nextContract,     \* their SERIAL sequences
    dbUp,                       \* the connection behind db_conn is usable
    nextTok,                    \* tokens below it have been drawn
    now,                        \* time(NULL)
    pc,                         \* where each connection's request stands
    job,                        \* locals of a handler between two queries
    reply, body,                \* the response waiting in pss->out_data
    known                       \* which token was delivered for which user

db    == <<users, contracts, nextUser, nextContract>>
vars  == <<db, dbUp, nextTok, now, pc, job, reply, body, known>>

(***************************************************************************)
(* Types.                                                                  *)
(***************************************************************************)
User == [id : Nat, username : Stored, password : Hash, firstname : Stored,
         lastname : Stored, admin : BOOLEAN, token : Nat]
Contract == [id : Nat, name : Stored, description : Stored \cup {None},
             price : Amounts, attachment : Attachments \cup {None},
             status : Nat, user : Nat, created_at : Nat]
WhoRow == [username : Stored, firstName : Stored, lastName : Stored]
WhoShown == [username : Shown, firstName : Shown, lastName : Shown]
View == [id : Nat, name : Stored, description : Text \cup {None},
         price : Amounts, attachment : Attachments \cup {None},
         status : Nat, created_at : Nat, by_user : WhoShown]
Profile == [username : Stored, password : Hash, firstName : Stored,
            lastName : Stored, admin : BOOLEAN]
Request == [name : Text, description : Text \cup {None}, price : Prices,
            attachment : Attachments \cup {None}]
ASSUME NoneAssumption ==
    None \notin Text \cup Passwords \cup Attachments \cup WhoRow \cup Request

\* since and next are the time and the next contract's id at the first query;
\* the program has no such variables.
Job == [token : Int, uid : Nat, admin : BOOLEAN, since : Nat, next : Nat,
        who : WhoRow \cup {None}, req : Request \cup {None}]
Kinds == {"none", "Login", "Register", "GetMe", "EditMe", "RequestContract",
          "ListContracts", "CheckContract",
          "WrongPassword", "Failed", "UserExists", "InvalidToken",
          "InvalidId", "NegativePrice", "DbMessage"}
Reply == [kind : Kinds, token : Int, uid : Nat]

NoReply == [kind |-> "none", token |-> Junk, uid |-> 0]
NoJob   == [token |-> Junk, uid |-> 0, admin |-> FALSE, since |-> 0, next |-> 0,
            who |-> None, req |-> None]

\* The rows an UPDATE or INSERT may leave: username is UNIQUE, and the texts
\* are no wider than their columns.
UniqueUsernames(S) ==
    \A r1, r2 \in S : r1.username = r2.username => r1.id = r2.id
NarrowRows(S) ==
    \A r \in S : Fits(r.username) /\ Fits(r.firstname) /\ Fits(r.lastname)

\* The tables as the schema statements of main() leave them.
Init ==
    /\ users = {} /\ contracts = {} /\ nextUser = 1 /\ nextContract = 1
    /\ dbUp = TRUE /\ nextTok = 1 /\ now = 0
    /\ pc = [c \in Conns |-> "idle"]
    /\ job = [c \in Conns |-> NoJob]
    /\ reply = [c \in Conns |-> NoReply]
    /\ body = [c \in Conns |-> <<>>]
    /\ known = {}

-----------------------------------------------------------------------------
(***************************************************************************)
(* The steps every handler is made of.                                     *)
(***************************************************************************)
\* A service thread inside a handler serves no other connection.
Free(c) == \A d \in Conns : Tsi[d] = Tsi[c] => pc[d] \notin {"insert", "page"}

Receive(c) == pc[c] = "idle" /\ Free(c)

RowsWithAny(t) == IF t = Junk THEN users ELSE {r \in users : r.token = t}
\* SELECT/UPDATE ... WHERE token = t
RowsWith(t) == {r \in users : r.token = t}

FreshTokenConstant == 1
FreshTokenOfId == nextUser
\* b64_encode of 32 bytes from RAND_bytes: never drawn before.
FreshToken == nextTok

\* Clients present the tokens they were given, or something else.
Presented == {k.token : k \in known} \cup {Junk}

\* The response is finalised and stored in pss; tok and uid say which token
\* it carries and whose, rows are the records it carries.
AnswerWith(c, kind, tok, uid, rows) ==
    /\ pc' = [pc EXCEPT ![c] = "reply"]
    /\ job' = [job EXCEPT ![c] = NoJob]
    /\ reply' = [reply EXCEPT ![c] = [kind |-> kind, token |-> tok, uid |-> uid]]
    /\ body' = [body EXCEPT ![c] = rows]

AnswerToken(c, kind, tok, uid) == AnswerWith(c, kind, tok, uid, <<>>)
AnswerRows(c, kind, rows)      == AnswerWith(c, kind, Junk, 0, rows)
AnswerError(c, kind)           == AnswerWith(c, kind, Junk, 0, <<>>)

\* The handler goes on to its second query with the locals j.
Proceed(c, l, j) ==
    /\ pc' = [pc EXCEPT ![c] = l]
    /\ job' = [job EXCEPT ![c] = j]
    /\ UNCHANGED <<reply, body>>

\* The query found the connection dead or died on it.  Nothing in the
\* program ever calls PQreset: db_conn stays dead for this process.
DbLost(c, kind) == dbUp' = FALSE /\ AnswerError(c, kind)

DbAnswers == dbUp /\ dbUp' = TRUE

\* SELECT ... INNER JOIN users u ON contracts."user" = u.id
ViewOf(r, u) ==
    [id |-> r.id, name |-> r.name, description |-> r.description,
     price |-> r.price, attachment |-> r.attachment, status |-> r.status,
     created_at |-> r.created_at,
     by_user |-> [username |-> u.username, firstName |-> u.firstname,
                  lastName |-> u.lastname]]
Joined(S) == {ViewOf(x[1], x[2]) : x \in {y \in S \X users : y[1].user = y[2].id}}

\* ORDER BY -created_at LIMIT PageLimit: ties come in any order.
Pages(S) ==
    {p \in UNION {[1..n -> S] : n \in 0..PageLimit} :
        /\ \A i, j \in DOMAIN p : i < j =>
               p[i] # p[j] /\ p[i].created_at >= p[j].created_at
        /\ \A v \in S : (\E i \in DOMAIN p : p[i] = v) \/
               (Len(p) = PageLimit /\
                \A i \in DOMAIN p : p[i].created_at >= v.created_at)}

-----------------------------------------------------------------------------
(***************************************************************************)
(* login.c                                                                 *)
(***************************************************************************)
Login(c) ==
    /\ Receive(c)
    /\ \E u \in Usernames, p \in Passwords :
         LET rows == {r \in users : r.username = u /\ r.password = PwdHash(p)}
         IN  \/ DbAnswers /\ \E r \in rows : AnswerToken(c, "Login", r.token, r.id)
             \/ DbAnswers /\ rows = {} /\ AnswerError(c, "WrongPassword")
             \* a name that overflows the 8192 byte query cuts it short
             \/ DbAnswers /\ u.l = "long" /\ AnswerError(c, "Failed")
             \/ DbLost(c, "Failed")
    /\ UNCHANGED <<db, nextTok, now, known>>

(***************************************************************************)
(* register.c.  The INSERT has three failures: a value wider than its      *)
(* column (found before the row's id is drawn), a taken username (found    *)
(* after), and a lost connection, before or after the row is committed.    *)
(***************************************************************************)
NewUser(u, p, f, l) ==
    [id |-> nextUser, username |-> u, password |-> PwdHash(p), firstname |-> f,
     lastname |-> l, admin |-> FALSE, token |-> FreshToken]

InsertUser(c, row) ==
    LET fits == NarrowRows({row})
        free == UniqueUsernames(users \cup {row})
    IN  \/ /\ DbAnswers /\ ~fits
           /\ AnswerError(c, "DbMessage")
           /\ UNCHANGED <<users, nextUser>>
        \/ /\ DbAnswers /\ fits /\ ~free
           /\ nextUser' = nextUser + 1
           /\ AnswerError(c, "UserExists")
           /\ UNCHANGED users
        \/ /\ dbUp /\ fits /\ free
           /\ users' = users \cup {row}
           /\ nextUser' = nextUser + 1
           /\ \/ DbAnswers /\ AnswerToken(c, "Register", row.token, row.id)
              \/ DbLost(c, "DbMessage")
        \/ /\ DbLost(c, "DbMessage")
           /\ UNCHANGED <<users, nextUser>>

Register(c) ==
    /\ Receive(c)
    /\ nextUser <= MaxUsers /\ nextTok <= MaxTokens
    /\ nextTok' = nextTok + 1
    /\ \E u \in Usernames, p \in Passwords, f \in FirstNames, l \in LastNames :
          InsertUser(c, NewUser(u, p, f, l))
    /\ UNCHANGED <<contracts, nextContract, now, known>>

(***************************************************************************)
(* get_me.c                                                                *)
(***************************************************************************)
ProfileOf(r) == [username |-> r.username, password |-> r.password,
                 firstName |-> r.firstname, lastName |-> r.lastname,
                 admin |-> r.admin]

GetMe(c) ==
    /\ Receive(c)
    /\ \E t \in Presented :
         LET rows == RowsWith(t)
         IN  \/ DbAnswers /\ \E r \in rows : AnswerRows(c, "GetMe", <<ProfileOf(r)>>)
             \/ DbAnswers /\ rows = {} /\ AnswerError(c, "InvalidToken")
             \/ DbLost(c, "DbMessage")
    /\ UNCHANGED <<db, nextTok, now, known>>

(***************************************************************************)
(* edit_me.c.  "admin" is always written; a new token is drawn only when   *)
(* the username or the password is in the request.  Otherwise the answer   *)
(* carries a 32 byte copy of the token that came with the request.  An     *)
(* UPDATE that matches no row is a success.                                *)
(***************************************************************************)
RegeneratesForName(u, p) == u # None
Regenerates(u, p) == u # None \/ p # None

EditedReinserted(r, u, p, f, l, a, tok) ==
    [id        |-> nextUser,
     username  |-> IF u = None THEN r.username ELSE Clip(u),
     password  |-> IF p = None THEN r.password ELSE PwdHash(p),
     firstname |-> IF f = None THEN r.firstname ELSE Clip(f),
     lastname  |-> IF l = None THEN r.lastname ELSE Clip(l),
     admin     |-> a,
     token     |-> IF Regenerates(u, p) THEN tok ELSE r.token]
EditedWritesBack(r, u, p, f, l, a, tok) ==
    [id        |-> r.id,
     username  |-> IF u = None THEN r.username ELSE Clip(u),
     password  |-> IF p = None THEN r.password ELSE PwdHash(p),
     firstname |-> IF f = None THEN r.firstname ELSE Clip(f),
     lastname  |-> IF l = None THEN r.lastname ELSE Clip(l),
     admin     |-> a,
     token     |-> IF Regenerates(u, p) THEN tok ELSE Cut(r.token)]
Edited(r, u, p, f, l, a, tok) ==
    [id        |-> r.id,
     username  |-> IF u = None THEN r.username ELSE Clip(u),
     password  |-> IF p = None THEN r.password ELSE PwdHash(p),
     firstname |-> IF f = None THEN r.firstname ELSE Clip(f),
     lastname  |-> IF l = None THEN r.lastname ELSE Clip(l),
     admin     |-> a,
     token     |-> IF Regenerates(u, p) THEN tok ELSE r.token]

EditedTable(t, u, p, f, l, a) ==
    (users \ RowsWith(t)) \cup
    {Edited(r, u, p, f, l, a, FreshToken) : r \in RowsWith(t)}

\* The UPDATE and the answer; toks and uids say what a success may answer.  A
\* constraint's name in the error is taken for that of the username.
UpdateUsers(c, table, toks, uids) ==
    \/ /\ dbUp /\ NarrowRows(table) /\ UniqueUsernames(table)
       /\ users' = table
       /\ \/ DbAnswers /\ \E tok \in toks, uid \in uids :
                AnswerToken(c, "EditMe", tok, uid)
          \/ DbLost(c, "DbMessage")
    \/ /\ DbAnswers /\ ~(NarrowRows(table) /\ UniqueUsernames(table))
       /\ AnswerError(c, IF NarrowRows(table) THEN "UserExists" ELSE "DbMessage")
       /\ UNCHANGED users
    \/ /\ DbLost(c, "DbMessage")
       /\ UNCHANGED users

EditMe(c) ==
    /\ Receive(c)
    /\ \E t \in Presented, u \in Usernames \cup {None}, p \in Passwords \cup {None},
          f \in FirstNames \cup {None}, l \in LastNames \cup {None}, a \in AdminFlags :
         /\ Regenerates(u, p) => nextTok <= MaxTokens
         /\ nextTok' = IF Regenerates(u, p) THEN nextTok + 1 ELSE nextTok
         /\ UpdateUsers(c, EditedTable(t, u, p, f, l, a),
                        IF Regenerates(u, p) THEN {FreshToken} ELSE CopyToken(t),
                        IF RowsWith(t) = {} THEN {0} ELSE {r.id : r \in RowsWith(t)})
    /\ UNCHANGED <<contracts, nextUser, nextContract, now, known>>

-----------------------------------------------------------------------------
(***************************************************************************)
(* request_contract.c: SELECT the requester, then INSERT the contract with *)
(* what the SELECT returned.                                               *)
(***************************************************************************)
WhoOf(r) == [username |-> r.username, firstName |-> r.firstname,
             lastName |-> r.lastname]

RequestJobUndated(t, r, q) ==
    [token |-> t, uid |-> r.id, admin |-> FALSE, since |-> 0, next |-> nextContract,
     who |-> WhoOf(r), req |-> q]
RequestJob(t, r, q) ==
    [token |-> t, uid |-> r.id, admin |-> FALSE, since |-> now, next |-> nextContract,
     who |-> WhoOf(r), req |-> q]

RequestContract(c) ==
    /\ Receive(c)
    /\ nextContract <= MaxContracts
    /\ \E t \in Presented, n \in ContractNames, d \in Descriptions \cup {None},
          p \in Prices, a \in Attachments \cup {None} :
         LET q == [name |-> n, description |-> d, price |-> p, attachment |-> a]
         IN  \/ DbAnswers /\ RowsWith(t) = {} /\ AnswerError(c, "InvalidToken")
             \/ DbAnswers /\ RowsWith(t) # {} /\ p = "negative"
                          /\ AnswerError(c, "NegativePrice")
             \/ DbAnswers /\ p # "negative"
                          /\ \E r \in RowsWith(t) : Proceed(c, "insert", RequestJob(t, r, q))
             \/ DbLost(c, "DbMessage")
    /\ UNCHANGED <<db, nextTok, now, known>>

EchoWhole(q, id, at, who) ==
    [id |-> id, name |-> q.name, description |-> q.description,
     price |-> q.price, attachment |-> q.attachment,
     status |-> Status, created_at |-> at, by_user |-> who]
\* What the answer shows: the request as it came, except the attachment.
Echo(q, id, at, who) ==
    [id |-> id, name |-> q.name, description |-> q.description,
     price |-> q.price, attachment |-> StoredAttachment(q.attachment),
     status |-> Status, created_at |-> at, by_user |-> who]

RowOfNamed(j, id, at) ==
    LET named == {u \in users : u.username = j.who.username}
    IN  [id |-> id, name |-> j.req.name,
         description |-> StoredDescription(j.req.description),
         price |-> StoredPrice(j.req.price),
         attachment |-> StoredAttachment(j.req.attachment),
         status |-> Status, user |-> IF named = {} THEN 0 ELSE (CHOOSE u \in named : TRUE).id,
         created_at |-> at]
\* The row that the INSERT adds, if it breaks none of the table's rules.
RowOf(j, id, at) ==
    [id |-> id, name |-> j.req.name,
     description |-> StoredDescription(j.req.description),
     price |-> StoredPrice(j.req.price),
     attachment |-> StoredAttachment(j.req.attachment),
     status |-> Status, user |-> j.uid, created_at |-> at]

\* nan and inf are no SQL literals; name is VARCHAR(64); "user" is a foreign key.
Insertable(row) ==
    /\ row.price # "nonfinite" /\ Fits(row.name)
    /\ \E u \in users : u.id = row.user

InsertContract(c, at, row) ==
    \/ /\ dbUp /\ Insertable(row)
       /\ contracts' = contracts \cup {row}
       /\ nextContract' = nextContract + 1
       /\ \/ /\ DbAnswers
             /\ \E un \in CopyOut(job[c].who.username),
                   fn \in CopyOut(job[c].who.firstName),
                   ln \in CopyOut(job[c].who.lastName) :
                  AnswerWith(c, "RequestContract", Junk, job[c].uid,
                    <<Echo(job[c].req, nextContract, at,
                           [username |-> un, firstName |-> fn, lastName |-> ln])>>)
          \/ DbLost(c, "DbMessage")
    \/ /\ DbAnswers /\ ~Insertable(row)
       /\ AnswerError(c, "DbMessage")
       /\ UNCHANGED <<contracts, nextContract>>
    \/ /\ DbLost(c, "DbMessage")
       /\ UNCHANGED <<contracts, nextContract>>

\* time(NULL) is read somewhere between the two queries: at.
RequestContractInsert(c) ==
    /\ pc[c] = "insert"
    /\ \E at \in job[c].since..now :
          InsertContract(c, at, RowOf(job[c], nextContract, at))
    /\ UNCHANGED <<users, nextUser, nextTok, now, known>>

(***************************************************************************)
(* list_contracts.c: SELECT id and admin, then one of two queries.         *)
(***************************************************************************)
ListJob(t, r) ==
    [token |-> t, uid |-> r.id, admin |-> r.admin, since |-> now, next |-> nextContract,
     who |-> None, req |-> None]

ListContracts(c) ==
    /\ Receive(c)
    /\ \E t \in Presented :
         \/ DbAnswers /\ RowsWith(t) = {} /\ AnswerError(c, "InvalidToken")
         \/ DbAnswers /\ \E r \in RowsWith(t) : Proceed(c, "page", ListJob(t, r))
         \/ DbLost(c, "DbMessage")
    /\ UNCHANGED <<db, nextTok, now, known>>

ListedInverted(j) == {r \in contracts : ~j.admin \/ r.user = j.uid}
\* The rows the second query selects from.
Listed(j) == {r \in contracts : j.admin \/ r.user = j.uid}

ListContractsQuery(c) ==
    /\ pc[c] = "page"
    /\ \/ DbAnswers /\ \E p \in Pages(Joined(Listed(job[c]))) :
                            AnswerRows(c, "ListContracts", p)
       \/ DbLost(c, "DbMessage")
    /\ UNCHANGED <<db, nextTok, now, known>>

(***************************************************************************)
(* check_contract.c reads no token, only the id.                           *)
(***************************************************************************)
CheckContract(c) ==
    /\ Receive(c)
    /\ \E id \in 0..MaxContracts :
         LET rows == Joined({r \in contracts : r.id = id})
         IN  \/ DbAnswers /\ \E v \in rows : AnswerRows(c, "CheckContract", <<v>>)
             \/ DbAnswers /\ rows = {} /\ AnswerError(c, "InvalidId")
             \/ DbLost(c, "DbMessage")
    /\ UNCHANGED <<db, nextTok, now, known>>

-----------------------------------------------------------------------------
(***************************************************************************)
(* Around the handlers: the response reaches the client or is lost with    *)
(* its connection, seconds pass, and the process is killed and started     *)
(* again by supervisor, which drops and creates the tables.                *)
(***************************************************************************)
Tokened == {"Login", "Register", "EditMe"}

Forget(c) ==
    /\ pc' = [pc EXCEPT ![c] = "idle"]
    /\ reply' = [reply EXCEPT ![c] = NoReply]
    /\ body' = [body EXCEPT ![c] = <<>>]

Deliver(c) ==
    /\ pc[c] = "reply" /\ Free(c)
    /\ known' = IF reply[c].kind \in Tokened
                THEN known \cup {[token |-> reply[c].token, uid |-> reply[c].uid]}
                ELSE known
    /\ Forget(c)
    /\ UNCHANGED <<db, dbUp, nextTok, now, job>>

LoseReply(c) ==
    /\ pc[c] = "reply"
    /\ Forget(c)
    /\ UNCHANGED <<db, dbUp, nextTok, now, job, known>>

Tick ==
    /\ now < MaxTime
    /\ now' = now + 1
    /\ UNCHANGED <<db, dbUp, nextTok, pc, job, reply, body, known>>

Restart ==
    /\ users' = {} /\ contracts' = {} /\ nextUser' = 1 /\ nextContract' = 1
    /\ dbUp' = TRUE
    /\ pc' = [c \in Conns |-> "idle"]
    /\ job' = [c \in Conns |-> NoJob]
    /\ reply' = [c \in Conns |-> NoReply]
    /\ body' = [c \in Conns |-> <<>>]
    /\ UNCHANGED <<nextTok, now, known>>

Handle(c) ==
    \/ Login(c) \/ Register(c) \/ GetMe(c) \/ EditMe(c)
    \/ RequestContract(c) \/ RequestContractInsert(c)
    \/ ListContracts(c) \/ ListContractsQuery(c) \/ CheckContract(c)
    \/ Deliver(c) \/ LoseReply(c)

Next == (\E c \in Conns : Handle(c)) \/ Tick \/ Restart

Spec == Init /\ [][Next]_vars

-----------------------------------------------------------------------------
(***************************************************************************)
(* Properties.                                                             *)
(***************************************************************************)

StoreTypes ==
    /\ users \subseteq User /\ contracts \subseteq Contract
    /\ nextUser \in Nat /\ nextContract \in Nat
    /\ dbUp \in BOOLEAN /\ nextTok \in Nat \ {0} /\ now \in Nat
    /\ known \subseteq [token : Int, uid : Nat]

ConnTypes ==
    /\ pc \in [Conns -> {"idle", "insert", "page", "reply"}]
    /\ job \in [Conns -> Job]
    /\ \A c \in Conns : pc[c] = "insert" => job[c].who # None /\ job[c].req # None
    /\ reply \in [Conns -> Reply]
    /\ body \in [Conns -> Seq(View) \cup Seq(Profile)]

\* Every variable holds a value of the kind the code stores in it: rows no
\* wider than the schema's columns and with whole tokens (never the 32 byte
\* copies that edit_me makes), replies and locals as the handlers build them.
TypeOK == StoreTypes /\ ConnTypes

\* The tokens clients hold or are about to be sent, with the user each was
\* issued for.
Grants == known \cup
    {[token |-> reply[c].token, uid |-> reply[c].uid] :
        c \in {d \in Conns : reply[d].kind \in Tokened}}

\* A token the service handed out, however long ago and before however many
\* restarts, opens no account but the one it was handed out for: neither in
\* a later request nor in one that is between its two queries.
SessionIntegrity ==
    /\ \A g \in Grants, r \in users : r.token = g.token => r.id = g.uid
    /\ \A c \in Conns, r \in users :
          pc[c] \in {"insert", "page"} /\ r.token = job[c].token => r.id = job[c].uid

\* "SELECT ... WHERE token" finds at most one row although the column is not
\* UNIQUE: no two users hold the same token.
TokensDistinct ==
    \A r1, r2 \in users : r1.token = r2.token => r1 = r2

\* A token that was replaced, or whose tables were dropped, is never valid
\* again: whatever edit_me, register and main() do, no earlier token returns.
NoTokenResurrection ==
    [][\A t \in 1..(nextTok - 1) :
         (\E r \in users' : r.token = t) => (\E r \in users : r.token = t)]_vars

\* A changed username or password ends the sessions opened before: the step
\* that changes either in a user's row replaces the token in the same row.
CredentialChangeRotates ==
    [][\A r \in users, q \in users' :
         r.id = q.id /\ (r.username # q.username \/ r.password # q.password)
           => q.token # r.token]_vars

\* A user's row changes or goes away only by a restart or by a client that
\* was given the row's current token for that very user.
OnlyHolderEdits ==
    [][users' = {} \/
       \A r \in users : r \in users' \/ [token |-> r.token, uid |-> r.id] \in known]_vars

\* Between its two queries a handler's user id still names a row, so the
\* INSERT never meets the foreign key and the page query never loses its user.
RequesterExists ==
    \A c \in Conns : pc[c] \in {"insert", "page"} => \E r \in users : r.id = job[c].uid

\* request_contract answers from its own variables instead of reading the row
\* back: the id it answers with is that of a stored contract of the requester,
\* and the answer agrees with the row as far as the columns allow.
EchoMatchesStore ==
    \A c \in Conns : reply[c].kind = "RequestContract" =>
        \E r \in contracts :
            /\ r.id = body[c][1].id /\ r.user = reply[c].uid
            /\ r.name = body[c][1].name
            /\ r.description = StoredDescription(body[c][1].description)
            /\ r.price = StoredPrice(body[c][1].price)
            /\ r.attachment = body[c][1].attachment
            /\ r.created_at = body[c][1].created_at
            /\ r.status = body[c][1].status

\* A listed page shows the requester each of his contracts unless the page is
\* full of contracts at least as new, and to a user who was no administrator
\* when his token was looked up it shows nothing else.
PageShowsOwn ==
    [][\A c \in Conns :
         pc[c] = "page" /\ reply'[c].kind = "ListContracts" =>
           /\ \A r \in contracts : r.user = job[c].uid =>
                \/ \E i \in DOMAIN body'[c] : body'[c][i].id = r.id
                \/ /\ Len(body'[c]) >= PageLimit
                   /\ \A i \in DOMAIN body'[c] : body'[c][i].created_at >= r.created_at
           /\ ~job[c].admin => \A i \in DOMAIN body'[c] :
                \E r \in contracts : r.id = body'[c][i].id /\ r.user = job[c].uid]_vars

\* A contract is filed under the account that the client's token was given out
\* for, although edits may have renamed the account, replaced the token and
\* given the old name to somebody else since the handler's first query.
FiledByHolder ==
    [][\A q \in contracts' \ contracts : \E c \in Conns :
         /\ pc[c] = "insert" /\ pc'[c] # "insert"
         /\ [token |-> job[c].token, uid |-> q.user] \in known
         /\ \E u \in users : u.id = q.user]_vars

\* Times follow requests: a contract that was stored before the request of
\* another came in is no newer, so that ORDER BY -created_at never puts it
\* before the other except on a tie.  Ids and times of contracts whose handlers
\* overlap on two threads may be in opposite orders.
RequestsKeepOrder ==
    [][\A c \in Conns, q \in contracts' \ contracts :
         pc[c] = "insert" /\ pc'[c] # "insert" =>
           \A r \in contracts : r.id < job[c].next =>
               r.id < q.id /\ r.created_at <= q.created_at]_vars

\* An edit made under a valid token is answered with a token that is valid:
\* the checker and the app go on with the answered token as their credential.
EditMeReplyIsCurrent ==
    \A c \in Conns : reply[c].kind = "EditMe" /\ reply[c].uid # 0 =>
        \E r \in users : r.token = reply[c].token

-----------------------------------------------------------------------------
(***************************************************************************)
(* The invariant behind the properties of tokens.                          *)
(***************************************************************************)
\* Rows hold drawn tokens and drawn ids, each in one row only.
RowsInv ==
    /\ \A r \in users : r.token \in 1..(nextTok - 1) /\ r.id < nextUser
    /\ TokensDistinct
    /\ \A r1, r2 \in users : r1.id = r2.id => r1 = r2

\* Token t has been drawn, or is none, and opens at most the account uid.
Bound(t, uid) == t < nextTok /\ \A r \in users : r.token = t => r.id = uid

\* Whatever a client or a handler holds is bound to the user it is held for.
HeldInv ==
    /\ \A k \in known : Bound(k.token, k.uid)
    /\ \A c \in Conns : reply[c].kind \in Tokened => Bound(reply[c].token, reply[c].uid)
    /\ \A c \in Conns : pc[c] \in {"insert", "page"} => Bound(job[c].token, job[c].uid)

\* No session reaches a row it was not opened for, because every token in
\* the table was drawn once and written to one row.
SessionInv == RowsInv /\ HeldInv /\ RequesterExists
=============================================================================
