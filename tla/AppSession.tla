---------------------------- MODULE AppSession -----------------------------
(***************************************************************************)
(* The Android app's session: the access token in its SharedPreferences,   *)
(* the screens that read and write it, and the calls that api/Client.kt    *)
(* enqueues, against the token column of the service.  Calls run beside    *)
(* each other and beside the user; each answer is applied on the UI thread *)
(* when it comes, whatever screen is shown by then.  A call may fail for   *)
(* the app and still reach the service.  edit_me always carries a          *)
(* username here, so the service draws a new token for it, also when the   *)
(* UPDATE matched no row (edit_me.c).                                      *)
(*                                                                         *)
(* "list" stands for the screens of MainActivity that store nothing (list, *)
(* new contract, details).  who and spoilt are history variables: whose    *)
(* session it is, and which of the accidents the properties except have    *)
(* happened.                                                               *)
(***************************************************************************)
EXTENDS Naturals

CONSTANTS
    Accounts,   \* accounts of the one user of the phone
    Calls,      \* calls that can be under way at once
    MaxTokens,  \* bound: tokens the service draws
    NoOne       \* no account

ASSUME AppAssumption == MaxTokens \in Nat /\ NoOne \notin Accounts

VARIABLES
    row,        \* token column of each account, 0: not registered
    nextTok,    \* tokens below it have been drawn
    mem, disk,  \* SharedPreferences in memory and in its file
    screen,
    call,       \* the calls under way
    who,        \* whose session the user opened last and did not close
    spoilt      \* accidents so far

app     == <<mem, disk, screen>>
service == <<row, nextTok>>
vars    == <<row, nextTok, mem, disk, screen, call, who, spoilt>>

Prefs     == [token : Nat, url : BOOLEAN]
Screens   == {"off", "login", "register", "list", "profile"}
Accidents == {"overlap", "late", "answer", "unwritten"}

(***************************************************************************)
(* A call: tok is the token it presents, served and res are the service's  *)
(* side, heard says that the app still waits for the answer and home that  *)
(* the fragment that made the call has not been left.                      *)
(***************************************************************************)
Call == [op : {"none", "login", "register", "edit"}, acc : Accounts \cup {NoOne},
         tok : Nat, served : BOOLEAN, res : Nat, heard : BOOLEAN, home : BOOLEAN]

NoCall == [op |-> "none", acc |-> NoOne, tok |-> 0, served |-> FALSE, res |-> 0,
           heard |-> FALSE, home |-> FALSE]

Init ==
    /\ row = [a \in Accounts |-> 0] /\ nextTok = 1
    /\ mem = [token |-> 0, url |-> FALSE] /\ disk = mem
    /\ screen = "off" /\ call = [c \in Calls |-> NoCall]
    /\ who = NoOne /\ spoilt = {}

Under(c) == call[c].op # "none"

\* What is left of a call when nobody in the app waits for it any more.
Orphaned(k) == IF k.served THEN NoCall ELSE [k EXCEPT !.heard = FALSE, !.home = FALSE]

Spoil(p, accident) == IF p THEN {accident} ELSE {}

-----------------------------------------------------------------------------
(***************************************************************************)
(* Screens.                                                                *)
(***************************************************************************)
\* MainActivity starts with the list, which goes back to the login screen
\* unless both preferences are there.
Main(m) == IF m.token = 0 \/ ~m.url THEN "login" ELSE "list"

\* The fragments of the calls under way are left.
LeaveHome == call' = [c \in Calls |-> [call[c] EXCEPT !.home = FALSE]]

Launch ==
    /\ screen = "off"
    /\ screen' = IF mem.token = 0 THEN "login" ELSE Main(mem)
    /\ UNCHANGED <<service, mem, disk, call, who, spoilt>>

SwitchToRegistration ==
    /\ screen = "login" /\ screen' = "register"
    /\ UNCHANGED <<service, mem, disk, call, who, spoilt>>

SwitchToLogin ==
    /\ screen = "register" /\ screen' = "login"
    /\ LeaveHome
    /\ UNCHANGED <<service, mem, disk, who, spoilt>>

OpenProfile ==
    /\ screen = "list"
    /\ screen' = IF mem.token = 0 THEN "login" ELSE "profile"
    /\ UNCHANGED <<service, mem, disk, call, who, spoilt>>

OpenList ==
    /\ screen = "profile" /\ screen' = Main(mem)
    /\ LeaveHome
    /\ UNCHANGED <<service, mem, disk, who, spoilt>>

LogoutApplied ==
    /\ screen = "profile" /\ screen' = "login"
    /\ mem' = [mem EXCEPT !.token = 0]
    /\ LeaveHome
    /\ who' = NoOne
    /\ spoilt' = spoilt \cup Spoil(\E c \in Calls : Under(c), "late")
    /\ UNCHANGED <<service, disk>>
\* edit(commit = true) writes the file at once.
Logout ==
    /\ screen = "profile" /\ screen' = "login"
    /\ mem' = [mem EXCEPT !.token = 0] /\ disk' = mem'
    /\ LeaveHome
    /\ who' = NoOne
    /\ spoilt' = spoilt \cup Spoil(\E c \in Calls : Under(c), "late")
    /\ UNCHANGED service

\* The user leaves the app; its process lives on.
Leave ==
    /\ screen # "off" /\ screen' = "off"
    /\ LeaveHome
    /\ UNCHANGED <<service, mem, disk, who, spoilt>>

-----------------------------------------------------------------------------
(***************************************************************************)
(* Calls.                                                                  *)
(***************************************************************************)
Enqueue(c, op, acc, tok) ==
    /\ ~Under(c)
    /\ call' = [call EXCEPT ![c] = [op |-> op, acc |-> acc, tok |-> tok, served |-> FALSE,
                                    res |-> 0, heard |-> TRUE, home |-> TRUE]]
    /\ spoilt' = spoilt \cup Spoil(\E d \in Calls : Under(d), "overlap")

Login(c) ==
    /\ screen = "login"
    /\ \E a \in Accounts : Enqueue(c, "login", a, 0)
    /\ UNCHANGED <<service, app, who>>

\* The server's address is stored before the call, with apply().
Register(c) ==
    /\ screen = "register"
    /\ \E a \in Accounts : Enqueue(c, "register", a, 0)
    /\ mem' = [mem EXCEPT !.url = TRUE]
    /\ UNCHANGED <<service, disk, screen, who>>

\* The profile is left with the token, so the code's return for want of one
\* is not taken.
EditMe(c) ==
    /\ screen = "profile" /\ mem.token # 0
    /\ Enqueue(c, "edit", NoOne, mem.token)
    /\ mem' = [mem EXCEPT !.url = TRUE]
    /\ UNCHANGED <<service, disk, screen, who>>

EditKeepsToken(m, tok) == m
EditStores(m, tok) == [m EXCEPT !.token = tok]

\* onSuccess of login and register: commit, then MainActivity.  A fragment
\* that was left may have lost its activity by then, which ends the process.
OpenSession(c) ==
    /\ mem' = [mem EXCEPT !.token = call[c].res] /\ disk' = mem'
    /\ who' = call[c].acc
    /\ \/ /\ screen' = IF screen \in {"list", "profile"} THEN screen ELSE Main(mem')
          /\ call' = [d \in Calls |-> IF d = c THEN NoCall ELSE [call[d] EXCEPT !.home = FALSE]]
          /\ UNCHANGED spoilt
       \/ /\ ~call[c].home
          /\ screen' = "off"
          /\ call' = [d \in Calls |-> IF d = c THEN NoCall ELSE Orphaned(call[d])]
          /\ spoilt' = spoilt \cup
               Spoil(\E d \in Calls \ {c} : call[d].op = "edit" /\ call[d].served, "answer")

\* The answer is applied on the UI thread; onFailure stores nothing.
Answer(c) ==
    /\ Under(c) /\ call[c].served /\ call[c].heard
    /\ \/ /\ call[c].res # 0 /\ call[c].op \in {"login", "register"}
          /\ OpenSession(c)
       \/ /\ call[c].res # 0 /\ call[c].op = "edit"
          /\ mem' = EditStores(mem, call[c].res)
          /\ call' = [call EXCEPT ![c] = NoCall]
          /\ UNCHANGED <<disk, screen, who, spoilt>>
       \/ /\ call[c].res = 0
          /\ call' = [call EXCEPT ![c] = NoCall]
          /\ UNCHANGED <<app, who, spoilt>>
    /\ UNCHANGED service

\* A timeout or a broken connection; a request already sent may still be
\* handled by the service.
GiveUp(c) ==
    /\ Under(c) /\ call[c].heard
    /\ call' = [call EXCEPT ![c] = Orphaned(call[c])]
    /\ spoilt' = spoilt \cup Spoil(call[c].op = "edit" /\ call[c].served, "answer")
    /\ UNCHANGED <<service, app, who>>

-----------------------------------------------------------------------------
(***************************************************************************)
(* The service, as ContractService describes it, and what happens to the   *)
(* app's process and file.                                                 *)
(***************************************************************************)
\* The request is handled with the result tok; nobody waits for it, or the
\* answer is on its way.
Result(c, tok) ==
    call' = [call EXCEPT ![c] = IF call[c].heard
                                THEN [call[c] EXCEPT !.served = TRUE, !.res = tok]
                                ELSE NoCall]

\* The database may be lost after it has committed: the row has changed and
\* the answer is an error.
Serve(c) ==
    /\ Under(c) /\ ~call[c].served
    /\ \/ /\ call[c].op = "login"
          /\ Result(c, row[call[c].acc])
          /\ UNCHANGED <<service, spoilt>>
       \/ /\ call[c].op = "register" /\ row[call[c].acc] = 0 /\ nextTok <= MaxTokens
          /\ row' = [row EXCEPT ![call[c].acc] = nextTok]
          /\ nextTok' = nextTok + 1
          /\ \E res \in {nextTok, 0} : Result(c, res)
          /\ UNCHANGED spoilt
       \/ /\ call[c].op = "edit" /\ nextTok <= MaxTokens
          /\ row' = [a \in Accounts |-> IF row[a] = call[c].tok THEN nextTok ELSE row[a]]
          /\ nextTok' = nextTok + 1
          /\ \E res \in {nextTok, 0} :
                /\ Result(c, res)
                /\ spoilt' = spoilt \cup Spoil(~call[c].heard \/ res = 0, "answer")
       \* an error: the username is taken, or the database failed
       \/ /\ Result(c, 0)
          /\ UNCHANGED <<service, spoilt>>
    /\ UNCHANGED <<app, who>>

\* apply() writes the file some time later.
Flush ==
    /\ disk # mem /\ disk' = mem
    /\ UNCHANGED <<service, mem, screen, call, who, spoilt>>

\* The process is killed: what was only in memory, and every answer, is lost.
Kill ==
    /\ mem' = disk /\ screen' = "off"
    /\ call' = [c \in Calls |-> Orphaned(call[c])]
    /\ spoilt' = spoilt
         \cup Spoil(\E c \in Calls : call[c].op = "edit" /\ call[c].served, "answer")
         \cup Spoil(mem.token # disk.token, "unwritten")
    /\ UNCHANGED <<service, disk, who>>

OfCall(c) == Login(c) \/ Register(c) \/ EditMe(c) \/ Answer(c) \/ GiveUp(c) \/ Serve(c)

Next ==
    \/ Launch \/ SwitchToRegistration \/ SwitchToLogin \/ OpenProfile \/ OpenList
    \/ Logout \/ Leave \/ Flush \/ Kill
    \/ \E c \in Calls : OfCall(c)

Spec == Init /\ [][Next]_vars

-----------------------------------------------------------------------------
(***************************************************************************)
(* Properties.                                                             *)
(***************************************************************************)

\* Every variable holds what the app and the service store in it; a call that
\* is not under way is forgotten, and the service drew every token around.
TypeOK ==
    /\ row \in [Accounts -> 0..(nextTok - 1)] /\ nextTok \in Nat \ {0}
    /\ mem \in Prefs /\ disk \in Prefs /\ mem.token < nextTok /\ disk.token < nextTok
    /\ screen \in Screens /\ who \in Accounts \cup {NoOne} /\ spoilt \subseteq Accidents
    /\ call \in [Calls -> Call]
    /\ \A c \in Calls : /\ call[c].tok < nextTok /\ call[c].res < nextTok
                        /\ ~Under(c) => call[c] = NoCall
                        /\ call[c].op \in {"login", "register"} => call[c].acc \in Accounts

\* While somebody's session is open the app holds the token of that account
\* or has it on the way in the answer of an edit -- unless calls overlapped,
\* the answer of an edit was lost, or the process died with a token that
\* apply() had not written yet.
HoldsOwn ==
    spoilt \subseteq {"late"} /\ who # NoOne =>
        \/ row[who] = mem.token
        \/ \E c \in Calls : /\ call[c].op = "edit" /\ call[c].served /\ call[c].heard
                            /\ row[who] = call[c].res

\* A lost answer or a lost write costs the session at most: the token in
\* memory, or the one that a killed process finds in the file, opens no
\* account but that of the session.
OpensNoOther ==
    spoilt \cap {"overlap", "late"} = {} =>
        \A a \in Accounts : row[a] # 0 /\ row[a] \in {mem.token, disk.token} => a = who

\* The token that the app stores is that of the session's account, and where a
\* timeout of a call that was served, an error after a commit or a killed
\* process leave it with a stale one, it is nobody else's.
StoredTokenIsOwn == HoldsOwn /\ OpensNoOther

\* After a logout no token comes back, neither by a late answer nor after the
\* process was killed, unless a call was under way when the user logged out.
LogoutSticks ==
    who = NoOne /\ "late" \notin spoilt =>
        mem.token = 0 /\ disk.token = 0

-----------------------------------------------------------------------------
(***************************************************************************)
(* The invariant behind the properties.                                    *)
(***************************************************************************)
\* Calls that did not overlap are alone; an edit that changed the account's
\* token is waited for, and one that is still to be served presents the
\* account's token; a session that is being opened has the account's token.
SessionKept ==
    spoilt \subseteq {"late"} =>
        /\ \A c, d \in Calls : Under(c) /\ Under(d) => c = d
        /\ \A c \in Calls : call[c].op \in {"login", "register"} =>
              (call[c].served /\ call[c].res # 0 => row[call[c].acc] = call[c].res)
        /\ who # NoOne =>
              /\ row[who] # 0
              /\ \/ row[who] = mem.token
                 \/ \E c \in Calls : /\ call[c].op = "edit" /\ call[c].served /\ call[c].heard
                                     /\ row[who] = call[c].res
              /\ \A c \in Calls : call[c].op = "edit" =>
                    IF call[c].served /\ call[c].res # 0
                    THEN row[who] = call[c].res
                    ELSE row[who] = mem.token /\ (~call[c].served => call[c].tok = row[who])

\* The token k opens no account but that of a.
OnlyOpens(k, a) == k = 0 \/ \A b \in Accounts : row[b] = k => b = a

\* Tokens are distinct, and edits present one.
Distinct ==
    /\ \A a, b \in Accounts : row[a] = row[b] /\ row[a] # 0 => a = b
    /\ \A c \in Calls : call[c].op = "edit" => call[c].tok # 0

\* As long as calls were alone every token around is the session's or, in the
\* answer of a login, that of the account that logs in.
Separate ==
    spoilt \cap {"overlap", "late"} = {} =>
        /\ \A c, d \in Calls : Under(c) /\ Under(d) => c = d
        /\ OnlyOpens(mem.token, who) /\ OnlyOpens(disk.token, who)
        /\ \A c \in Calls :
              /\ call[c].op = "edit" =>
                    OnlyOpens(call[c].tok, who) /\ OnlyOpens(call[c].res, who)
              /\ call[c].op \in {"login", "register"} => OnlyOpens(call[c].res, call[c].acc)

\* A phone nobody is logged in on holds no token and waits for no edit.
LoggedOut ==
    who = NoOne /\ "late" \notin spoilt =>
        /\ mem.token = 0 /\ disk.token = 0
        /\ \A c \in Calls : call[c].op # "edit"
=============================================================================
