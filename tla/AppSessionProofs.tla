-------------------------- MODULE AppSessionProofs -------------------------
(***************************************************************************)
(* Theorems about AppSession, for any number of accounts, calls and tokens.*)
(***************************************************************************)
EXTENDS AppSession, TLAPS

-----------------------------------------------------------------------------
(***************************************************************************)
(* Types.                                                                  *)
(***************************************************************************)

\* A call as TypeOK describes it, when n tokens have been drawn.
GoodCall(k, n) ==
    /\ k \in Call /\ k.tok < n /\ k.res < n
    /\ k.op = "none" => k = NoCall
    /\ k.op \in {"login", "register"} => k.acc \in Accounts

\* No call is a good call.
LEMMA NoCallGood ==
    ASSUME NEW n \in Nat \ {0} PROVE GoodCall(NoCall, n)
BY DEF GoodCall, NoCall, Call

\* A call whose fragment is left, or that nobody waits for, stays a good one.
LEMMA LeftGood ==
    ASSUME NEW n \in Nat \ {0}, NEW k, GoodCall(k, n)
    PROVE  GoodCall([k EXCEPT !.home = FALSE], n) /\ GoodCall(Orphaned(k), n)
BY NoCallGood DEF GoodCall, NoCall, Call, Orphaned

\* A served call is a call.
LEMMA ServedCall ==
    ASSUME NEW k \in Call, NEW tok \in Nat
    PROVE  [k EXCEPT !.served = TRUE, !.res = tok] \in Call
BY DEF Call

\* TypeOK after a step that draws no token and leaves good calls.
LEMMA TypeKept ==
    ASSUME TypeOK, UNCHANGED service,
           mem' \in Prefs, disk' \in Prefs, mem'.token < nextTok, disk'.token < nextTok,
           screen' \in Screens, who' \in Accounts \cup {NoOne}, spoilt' \subseteq Accidents,
           NEW f, call' = [c \in Calls |-> f[c]], \A c \in Calls : GoodCall(f[c], nextTok)
    PROVE  TypeOK'
BY DEF TypeOK, service, GoodCall, Under

\* Calls that a step leaves alone are good.
LEMMA CallsGood ==
    ASSUME TypeOK PROVE \A c \in Calls : GoodCall(call[c], nextTok)
BY DEF TypeOK, GoodCall, Under

\* The steps of the screens keep the types.
LEMMA ScreenType ==
    ASSUME TypeOK, \/ Launch \/ SwitchToRegistration \/ SwitchToLogin \/ OpenProfile
                   \/ OpenList \/ Logout \/ Leave \/ Flush \/ Kill
    PROVE  TypeOK'
<1> USE DEF Screens, Accidents, Prefs, Spoil
<1>0. /\ nextTok \in Nat \ {0} /\ mem \in Prefs /\ disk \in Prefs
      /\ mem.token < nextTok /\ disk.token < nextTok /\ screen \in Screens
      /\ who \in Accounts \cup {NoOne} /\ spoilt \subseteq Accidents
      /\ call = [c \in Calls |-> call[c]]
  BY DEF TypeOK
<1>1. CASE Launch \/ SwitchToRegistration \/ OpenProfile \/ Flush
  BY <1>0, <1>1, CallsGood, TypeKept
     DEF Launch, SwitchToRegistration, OpenProfile, Flush, Main, service
<1> DEFINE left == [c \in Calls |-> [call[c] EXCEPT !.home = FALSE]]
           orphans == [c \in Calls |-> Orphaned(call[c])]
<1>2. \A c \in Calls : GoodCall(left[c], nextTok) /\ GoodCall(orphans[c], nextTok)
  BY <1>0, CallsGood, LeftGood
<1>3. left = [c \in Calls |-> left[c]] /\ orphans = [c \in Calls |-> orphans[c]]
  OBVIOUS
<1>e. LeaveHome => call' = left
  BY DEF LeaveHome
<1>f. Kill => call' = orphans
  BY DEF Kill
<1> HIDE DEF left, orphans
<1>4. CASE SwitchToLogin \/ OpenList \/ Leave
  BY <1>0, <1>2, <1>3, <1>4, <1>e, TypeKept DEF SwitchToLogin, OpenList, Leave, Main, service
<1>5. CASE Logout
  BY <1>0, <1>2, <1>3, <1>5, <1>e, TypeKept DEF Logout, service
<1>6. CASE Kill
  BY <1>0, <1>2, <1>3, <1>6, <1>f, TypeKept DEF Kill, service
<1> QED BY <1>1, <1>4, <1>5, <1>6

\* Making a call keeps the types.
LEMMA EnqueueType ==
    ASSUME TypeOK, NEW c \in Calls, Login(c) \/ Register(c) \/ EditMe(c)
    PROVE  TypeOK'
<1> USE DEF Screens, Accidents, Prefs, Spoil
<1>0. /\ nextTok \in Nat \ {0} /\ mem \in Prefs /\ disk \in Prefs
      /\ mem.token < nextTok /\ disk.token < nextTok /\ screen \in Screens
      /\ who \in Accounts \cup {NoOne} /\ spoilt \subseteq Accidents
      /\ call \in [Calls -> Call]
  BY DEF TypeOK
<1>1. PICK op \in {"login", "register", "edit"}, acc \in Accounts \cup {NoOne},
           tok \in {0, mem.token} :
             Enqueue(c, op, acc, tok) /\ (op # "edit" => acc \in Accounts)
  BY DEF Login, Register, EditMe
<1> DEFINE k == [op |-> op, acc |-> acc, tok |-> tok, served |-> FALSE, res |-> 0,
                 heard |-> TRUE, home |-> TRUE]
           f == [d \in Calls |-> IF d = c THEN k ELSE call[d]]
<1>2. GoodCall(k, nextTok)
  <2>1. tok \in Nat /\ tok < nextTok /\ 0 \in Nat /\ 0 < nextTok
    BY <1>0
  <2>2. k \in Call
    BY <2>1 DEF Call
  <2> QED BY <1>1, <2>1, <2>2 DEF GoodCall
<1>3. call' = f
  BY <1>0, <1>1 DEF Enqueue
<1>4. \A d \in Calls : GoodCall(f[d], nextTok)
  BY <1>2, CallsGood
<1>5. spoilt' \subseteq Accidents
  BY <1>0, <1>1 DEF Enqueue
<1>6. f = [d \in Calls |-> f[d]]
  OBVIOUS
<1>7. /\ UNCHANGED <<service, disk, screen, who>> /\ mem' \in Prefs /\ mem'.token < nextTok
  BY <1>0 DEF Login, Register, EditMe, app, service
<1> HIDE DEF f
<1> QED BY <1>0, <1>3, <1>4, <1>5, <1>6, <1>7, TypeKept DEF service

\* The end of a call keeps the types.
LEMMA EndType ==
    ASSUME TypeOK, NEW c \in Calls, Answer(c) \/ GiveUp(c)
    PROVE  TypeOK'
<1> USE DEF Screens, Accidents, Prefs, Spoil
<1>0. /\ nextTok \in Nat \ {0} /\ mem \in Prefs /\ disk \in Prefs
      /\ mem.token < nextTok /\ disk.token < nextTok /\ screen \in Screens
      /\ who \in Accounts \cup {NoOne} /\ spoilt \subseteq Accidents
      /\ call \in [Calls -> Call] /\ call[c].res < nextTok /\ call[c] \in Call
  BY DEF TypeOK
<1> DEFINE Ends(f) == call' = f /\ f = [d \in Calls |-> f[d]]
                      /\ \A d \in Calls : GoodCall(f[d], nextTok)
<1>n. GoodCall(NoCall, nextTok)
  BY <1>0, NoCallGood
<1>g. \A d \in Calls : GoodCall(call[d], nextTok)
  BY CallsGood
<1>o. \A d \in Calls : /\ GoodCall(Orphaned(call[d]), nextTok)
                       /\ GoodCall([call[d] EXCEPT !.home = FALSE], nextTok)
  BY <1>0, <1>g, LeftGood
<1>1. \E f : Ends(f)
  <2>1. CASE call' = [call EXCEPT ![c] = NoCall]
    <3> DEFINE f == [d \in Calls |-> IF d = c THEN NoCall ELSE call[d]]
    <3>1. call' = f
      BY <1>0, <2>1
    <3>2. Ends(f)
      BY <3>1, <1>n, <1>g
    <3> QED BY <3>2
  <2>2. CASE call' = [call EXCEPT ![c] = Orphaned(call[c])]
    <3> DEFINE f == [d \in Calls |-> IF d = c THEN Orphaned(call[d]) ELSE call[d]]
    <3>1. call' = f
      BY <1>0, <2>2
    <3>2. Ends(f)
      BY <3>1, <1>o, <1>g
    <3> QED BY <3>2
  <2>3. CASE call' = [d \in Calls |-> IF d = c THEN NoCall ELSE [call[d] EXCEPT !.home = FALSE]]
    <3> DEFINE f == [d \in Calls |-> IF d = c THEN NoCall ELSE [call[d] EXCEPT !.home = FALSE]]
    <3>1. Ends(f)
      BY <2>3, <1>o, <1>n
    <3> QED BY <3>1
  <2>4. CASE call' = [d \in Calls |-> IF d = c THEN NoCall ELSE Orphaned(call[d])]
    <3> DEFINE f == [d \in Calls |-> IF d = c THEN NoCall ELSE Orphaned(call[d])]
    <3>1. Ends(f)
      BY <2>4, <1>o, <1>n
    <3> QED BY <3>1
  <2> QED BY <2>1, <2>2, <2>3, <2>4 DEF Answer, GiveUp, OpenSession
<1>2. PICK f : Ends(f)
  BY <1>1
<1>3. UNCHANGED service
  BY DEF Answer, GiveUp
<1>4. mem' \in Prefs /\ disk' \in Prefs /\ mem'.token < nextTok /\ disk'.token < nextTok
  BY <1>0 DEF Answer, GiveUp, OpenSession, EditStores, app, Call
<1>5. screen' \in Screens
  BY <1>0 DEF Answer, GiveUp, OpenSession, app, Main
<1>6. who' \in Accounts \cup {NoOne}
  BY <1>0 DEF Answer, GiveUp, OpenSession, Call
<1>7. spoilt' \subseteq Accidents
  BY <1>0 DEF Answer, GiveUp, OpenSession
<1> QED BY <1>2, <1>3, <1>4, <1>5, <1>6, <1>7, TypeKept

\* The service's step keeps the types.
LEMMA ServeType ==
    ASSUME TypeOK, NEW c \in Calls, Serve(c)
    PROVE  TypeOK'
<1>0. /\ nextTok \in Nat \ {0} /\ call \in [Calls -> Call] /\ call[c] \in Call
      /\ row \in [Accounts -> 0..(nextTok - 1)]
      /\ mem \in Prefs /\ disk \in Prefs /\ mem.token < nextTok /\ disk.token < nextTok
      /\ screen \in Screens /\ who \in Accounts \cup {NoOne} /\ spoilt \subseteq Accidents
      /\ call[c].tok < nextTok /\ call[c].res < nextTok /\ Under(c)
  BY DEF TypeOK, Serve
<1>1. /\ nextTok' \in {nextTok, nextTok + 1} /\ row' \in [Accounts -> 0..(nextTok' - 1)]
      /\ UNCHANGED <<mem, disk, screen, who>> /\ spoilt' \subseteq Accidents
  <2>1. /\ nextTok' \in {nextTok, nextTok + 1} /\ UNCHANGED <<mem, disk, screen, who>>
        /\ spoilt' \subseteq Accidents
    BY <1>0 DEF Serve, service, app, Spoil, Accidents
  <2>2. \/ row' = row
        \/ nextTok' = nextTok + 1 /\ row' = [row EXCEPT ![call[c].acc] = nextTok]
        \/ nextTok' = nextTok + 1
           /\ row' = [a \in Accounts |-> IF row[a] = call[c].tok THEN nextTok ELSE row[a]]
    BY DEF Serve, service
  <2> QED BY <1>0, <2>1, <2>2
<1>2. \E tok \in Nat : tok < nextTok' /\ Result(c, tok)
  <2>1. CASE Result(c, 0)
    BY <1>0, <1>1, <2>1
  <2>2. CASE nextTok' = nextTok + 1 /\ Result(c, nextTok)
    BY <1>0, <2>2
  <2>3. CASE call[c].op = "login" /\ Result(c, row[call[c].acc]) /\ UNCHANGED service
    <3>1. call[c].acc \in Accounts
      BY <2>3, CallsGood DEF GoodCall
    <3> QED BY <1>0, <2>3, <3>1 DEF service
  <2> QED BY <2>1, <2>2, <2>3 DEF Serve
<1>3. PICK tok \in Nat : tok < nextTok' /\ Result(c, tok)
  BY <1>2
<1> DEFINE k == IF call[c].heard THEN [call[c] EXCEPT !.served = TRUE, !.res = tok] ELSE NoCall
<1>4. GoodCall(k, nextTok')
  <2>1. CASE call[c].heard
    <3>1. k = [op |-> call[c].op, acc |-> call[c].acc, tok |-> call[c].tok, served |-> TRUE,
               res |-> tok, heard |-> call[c].heard, home |-> call[c].home]
      BY <1>0, <2>1 DEF Call
    <3>2. k.op # "none" /\ (k.op \in {"login", "register"} => k.acc \in Accounts)
      BY <1>0, <3>1, CallsGood DEF GoodCall, Under
    <3>3. k \in Call
      BY <1>0, <2>1, ServedCall
    <3> QED BY <1>0, <1>1, <1>3, <3>1, <3>2, <3>3 DEF GoodCall, Call
  <2>2. CASE ~call[c].heard
    BY <1>0, <1>1, <2>2, NoCallGood
  <2> QED BY <2>1, <2>2
<1>5. call' = [call EXCEPT ![c] = k]
  BY <1>3 DEF Result
<1>6. \A d \in Calls : GoodCall(call[d], nextTok')
  BY <1>0, <1>1, CallsGood DEF GoodCall, Call
<1> HIDE DEF k
<1>7. \A d \in Calls : GoodCall(call'[d], nextTok')
  BY <1>0, <1>4, <1>5, <1>6
<1>8. call' \in [Calls -> Call]
  BY <1>0, <1>4, <1>5 DEF GoodCall
<1> QED BY <1>0, <1>1, <1>7, <1>8 DEF TypeOK, GoodCall, Under, Prefs

\* The preferences, the screens and the calls keep their types, and every
\* token that the app, its file or a call holds was drawn by the service.
THEOREM AppTypes == Spec => []TypeOK
<1>1. Init => TypeOK
  <2>1. GoodCall(NoCall, 1)
    BY NoCallGood
  <2> QED BY <2>1 DEF Init, TypeOK, Prefs, Screens, Accidents, GoodCall, Under
<1>2. TypeOK /\ [Next]_vars => TypeOK'
  <2>1. TypeOK /\ UNCHANGED vars => TypeOK'
    BY DEF TypeOK, vars, Under
  <2> QED BY <2>1, ScreenType, EnqueueType, EndType, ServeType DEF Next, OfCall
<1> QED BY <1>1, <1>2, PTL DEF Spec

-----------------------------------------------------------------------------
(***************************************************************************)
(* Logged out.                                                             *)
(***************************************************************************)

\* A step that makes no call leaves every call what it was, or ends it.
LEMMA OpsKept ==
    ASSUME TypeOK, NEW c \in Calls, NEW d \in Calls,
           \/ LeaveHome \/ Kill \/ Answer(c) \/ GiveUp(c) \/ Serve(c)
    PROVE  call'[d].op \in {call[d].op, "none"}
<1>1. NoCall.op = "none" /\ Orphaned(call[d]).op \in {call[d].op, "none"}
      /\ [call[d] EXCEPT !.home = FALSE].op = call[d].op
      /\ \A tok : [call[d] EXCEPT !.served = TRUE, !.res = tok].op = call[d].op
  BY DEF NoCall, Orphaned, TypeOK, Call
<1>2. CASE LeaveHome \/ Kill
  BY <1>1, <1>2 DEF LeaveHome, Kill
<1>3. CASE Answer(c)
  BY <1>1, <1>3 DEF Answer, OpenSession, TypeOK
<1>4. CASE GiveUp(c)
  BY <1>1, <1>4 DEF GiveUp, TypeOK
<1>5. CASE Serve(c)
  <2>1. PICK tok : Result(c, tok)
    BY <1>5 DEF Serve
  <2> QED BY <1>1, <2>1 DEF Result, TypeOK
<1> QED BY <1>2, <1>3, <1>4, <1>5

\* Accidents are not forgotten.
LEMMA SpoiltGrows ==
    ASSUME [Next]_vars PROVE spoilt \subseteq spoilt'
BY DEF Next, OfCall, vars, app, service, Launch, SwitchToRegistration, SwitchToLogin,
   OpenProfile, OpenList, Logout, Leave, Flush, Kill, Login, Register, EditMe, Enqueue,
   Answer, OpenSession, GiveUp, Serve

\* Every step keeps a phone that nobody is logged in on without a token.
LEMMA LoggedOutStep ==
    ASSUME TypeOK, LoggedOut, [Next]_vars
    PROVE  LoggedOut'
<1> SUFFICES ASSUME who' = NoOne, "late" \notin spoilt'
             PROVE  /\ mem'.token = 0 /\ disk'.token = 0
                    /\ \A d \in Calls : call'[d].op # "edit"
  BY DEF LoggedOut
<1>1. "late" \notin spoilt
  BY SpoiltGrows
<1>2. mem \in Prefs /\ disk \in Prefs /\ call \in [Calls -> Call]
  BY DEF TypeOK
<1>3. CASE Logout
  <2>1. \A d \in Calls : ~Under(d)
    BY <1>3 DEF Logout, Spoil
  <2>2. \A d \in Calls : call'[d].op \in {call[d].op, "none"}
    BY <1>3, OpsKept DEF Logout
  <2>3. mem'.token = 0 /\ disk'.token = 0
    BY <1>2, <1>3 DEF Logout, Prefs
  <2> QED BY <2>1, <2>2, <2>3 DEF Under
<1>4. CASE who' = who
  <2>1. mem.token = 0 /\ disk.token = 0 /\ \A d \in Calls : call[d].op # "edit"
    BY <1>1, <1>4 DEF LoggedOut
  <2>2. CASE Launch \/ SwitchToRegistration \/ OpenProfile \/ Flush \/ UNCHANGED vars
    BY <2>1, <2>2 DEF Launch, SwitchToRegistration, OpenProfile, Flush, vars
  <2>3. CASE SwitchToLogin \/ OpenList \/ Leave
    BY <2>1, <2>3, OpsKept DEF SwitchToLogin, OpenList, Leave
  <2>4. CASE Kill
    BY <2>1, <2>4, OpsKept DEF Kill
  <2>5. ASSUME NEW c \in Calls, Login(c) \/ Register(c)
        PROVE  /\ mem'.token = 0 /\ disk'.token = 0
               /\ \A d \in Calls : call'[d].op # "edit"
    <3>1. PICK op \in {"login", "register"}, acc \in Accounts : Enqueue(c, op, acc, 0)
      BY <2>5 DEF Login, Register
    <3>2. \A d \in Calls : call'[d].op # "edit"
      BY <1>2, <2>1, <3>1 DEF Enqueue
    <3> QED BY <1>2, <2>1, <2>5, <3>2 DEF Login, Register, app, Prefs
  <2>6. ASSUME NEW c \in Calls, EditMe(c) PROVE FALSE
    BY <2>1, <2>6 DEF EditMe
  <2>7. ASSUME NEW c \in Calls, Answer(c) \/ GiveUp(c) \/ Serve(c)
        PROVE  /\ mem'.token = 0 /\ disk'.token = 0
               /\ \A d \in Calls : call'[d].op # "edit"
    <3>1. \A d \in Calls : call'[d].op # "edit"
      BY <2>1, <2>7, OpsKept
    <3>2. ~(Answer(c) /\ OpenSession(c) /\ call[c].op \in {"login", "register"})
      BY AppAssumption DEF OpenSession, TypeOK
    <3>3. UNCHANGED <<mem, disk>>
      BY <2>1, <2>7, <3>2 DEF Answer, GiveUp, Serve, app
    <3> QED BY <2>1, <3>1, <3>3
  <2> QED BY <1>3, <2>2, <2>3, <2>4, <2>5, <2>6, <2>7 DEF Next, OfCall, Logout
<1>5. who' = who \/ Logout \/ \E c \in Calls : Answer(c) /\ OpenSession(c)
                                /\ call[c].op \in {"login", "register"}
  BY DEF Next, OfCall, vars, app, Launch, SwitchToRegistration, SwitchToLogin,
     OpenProfile, OpenList, Leave, Flush, Kill, Login, Register, EditMe, Answer, GiveUp, Serve
<1>6. ~(\E c \in Calls : Answer(c) /\ OpenSession(c) /\ call[c].op \in {"login", "register"})
  BY AppAssumption DEF OpenSession, TypeOK
<1> QED BY <1>3, <1>4, <1>5, <1>6

-----------------------------------------------------------------------------
(***************************************************************************)
(* The open session.                                                       *)
(***************************************************************************)

\* What the invariant says once no accident but a late logout has happened.
Kept ==
    /\ \A c, d \in Calls : Under(c) /\ Under(d) => c = d
    /\ \A c \in Calls : call[c].op \in {"login", "register"} =>
          (call[c].served /\ call[c].res # 0 => row[call[c].acc] = call[c].res)
    /\ who # NoOne =>
          /\ row[who] # 0
          /\ \/ row[who] = mem.token
             \/ \E c \in Calls : /\ call[c].op = "edit" /\ call[c].served /\ call[c].heard
                                 /\ row[who] = call[c].res
          /\ \A c \in Calls : call[c].op = "edit" =>
                IF call[c].served /\ call[c].res # 0
                THEN row[who] = call[c].res
                ELSE row[who] = mem.token /\ (~call[c].served => call[c].tok = row[who])

\* A call looks to the service and to the UI thread as it did.
SameCall(d) ==
    /\ call'[d].op = call[d].op /\ call'[d].acc = call[d].acc /\ call'[d].tok = call[d].tok
    /\ call'[d].served = call[d].served /\ call'[d].res = call[d].res
    /\ call'[d].heard = call[d].heard

\* Leaving a screen changes nothing of a call but its home.
LEMMA LeaveSame ==
    ASSUME TypeOK, LeaveHome, NEW d \in Calls PROVE SameCall(d)
BY DEF LeaveHome, SameCall, TypeOK, Call

\* A call under way is the only one.
LEMMA OnlyCall ==
    ASSUME TypeOK, Kept, NEW c \in Calls, Under(c), NEW d \in Calls, d # c
    PROVE  call[d] = NoCall
BY DEF TypeOK, Kept

\* When no edit has been served the account's token is the stored one.
LEMMA StoredNow ==
    ASSUME Kept, who # NoOne, \A c \in Calls : ~(call[c].op = "edit" /\ call[c].served)
    PROVE  row[who] = mem.token
BY DEF Kept

\* A call that nobody waits for is one still to be served, or none.
LEMMA OrphanedCall ==
    ASSUME TypeOK, NEW d \in Calls
    PROVE  /\ Orphaned(call[d]).op \in {call[d].op, "none"} /\ ~Orphaned(call[d]).served
           /\ Orphaned(call[d]).op # "none" => Orphaned(call[d]).tok = call[d].tok
<1>1. CASE call[d].served
  BY <1>1 DEF Orphaned, NoCall
<1>2. CASE ~call[d].served
  BY <1>2 DEF Orphaned, TypeOK, Call
<1> QED BY <1>1, <1>2

\* The steps of the screens.
LEMMA ScreenKept ==
    ASSUME TypeOK, Kept, \/ Launch \/ SwitchToRegistration \/ SwitchToLogin \/ OpenProfile
                         \/ OpenList \/ Logout \/ Leave \/ Flush \/ UNCHANGED vars
    PROVE  Kept'
<1>1. UNCHANGED row /\ \A d \in Calls : SameCall(d)
  <2>1. CASE UNCHANGED <<row, call>>
    BY <2>1 DEF SameCall
  <2>2. CASE UNCHANGED row /\ LeaveHome
    BY <2>2, LeaveSame
  <2> QED BY <2>1, <2>2 DEF Launch, SwitchToRegistration, SwitchToLogin, OpenProfile,
             OpenList, Logout, Leave, Flush, vars, service
<1>2. who' = NoOne \/ UNCHANGED <<mem, who>>
  BY DEF Launch, SwitchToRegistration, SwitchToLogin, OpenProfile,
     OpenList, Logout, Leave, Flush, vars
<1>3. CASE who' = NoOne
  BY <1>1, <1>3 DEF Kept, SameCall, Under
<1>4. CASE UNCHANGED <<mem, who>>
  BY <1>1, <1>4 DEF Kept, SameCall, Under
<1> QED BY <1>2, <1>3, <1>4

\* The process dies with all it knew in the file.
LEMMA KillKept ==
    ASSUME TypeOK, Kept, Kill, spoilt' \subseteq {"late"}
    PROVE  Kept'
<1>1. /\ mem.token = disk.token
      /\ \A c \in Calls : ~(call[c].op = "edit" /\ call[c].served)
  BY DEF Kill, Spoil
<1>2. UNCHANGED <<row, who>> /\ mem'.token = mem.token
  BY <1>1 DEF Kill, service
<1>3. \A d \in Calls : /\ call'[d].op \in {call[d].op, "none"} /\ ~call'[d].served
                       /\ call'[d].op # "none" => call'[d].tok = call[d].tok
  BY OrphanedCall DEF Kill
<1>4. who # NoOne => row[who] = mem.token
  BY <1>1, StoredNow
<1> QED BY <1>1, <1>2, <1>3, <1>4 DEF Kept, Under

\* A call is made while none is under way.
LEMMA EnqueueKept ==
    ASSUME TypeOK, Kept, NEW c \in Calls, Login(c) \/ Register(c) \/ EditMe(c),
           spoilt' \subseteq {"late"}
    PROVE  Kept'
<1>1. PICK op \in {"login", "register", "edit"}, acc \in Accounts \cup {NoOne},
           tok \in {0, mem.token} :
         Enqueue(c, op, acc, tok) /\ (op = "edit" => tok = mem.token)
  BY DEF Login, Register, EditMe
<1>2. \A d \in Calls : ~Under(d)
  BY <1>1 DEF Enqueue, Spoil
<1>3. \A d \in Calls : d # c => call'[d].op = "none"
  BY <1>1, <1>2 DEF Enqueue, Under, TypeOK
<1>4. call'[c].op = op /\ call'[c].tok = tok /\ call'[c].served = FALSE
  BY <1>1 DEF Enqueue, TypeOK
<1>5. UNCHANGED <<row, who>> /\ mem'.token = mem.token
  BY DEF Login, Register, EditMe, app, service, TypeOK, Prefs
<1>6. who # NoOne => row[who] = mem.token
  BY <1>2, StoredNow DEF Under
<1> QED BY <1>1, <1>3, <1>4, <1>5, <1>6 DEF Kept, Under

\* After the last call under way has ended, the stored token must be right.
LEMMA EndedKept ==
    ASSUME \A d \in Calls : call'[d].op = "none",
           who' # NoOne => row'[who'] # 0 /\ row'[who'] = mem'.token
    PROVE  Kept'
BY DEF Kept, Under

\* The answer of the only call is applied.
LEMMA AnswerKept ==
    ASSUME TypeOK, Kept, NEW c \in Calls, Answer(c), spoilt' \subseteq {"late"}
    PROVE  Kept'
<1>1. Under(c) /\ call[c].served /\ UNCHANGED row
  BY DEF Answer, service
<1>2. \A d \in Calls : d # c => call[d].op = "none"
  BY <1>1, OnlyCall DEF NoCall
<1>3. \A d \in Calls : call'[d].op = "none"
  <2>1. call'[c] = NoCall
    BY DEF Answer, OpenSession, TypeOK
  <2> QED BY <1>2, <2>1, OpsKept DEF NoCall
<1>4. CASE call[c].res # 0 /\ call[c].op \in {"login", "register"} /\ OpenSession(c)
  <2>1. who' = call[c].acc /\ mem'.token = call[c].res
    BY <1>4 DEF OpenSession, TypeOK, Prefs
  <2>2. row[call[c].acc] = call[c].res
    BY <1>1, <1>4 DEF Kept
  <2> QED BY <1>1, <1>3, <1>4, <2>1, <2>2, EndedKept
<1>5. CASE call[c].res # 0 /\ call[c].op = "edit" /\ mem' = EditStores(mem, call[c].res)
           /\ UNCHANGED who
  <2>1. mem'.token = call[c].res
    BY <1>5 DEF EditStores, TypeOK, Prefs
  <2>2. who # NoOne => row[who] = call[c].res
    BY <1>1, <1>5 DEF Kept
  <2> QED BY <1>1, <1>3, <1>5, <2>1, <2>2, EndedKept
<1>6. CASE call[c].res = 0 /\ UNCHANGED <<mem, who>>
  <2>1. who # NoOne => row[who] = mem.token
    <3>1. CASE call[c].op = "edit"
      BY <1>6, <3>1 DEF Kept
    <3>2. CASE call[c].op # "edit"
      BY <1>2, <3>2, StoredNow
    <3> QED BY <3>1, <3>2
  <2>2. who # NoOne => row[who] # 0
    BY DEF Kept
  <2> QED BY <1>1, <1>3, <1>6, <2>1, <2>2, EndedKept
<1> QED BY <1>4, <1>5, <1>6 DEF Answer, app

\* The app stops waiting for the only call.
LEMMA GiveUpKept ==
    ASSUME TypeOK, Kept, NEW c \in Calls, GiveUp(c), spoilt' \subseteq {"late"}
    PROVE  Kept'
<1>1. Under(c) /\ ~(call[c].op = "edit" /\ call[c].served)
  BY DEF GiveUp, Spoil
<1>2. UNCHANGED <<row, mem, who>>
  BY DEF GiveUp, app, service
<1>3. \A d \in Calls : d # c => call[d].op = "none" /\ call'[d] = call[d]
  BY <1>1, OnlyCall DEF NoCall, GiveUp, TypeOK
<1>4. /\ call'[c].op \in {call[c].op, "none"} /\ ~call'[c].served
      /\ call'[c].op # "none" => call'[c].tok = call[c].tok
  BY OrphanedCall DEF GiveUp, TypeOK
<1>5. who # NoOne => row[who] = mem.token
  BY <1>1, <1>3, StoredNow
<1> QED BY <1>1, <1>2, <1>3, <1>4, <1>5 DEF Kept, Under

\* The service handles the only call.
LEMMA ServeKept ==
    ASSUME TypeOK, Kept, NEW c \in Calls, Serve(c), spoilt' \subseteq {"late"}
    PROVE  Kept'
<1>0. /\ Under(c) /\ ~call[c].served /\ UNCHANGED <<mem, who>>
      /\ call[c] \in Call /\ call \in [Calls -> Call]
      /\ row \in [Accounts -> 0..(nextTok - 1)] /\ nextTok \in Nat \ {0}
      /\ who \in Accounts \cup {NoOne}
  BY DEF Serve, app, TypeOK
<1>1. \A d \in Calls : d # c => call[d].op = "none"
  BY <1>0, OnlyCall DEF NoCall
<1>2. who # NoOne => row[who] = mem.token /\ row[who] # 0
  BY <1>0, <1>1, StoredNow DEF Kept
<1>3. ASSUME NEW tok, Result(c, tok)
      PROVE  /\ \A d \in Calls : d # c => call'[d].op = "none"
             /\ \/ call'[c].op = "none" /\ ~call[c].heard
                \/ /\ call'[c].op = call[c].op /\ call'[c].acc = call[c].acc
                   /\ call'[c].served /\ call'[c].heard /\ call'[c].res = tok
  BY <1>0, <1>1, <1>3 DEF Result, NoCall, Call
<1>4. CASE call[c].op = "login" /\ Result(c, row[call[c].acc]) /\ UNCHANGED service
  BY <1>0, <1>2, <1>3, <1>4 DEF Kept, Under, service
<1>5. CASE call[c].op = "register" /\ row[call[c].acc] = 0
           /\ (\E res \in {nextTok, 0} : Result(c, res))
           /\ row' = [row EXCEPT ![call[c].acc] = nextTok]
  <2>1. call[c].acc \in Accounts
    BY <1>5 DEF TypeOK
  <2>2. row'[call[c].acc] = nextTok
    BY <1>0, <1>5, <2>1
  <2>3. who # NoOne => row'[who] = row[who]
    BY <1>0, <1>2, <1>5
  <2>4. CASE Result(c, nextTok)
    BY <1>0, <1>2, <1>3, <1>5, <2>2, <2>3, <2>4 DEF Kept, Under
  <2>5. CASE Result(c, 0)
    BY <1>0, <1>2, <1>3, <1>5, <2>3, <2>5 DEF Kept, Under
  <2> QED BY <1>5, <2>4, <2>5
<1>6. CASE call[c].op = "edit" /\ Result(c, nextTok) /\ call[c].heard
           /\ row' = [a \in Accounts |-> IF row[a] = call[c].tok THEN nextTok ELSE row[a]]
  <2>1. who # NoOne => call[c].tok = row[who]
    BY <1>0, <1>6 DEF Kept
  <2>2. who # NoOne => row'[who] = nextTok
    BY <1>0, <1>6, <2>1
  <2>3. /\ call'[c].op = "edit" /\ call'[c].served /\ call'[c].heard /\ call'[c].res = nextTok
        /\ \A d \in Calls : d # c => call'[d].op = "none"
    BY <1>3, <1>6, <1>0 DEF Under
  <2> QED BY <1>0, <2>2, <2>3 DEF Kept, Under
<1>7. CASE Result(c, 0) /\ UNCHANGED service
  BY <1>0, <1>2, <1>3, <1>7 DEF Kept, Under, service
<1>8. ASSUME NEW res, spoilt' = spoilt \cup Spoil(~call[c].heard \/ res = 0, "answer")
      PROVE  call[c].heard /\ res # 0
  BY <1>8 DEF Spoil
<1> QED BY <1>4, <1>5, <1>6, <1>7, <1>8 DEF Serve

\* Every step keeps the invariant of the open session.
LEMMA SessionStep ==
    ASSUME TypeOK, SessionKept, [Next]_vars
    PROVE  SessionKept'
<1> SUFFICES ASSUME spoilt' \subseteq {"late"} PROVE Kept'
  BY DEF SessionKept, Kept
<1>1. Kept
  BY SpoiltGrows DEF SessionKept, Kept
<1> QED BY <1>1, ScreenKept, KillKept, EnqueueKept, AnswerKept, GiveUpKept, ServeKept
        DEF Next, OfCall

-----------------------------------------------------------------------------
(***************************************************************************)
(* Nobody else's session.                                                  *)
(***************************************************************************)

\* What Separate says once calls were alone.
Apart ==
    /\ \A c, d \in Calls : Under(c) /\ Under(d) => c = d
    /\ OnlyOpens(mem.token, who) /\ OnlyOpens(disk.token, who)
    /\ \A c \in Calls :
          /\ call[c].op = "edit" => OnlyOpens(call[c].tok, who) /\ OnlyOpens(call[c].res, who)
          /\ call[c].op \in {"login", "register"} => OnlyOpens(call[c].res, call[c].acc)

\* A call has ended, or carries no token that it did not carry.
Carries(d) ==
    \/ call'[d].op = "none"
    \/ /\ call'[d].op = call[d].op /\ call'[d].acc = call[d].acc
       /\ call'[d].tok = call[d].tok /\ call'[d].res = call[d].res

\* Leaving a fragment, ending a call and no longer waiting for it give it no
\* token.
LEMMA EndCarries ==
    ASSUME TypeOK, NEW d \in Calls,
           call'[d] \in {call[d], NoCall, Orphaned(call[d]), [call[d] EXCEPT !.home = FALSE]}
    PROVE  Carries(d)
<1>1. CASE call'[d] \in {call[d], NoCall}
  BY <1>1 DEF Carries, NoCall
<1>2. CASE call'[d] = [call[d] EXCEPT !.home = FALSE]
  BY <1>2 DEF Carries, TypeOK, Call
<1>3. CASE call'[d] = Orphaned(call[d])
  BY <1>3 DEF Carries, Orphaned, NoCall, TypeOK, Call
<1> QED BY <1>1, <1>2, <1>3

\* No step but the service's own gives a call a token, a new call aside.
LEMMA StepCarries ==
    ASSUME TypeOK,
           \/ Launch \/ SwitchToRegistration \/ SwitchToLogin \/ OpenProfile \/ OpenList
           \/ Logout \/ Leave \/ Flush \/ Kill \/ UNCHANGED vars
           \/ \E c \in Calls : Answer(c) \/ GiveUp(c)
    PROVE  UNCHANGED row /\ \A d \in Calls : Carries(d)
<1> DEFINE Ends(d) ==
      call'[d] \in {call[d], NoCall, Orphaned(call[d]), [call[d] EXCEPT !.home = FALSE]}
<1>1. CASE Launch \/ SwitchToRegistration \/ OpenProfile \/ Flush \/ UNCHANGED vars
  BY <1>1, EndCarries DEF Launch, SwitchToRegistration, OpenProfile, Flush, vars, service
<1>2. CASE SwitchToLogin \/ OpenList \/ Logout \/ Leave
  BY <1>2, EndCarries DEF SwitchToLogin, OpenList, Logout, Leave, LeaveHome, service
<1>3. CASE Kill
  BY <1>3, EndCarries DEF Kill, service
<1>4. ASSUME NEW c \in Calls, Answer(c) \/ GiveUp(c)
      PROVE  UNCHANGED row /\ \A d \in Calls : Carries(d)
  <2>1. \A d \in Calls : Ends(d)
    BY <1>4 DEF Answer, GiveUp, OpenSession, TypeOK
  <2> QED BY <1>4, <2>1, EndCarries DEF Answer, GiveUp, service
<1> QED BY <1>1, <1>2, <1>3, <1>4

\* A new call.
LEMMA NewCall ==
    ASSUME TypeOK, NEW c \in Calls, Login(c) \/ Register(c) \/ EditMe(c)
    PROVE  /\ UNCHANGED <<row, who, disk>> /\ mem'.token = mem.token
           /\ ~Under(c) /\ \A d \in Calls : d # c => call'[d] = call[d]
           /\ call'[c].res = 0
           /\ call'[c].op = "edit" => call'[c].tok = mem.token /\ mem.token # 0
           /\ "overlap" \notin spoilt' => \A d \in Calls : ~Under(d)
<1>1. PICK op \in {"login", "register", "edit"}, acc \in Accounts \cup {NoOne},
           tok \in {0, mem.token} :
         Enqueue(c, op, acc, tok) /\ (op = "edit" => tok = mem.token /\ mem.token # 0)
  BY DEF Login, Register, EditMe
<1>2. call'[c].op = op /\ call'[c].tok = tok /\ call'[c].res = 0 /\ ~Under(c)
  BY <1>1 DEF Enqueue, TypeOK
<1>3. \A d \in Calls : d # c => call'[d] = call[d]
  BY <1>1 DEF Enqueue, TypeOK
<1>4. "overlap" \notin spoilt' => \A d \in Calls : ~Under(d)
  BY <1>1 DEF Enqueue, Spoil
<1>5. UNCHANGED <<row, who, disk>> /\ mem'.token = mem.token
  BY DEF Login, Register, EditMe, app, service, TypeOK, Prefs
<1> QED BY <1>1, <1>2, <1>3, <1>4, <1>5

\* The service writes no token but one that it draws, and to one row only.
LEMMA ServeRows ==
    ASSUME TypeOK, Distinct, NEW c \in Calls, Serve(c)
    PROVE  /\ \A a \in Accounts : row'[a] \in {row[a], nextTok}
           /\ \A a, b \in Accounts : row'[a] = nextTok /\ row'[b] = nextTok => a = b
           /\ \A a \in Accounts : row[a] < nextTok
<1>1. /\ row \in [Accounts -> 0..(nextTok - 1)] /\ nextTok \in Nat \ {0}
      /\ \A a \in Accounts : row[a] \in Nat /\ row[a] < nextTok
  BY DEF TypeOK
<1>2. CASE UNCHANGED service
  BY <1>1, <1>2 DEF service
<1>3. CASE row' = [row EXCEPT ![call[c].acc] = nextTok]
  BY <1>1, <1>3
<1>4. CASE call[c].op = "edit"
           /\ row' = [a \in Accounts |-> IF row[a] = call[c].tok THEN nextTok ELSE row[a]]
  <2>1. call[c].tok # 0
    BY <1>4 DEF Distinct
  <2>2. \A a, b \in Accounts : row[a] = call[c].tok /\ row[b] = call[c].tok => a = b
    BY <2>1 DEF Distinct
  <2> QED BY <1>1, <1>4, <2>2
<1> QED BY <1>1, <1>2, <1>3, <1>4 DEF Serve

\* What the service makes of the call.
LEMMA ServeCall ==
    ASSUME TypeOK, NEW c \in Calls, Serve(c)
    PROVE  \E tok :
             /\ \A d \in Calls : d # c => call'[d] = call[d]
             /\ \/ call'[c].op = "none"
                \/ /\ call'[c].op = call[c].op /\ call'[c].acc = call[c].acc
                   /\ call'[c].tok = call[c].tok /\ call'[c].res = tok
             /\ \/ tok = 0
                \/ call[c].op = "login" /\ tok = row[call[c].acc] /\ UNCHANGED row
                \/ /\ call[c].op = "register" /\ tok = nextTok
                   /\ row' = [row EXCEPT ![call[c].acc] = nextTok]
                \/ /\ call[c].op = "edit" /\ tok = nextTok
                   /\ row' = [a \in Accounts |-> IF row[a] = call[c].tok THEN nextTok ELSE row[a]]
<1>1. ASSUME NEW tok, Result(c, tok)
      PROVE  /\ \A d \in Calls : d # c => call'[d] = call[d]
             /\ \/ call'[c].op = "none"
                \/ /\ call'[c].op = call[c].op /\ call'[c].acc = call[c].acc
                   /\ call'[c].tok = call[c].tok /\ call'[c].res = tok
  BY <1>1 DEF Result, NoCall, TypeOK, Call
<1>2. \E tok : /\ Result(c, tok)
               /\ \/ tok = 0
                  \/ call[c].op = "login" /\ tok = row[call[c].acc] /\ UNCHANGED row
                  \/ /\ call[c].op = "register" /\ tok = nextTok
                     /\ row' = [row EXCEPT ![call[c].acc] = nextTok]
                  \/ /\ call[c].op = "edit" /\ tok = nextTok
                     /\ row' = [a \in Accounts |->
                                  IF row[a] = call[c].tok THEN nextTok ELSE row[a]]
  BY DEF Serve, service
<1> QED BY <1>1, <1>2

\* Every step keeps tokens distinct.
LEMMA DistinctStep ==
    ASSUME TypeOK, Distinct, [Next]_vars PROVE Distinct'
<1>1. CASE UNCHANGED row /\ \A d \in Calls : Carries(d)
  BY <1>1 DEF Distinct, Carries
<1>2. ASSUME NEW c \in Calls, Login(c) \/ Register(c) \/ EditMe(c) PROVE Distinct'
  BY <1>2, NewCall DEF Distinct
<1>3. ASSUME NEW c \in Calls, Serve(c) PROVE Distinct'
  <2>1. \A d \in Calls : call'[d].op = "edit" => call'[d].tok # 0
    BY <1>3, ServeCall DEF Distinct
  <2> QED BY <1>3, <2>1, ServeRows DEF Distinct
<1> QED BY <1>1, <1>2, <1>3, StepCarries DEF Next, OfCall

\* A token that was drawn before opens nothing new when the service has
\* handled a call.
LEMMA StillOpens ==
    ASSUME TypeOK, Distinct, NEW c \in Calls, Serve(c), UNCHANGED who,
           NEW k \in Nat, k < nextTok, NEW a, OnlyOpens(k, a)
    PROVE  OnlyOpens(k, a)'
BY ServeRows DEF OnlyOpens, TypeOK

\* The service handles the only call.
LEMMA ServeApart ==
    ASSUME TypeOK, Distinct, Apart, NEW c \in Calls, Serve(c)
    PROVE  Apart'
<1>1. UNCHANGED <<mem, disk, who>> /\ Under(c)
  BY DEF Serve, app
<1>2. /\ mem.token \in Nat /\ disk.token \in Nat /\ mem.token < nextTok /\ disk.token < nextTok
      /\ \A d \in Calls : /\ call[d].tok \in Nat /\ call[d].res \in Nat
                          /\ call[d].tok < nextTok /\ call[d].res < nextTok
      /\ \A d \in Calls : call[d].op \in {"login", "register"} => call[d].acc \in Accounts
      /\ nextTok \in Nat \ {0} /\ row \in [Accounts -> 0..(nextTok - 1)]
  BY DEF TypeOK, Prefs, Call
<1>3. OnlyOpens(mem.token, who)' /\ OnlyOpens(disk.token, who)'
  <2>1. OnlyOpens(mem.token, who) /\ OnlyOpens(disk.token, who)
    BY DEF Apart
  <2> QED BY <1>1, <1>2, <2>1, StillOpens DEF OnlyOpens
<1>4. PICK tok :
             /\ \A d \in Calls : d # c => call'[d] = call[d]
             /\ \/ call'[c].op = "none"
                \/ /\ call'[c].op = call[c].op /\ call'[c].acc = call[c].acc
                   /\ call'[c].tok = call[c].tok /\ call'[c].res = tok
             /\ \/ tok = 0
                \/ call[c].op = "login" /\ tok = row[call[c].acc] /\ UNCHANGED row
                \/ /\ call[c].op = "register" /\ tok = nextTok
                   /\ row' = [row EXCEPT ![call[c].acc] = nextTok]
                \/ /\ call[c].op = "edit" /\ tok = nextTok
                   /\ row' = [a \in Accounts |-> IF row[a] = call[c].tok THEN nextTok ELSE row[a]]
  BY ServeCall
<1>5. \A d \in Calls : d # c => call'[d].op = "none"
  <2>1. \A d \in Calls : d # c => call[d].op = "none"
    BY <1>1 DEF Apart, Under
  <2> QED BY <1>4, <2>1
<1>6. ASSUME call'[c].op = "edit"
      PROVE  \A b \in Accounts : /\ row'[b] = call'[c].tok /\ call'[c].tok # 0 => b = who
                                 /\ row'[b] = call'[c].res /\ call'[c].res # 0 => b = who
  <2>1. call[c].op = "edit" /\ call'[c].tok = call[c].tok /\ call'[c].res = tok
    BY <1>4, <1>6
  <2>2. OnlyOpens(call[c].tok, who) /\ call[c].tok # 0
    BY <2>1 DEF Apart, Distinct
  <2>3. OnlyOpens(call[c].tok, who)'
    BY <1>1, <1>2, <2>2, StillOpens, <2>1 DEF OnlyOpens
  <2>4. ASSUME NEW b \in Accounts, row'[b] = tok, tok # 0 PROVE b = who
    BY <1>2, <1>4, <2>1, <2>2, <2>4 DEF OnlyOpens
  <2> QED BY <1>1, <2>1, <2>3, <2>4 DEF OnlyOpens
<1>7. ASSUME call'[c].op \in {"login", "register"}
      PROVE  \A b \in Accounts : row'[b] = call'[c].res /\ call'[c].res # 0 => b = call'[c].acc
  <2>1. /\ call[c].op \in {"login", "register"} /\ call'[c].acc = call[c].acc
        /\ call'[c].res = tok /\ call[c].acc \in Accounts
    BY <1>2, <1>4, <1>7
  <2>2. CASE tok = row[call[c].acc] /\ UNCHANGED row
    BY <2>1, <2>2 DEF Distinct
  <2>3. CASE tok = nextTok /\ row' = [row EXCEPT ![call[c].acc] = nextTok]
    BY <1>2, <2>1, <2>3
  <2> QED BY <1>4, <2>1, <2>2, <2>3
<1> QED BY <1>1, <1>3, <1>5, <1>6, <1>7 DEF Apart, OnlyOpens, Under

\* Steps that give no call a token keep what was said of tokens, if what they
\* store is the session's.
LEMMA CalmApart ==
    ASSUME Apart, UNCHANGED <<row, who>>, \A d \in Calls : Carries(d),
           OnlyOpens(mem'.token, who), OnlyOpens(disk'.token, who)
    PROVE  Apart'
BY DEF Apart, Carries, OnlyOpens, Under

\* The answer of the only call is applied.
LEMMA AnswerApart ==
    ASSUME TypeOK, Apart, NEW c \in Calls, Answer(c) PROVE Apart'
<1>1. UNCHANGED row /\ \A d \in Calls : Carries(d)
  BY StepCarries
<1>2. Under(c) /\ mem \in Prefs
  BY DEF Answer, TypeOK
<1>3. CASE call[c].op \in {"login", "register"} /\ OpenSession(c)
  <2>1. mem'.token = call[c].res /\ disk' = mem' /\ who' = call[c].acc
    BY <1>2, <1>3 DEF OpenSession, Prefs
  <2>2. OnlyOpens(call[c].res, call[c].acc)
    BY <1>3 DEF Apart
  <2>3. \A d \in Calls : call'[d].op = "none"
    <3>1. call'[c] = NoCall
      BY <1>3 DEF OpenSession
    <3>2. \A d \in Calls : d # c => call[d].op = "none"
      BY <1>2 DEF Apart, Under
    <3> QED BY <1>1, <3>1, <3>2 DEF NoCall, Carries
  <2> QED BY <1>1, <2>1, <2>2, <2>3 DEF Apart, OnlyOpens, Under
<1>4. CASE call[c].op = "edit" /\ mem' = EditStores(mem, call[c].res) /\ UNCHANGED <<disk, who>>
  <2>1. mem'.token = call[c].res
    BY <1>2, <1>4 DEF EditStores, Prefs
  <2>2. OnlyOpens(mem'.token, who) /\ OnlyOpens(disk'.token, who)
    BY <1>4, <2>1 DEF Apart
  <2> QED BY <1>1, <1>4, <2>2, CalmApart
<1>5. CASE UNCHANGED <<app, who>>
  BY <1>1, <1>5, CalmApart DEF app, Apart
<1> QED BY <1>3, <1>4, <1>5 DEF Answer

\* Every step keeps the tokens of accounts apart.
LEMMA SeparateStep ==
    ASSUME TypeOK, Distinct, Separate, [Next]_vars PROVE Separate'
<1> SUFFICES ASSUME spoilt' \cap {"overlap", "late"} = {} PROVE Apart'
  BY DEF Separate, Apart
<1>1. Apart
  BY SpoiltGrows DEF Separate, Apart
<1>2. CASE Launch \/ SwitchToRegistration \/ OpenProfile \/ Flush \/ UNCHANGED vars
           \/ SwitchToLogin \/ OpenList \/ Leave \/ Kill
  <2>1. /\ UNCHANGED who /\ mem' \in {mem, disk} /\ disk' \in {mem, disk}
    BY <1>2 DEF Launch, SwitchToRegistration, SwitchToLogin, OpenProfile, OpenList, Leave,
       Flush, Kill, vars
  <2>2. UNCHANGED row /\ \A d \in Calls : Carries(d)
    BY <1>2, StepCarries
  <2> QED BY <1>1, <2>1, <2>2, CalmApart DEF Apart
<1>3. CASE Logout
  <2>1. \A d \in Calls : ~Under(d)
    BY <1>3 DEF Logout, Spoil
  <2>2. \A d \in Calls : call'[d].op = "none"
    BY <1>3, <2>1, StepCarries DEF Carries, Under
  <2>3. mem'.token = 0 /\ disk'.token = 0
    BY <1>3 DEF Logout, TypeOK, Prefs
  <2> QED BY <2>2, <2>3 DEF Apart, OnlyOpens, Under
<1>4. ASSUME NEW c \in Calls, Login(c) \/ Register(c) \/ EditMe(c) PROVE Apart'
  <2>1. /\ UNCHANGED <<row, who, disk>> /\ mem'.token = mem.token /\ call'[c].res = 0
        /\ call'[c].op = "edit" => call'[c].tok = mem.token
        /\ \A d \in Calls : d # c => call'[d].op = "none"
    BY <1>4, NewCall DEF Under
  <2> QED BY <1>1, <2>1 DEF Apart, OnlyOpens, Under
<1>5. ASSUME NEW c \in Calls, GiveUp(c) PROVE Apart'
  <2>1. UNCHANGED <<row, mem, disk, who>> /\ \A d \in Calls : Carries(d)
    BY <1>5, StepCarries DEF GiveUp, app
  <2> QED BY <1>1, <2>1, CalmApart DEF Apart
<1> QED BY <1>1, <1>2, <1>3, <1>4, <1>5, AnswerApart, ServeApart DEF Next, OfCall

-----------------------------------------------------------------------------
\* The inductive invariant of the app's session.
THEOREM AppInvariant == Spec => [](TypeOK /\ SessionKept /\ LoggedOut /\ Distinct /\ Separate)
<1>1. Init => SessionKept /\ LoggedOut /\ Distinct /\ Separate
  BY DEF Init, SessionKept, LoggedOut, Distinct, Separate, OnlyOpens, NoCall, Under
<1>2. TypeOK /\ SessionKept /\ LoggedOut /\ Distinct /\ Separate /\ [Next]_vars
        => SessionKept' /\ LoggedOut' /\ Distinct' /\ Separate'
  BY SessionStep, LoggedOutStep, DistinctStep, SeparateStep
<1> QED BY <1>1, <1>2, AppTypes, PTL DEF Spec

\* While somebody's session is open the app holds that account's token, or
\* has it on the way, unless calls overlapped, an edit's answer was lost or
\* the process died before apply() had written; and after the last two the
\* token that it holds opens nobody else's account.
THEOREM SessionOwn == Spec => []StoredTokenIsOwn
<1>1. SessionKept => HoldsOwn
  BY DEF SessionKept, HoldsOwn
<1>2. Separate => OpensNoOther
  BY DEF Separate, OpensNoOther, OnlyOpens
<1> QED BY <1>1, <1>2, AppInvariant, PTL DEF StoredTokenIsOwn

\* After a logout with no call under way no token comes back.
THEOREM LogoutHolds == Spec => []LogoutSticks
<1>1. LoggedOut => LogoutSticks
  BY DEF LoggedOut, LogoutSticks
<1> QED BY <1>1, AppInvariant, PTL
=============================================================================
