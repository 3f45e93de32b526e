------------------------------ MODULE Exchange ------------------------------
(***************************************************************************)
(* What the HTTP side of the backend promises a client, without chunks,    *)
(* buffers and callbacks: a connection carries one request at a time; the  *)
(* request is handled once, when it has arrived as a whole; its response   *)
(* is delivered from the first byte on; and the connection is ready for    *)
(* another request only after the last byte, with what was delivered of    *)
(* the last response still known.  It may go down at any time, and does    *)
(* not stay in the middle of an answer.                                    *)
(***************************************************************************)
EXTENDS Naturals

CONSTANTS Requests, Replies     \* the sizes of requests and of responses

VARIABLES
    stage,      \* down, ready, asking, answering
    asked,      \* size of the request
    handled,    \* bytes of it that were handled
    length,     \* size of the response
    sent        \* bytes of it that were delivered

vars == <<stage, asked, handled, length, sent>>

Between(s) == stage' = s /\ asked' = 0 /\ handled' = 0 /\ length' = 0 /\ sent' = 0

Init == stage = "down" /\ asked = 0 /\ handled = 0 /\ length = 0 /\ sent = 0

Open == stage = "down" /\ Between("ready")

Ask ==
    /\ stage = "ready" /\ stage' = "asking"
    /\ asked' \in Requests
    /\ length' = 0 /\ sent' = 0 /\ UNCHANGED handled

Handle ==
    /\ stage = "asking" /\ stage' = "answering"
    /\ handled' = asked
    /\ length' \in Replies \cup {0}
    /\ UNCHANGED <<asked, sent>>

Deliver ==
    /\ stage = "answering"
    /\ \E n \in (sent + 1) .. length :
         \/ n < length /\ sent' = n /\ UNCHANGED <<stage, asked, handled, length>>
         \/ /\ n = length /\ sent' = n /\ stage' = "ready"
            /\ asked' = 0 /\ handled' = 0 /\ UNCHANGED length
         \/ n = length /\ Between("down")

Fail == stage # "down" /\ Between("down")

Next == Open \/ Ask \/ Handle \/ Deliver \/ Fail

Answer == stage = "answering" /\ (Deliver \/ Fail)

Spec == Init /\ [][Next]_vars /\ WF_vars(Answer)
=============================================================================
