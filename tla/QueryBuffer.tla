---------------------------- MODULE QueryBuffer ----------------------------
(***************************************************************************)
(* How the handlers build a query in a buffer of fixed size: login with    *)
(* snprintf, edit_me and request_contract with strlcat of                  *)
(* backend/src/utils.c.  A text is its length; the clauses of the queries  *)
(* have the lengths they have in the code.                                 *)
(***************************************************************************)
EXTENDS Integers

CONSTANTS
    Lengths,    \* the lengths texts, escaped texts and attachments may have
    Modulus     \* 2^64: arithmetic of size_t

LoginSize    == 8192
EditSize     == 16384
ContractSize == 2097152

ASSUME QueryAssumption ==
    /\ Lengths \subseteq Nat
    /\ Modulus \in Nat /\ Modulus > ContractSize

VARIABLES
    pc,         \* idle, the clause that is next, exec, crashed
    size,       \* of the buffer, 0 when there is none
    q,          \* the buffer: strlen, one past the last byte written, and
                \* the length of all that was to be put into it
    regen,      \* regenerate_token of edit_me
    name        \* length of the contract's name

vars == <<pc, size, q, regen, name>>

Empty == [dst |-> 0, top |-> 0, wanted |-> 0]

Init == pc = "idle" /\ size = 0 /\ q = Empty /\ regen = FALSE /\ name = 0

Least(a, b)   == IF a <= b THEN a ELSE b
Largest(a, b) == IF a >= b THEN a ELSE b

-----------------------------------------------------------------------------
strlcatNoTerminator(b, srclen) ==
    LET room == (size - b.dst) % Modulus
        n    == Least(srclen, room)
    IN  IF room = 0 THEN [b EXCEPT !.wanted = @ + srclen]
        ELSE [dst |-> b.dst + n, top |-> Largest(b.top, b.dst + n + 1),
              wanted |-> b.wanted + srclen]
strlcatAllOrNothing(b, srclen) ==
    LET room == (size - (b.dst + 1)) % Modulus
    IN  IF room < srclen THEN [b EXCEPT !.wanted = @ + srclen]
        ELSE [dst |-> b.dst + srclen, top |-> Largest(b.top, b.dst + srclen + 1),
              wanted |-> b.wanted + srclen]
\* size -= dstlen + 1 wraps around if the buffer holds no terminator.
strlcat(b, srclen) ==
    LET room == (size - (b.dst + 1)) % Modulus
        n    == Least(srclen, room)
    IN  IF room = 0 THEN [b EXCEPT !.wanted = @ + srclen]
        ELSE [dst |-> b.dst + n, top |-> Largest(b.top, b.dst + n + 1),
              wanted |-> b.wanted + srclen]

\* strncpy(query, head, len) of a head that fits: zeros up to the end.
strncpy(s, n) == [dst |-> n, top |-> s, wanted |-> n]

\* snprintf(query, s, ...) of n characters.
snprintf(s, n) == [dst |-> Least(n, s - 1), top |-> Least(n, s - 1) + 1, wanted |-> n]

LiteralUnbounded(max) == {n \in Lengths : n >= 2}
\* The lengths of what PQescapeLiteral makes of at most max bytes: quotes
\* around them, quotes and backslashes doubled, and " E" if there are any of
\* the latter.
Literal(max) == {n \in Lengths : 2 <= n /\ n <= 2 * max + 4}

-----------------------------------------------------------------------------
(***************************************************************************)
(* login.c: one snprintf; 88 characters are an encoded hash.               *)
(***************************************************************************)
LoginQuery ==
    /\ pc = "idle"
    /\ size' = LoginSize
    /\ \E n \in Lengths : q' = snprintf(LoginSize, 59 + n + 88)
    /\ pc' = "exec"
    /\ UNCHANGED <<regen, name>>

(***************************************************************************)
(* edit_me.c                                                               *)
(***************************************************************************)
EditStart ==
    /\ pc = "idle"
    /\ size' = EditSize
    /\ q' = strncpy(EditSize, 25)
    /\ regen' = FALSE
    /\ pc' = "admin"
    /\ UNCHANGED name

EditAdmin ==
    /\ pc = "admin"
    /\ \E n \in {4, 5} : q' = strlcat(q, n)         \* TRUE, FALSE
    /\ pc' = "username"
    /\ UNCHANGED <<size, regen, name>>

\* A column that is in the request or not: its key and the literal.  A text
\* that is not valid in the encoding of the connection (cut inside a
\* character, for one) has no literal, and strlcat gets a null pointer.
EditText(from, to, key, max, draws) ==
    /\ pc = from
    /\ \/ pc' = to /\ UNCHANGED <<q, regen>>
       \/ /\ \E n \in Literal(max) : q' = strlcat(strlcat(q, key), n)
          /\ regen' = (regen \/ draws)
          /\ pc' = to
       \/ q' = strlcat(q, key) /\ pc' = "crashed" /\ UNCHANGED regen
    /\ UNCHANGED <<size, name>>

EditUsername  == EditText("username", "password", 13, 64, TRUE)
EditFirstName == EditText("firstname", "lastname", 14, 32, FALSE)
EditLastName  == EditText("lastname", "token", 13, 32, FALSE)

\* An encoded hash has 88 characters, and two quotes.
EditPassword ==
    /\ pc = "password"
    /\ \/ UNCHANGED <<q, regen>>
       \/ q' = strlcat(strlcat(q, 13), 90) /\ regen' = TRUE
    /\ pc' = "firstname"
    /\ UNCHANGED <<size, name>>

\* An encoded token has 44.
EditToken ==
    /\ pc = "token"
    /\ q' = (IF regen THEN strlcat(strlcat(q, 10), 46) ELSE q)
    /\ pc' = "where"
    /\ UNCHANGED <<size, regen, name>>

EditWhere ==
    /\ pc = "where"
    /\ \/ pc' = "exec" /\ \E n \in Literal(128) : q' = strlcat(strlcat(q, 15), n)
       \/ pc' = "crashed" /\ q' = strlcat(q, 15)
    /\ UNCHANGED <<size, regen, name>>

(***************************************************************************)
(* request_contract.c; the name is not escaped and may have any length.    *)
(***************************************************************************)
ContractStart ==
    /\ pc = "idle"
    /\ size' = ContractSize
    /\ q' = strncpy(ContractSize, 89)
    /\ pc' = "name"
    /\ name' = 0
    /\ UNCHANGED regen

ContractName ==
    /\ pc = "name"
    /\ \E n \in Lengths :
          name' = n /\ q' = strlcat(strlcat(strlcat(q, 1), n), 1)
    /\ pc' = "description"
    /\ UNCHANGED <<size, regen>>

ContractDescription ==
    /\ pc = "description"
    /\ \/ pc' = "price" /\ q' = strlcat(q, 6)
       \/ pc' = "price" /\ \E n \in Literal(16384) : q' = strlcat(strlcat(q, 2), n)
       \/ pc' = "crashed" /\ q' = strlcat(q, 2)
    /\ UNCHANGED <<size, regen, name>>

\* snprintf(price_str, 128, "%f", price)
ContractPrice ==
    /\ pc = "price"
    /\ \E n \in Lengths : q' = strlcat(strlcat(q, 2), Least(n, 127))
    /\ pc' = "attachment"
    /\ UNCHANGED <<size, regen, name>>

ByteaUnchecked == Lengths
\* The lengths of the attachments that are stored.
Bytea == {n \in Lengths : 0 < n /\ n <= 131072}

\* Two digits for a byte after "\x", or "\\x".
ContractAttachment ==
    /\ pc = "attachment"
    /\ \/ q' = strlcat(q, 6)
       \/ \E n \in Bytea, prefix \in {2, 3} :
             q' = strlcat(strlcat(strlcat(q, 3), 2 * n + prefix), 1)
    /\ pc' = "user"
    /\ UNCHANGED <<size, regen, name>>

\* The requester's id, the time, and the end of the statement.
ContractEnd ==
    /\ pc = "user"
    /\ \E u \in {n \in Lengths : n <= 10}, t \in {n \in Lengths : n <= 20} :
          q' = strlcat(strlcat(strlcat(strlcat(strlcat(q, 2), u), 2), t), 14)
    /\ pc' = "exec"
    /\ UNCHANGED <<size, regen, name>>

-----------------------------------------------------------------------------
\* PQexec(db_conn, query)
Exec ==
    /\ pc = "exec"
    /\ pc' = "idle" /\ size' = 0 /\ q' = Empty /\ regen' = FALSE /\ name' = 0

Next ==
    \/ LoginQuery
    \/ EditStart \/ EditAdmin \/ EditUsername \/ EditPassword \/ EditFirstName
    \/ EditLastName \/ EditToken \/ EditWhere
    \/ ContractStart \/ ContractName \/ ContractDescription \/ ContractPrice
    \/ ContractAttachment \/ ContractEnd
    \/ Exec

Spec == Init /\ [][Next]_vars

-----------------------------------------------------------------------------
(***************************************************************************)
(* Properties.                                                             *)
(***************************************************************************)
EditPcs == {"admin", "username", "password", "firstname", "lastname", "token", "where"}
ContractPcs == {"name", "description", "price", "attachment", "user"}

\* The handler's place, the buffer's size and its contents are well-formed.
TypeOK ==
    /\ pc \in {"idle", "exec", "crashed"} \cup EditPcs \cup ContractPcs
    /\ size \in {0, LoginSize, EditSize, ContractSize}
    /\ q \in [dst : Nat, top : Nat, wanted : Nat]
    /\ regen \in BOOLEAN
    /\ name \in Nat

\* Nothing is written behind the buffer, and the terminator is inside it, so
\* that the next strlcat finds it and its subtraction does not wrap around.
InsideBuffer == size > 0 => q.top <= size /\ q.dst < size

\* The buffer holds the beginning of what was to be put into it, as much as
\* there is room for: a text that is cut is never followed by another.
PrefixKept == size > 0 => q.dst = Least(q.wanted, size - 1)

\* edit_me sends its UPDATE in full whatever the request holds: never without
\* its WHERE, which would change every user.
UpdateIsWhole == size = EditSize /\ pc = "exec" => q.dst = q.wanted

\* What is left for a name when everything else is as long as it can be.
NameRoom == ContractSize - 1 - (89 + 2 + (2 + 32772) + (2 + 127) + (4 + 262147) + 48)

\* request_contract sends its INSERT in full unless the name alone is longer
\* than NameRoom (1,801,958 bytes; the column takes 64).
InsertCutOnlyByName ==
    size = ContractSize /\ q.dst # q.wanted => name > NameRoom
=============================================================================
