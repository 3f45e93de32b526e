------------------------- MODULE MCContractService -------------------------
(***************************************************************************)
(* Instances of ContractService for TLC: the request values of each run.   *)
(***************************************************************************)
EXTENDS ContractService, TLC

T(s, l) == [s |-> s, l |-> l]

MCStems     == {"a", "b"}
Short       == {T("a", "short")}
TwoShort    == {T("a", "short"), T("b", "short")}
\* Two names, one of which does not fit its column.
ShortLong   == {T("a", "short"), T("b", "long")}
FullShort   == {T("a", "full")}
ShortFullLong == {T("a", "short"), T("a", "full"), T("a", "long")}
OnlyFalse   == {FALSE}
OnlyTrue    == {TRUE}
AllPrices   == {"negative", "plain", "fine", "huge", "nonfinite"}
PlainPrice  == {"plain"}
AllFiles    == {"file", "empty", "oversized"}
NoTexts     == {}

OneThread   == [c \in Conns |-> CHOOSE t \in Threads : TRUE]
\* One connection to each thread.
OwnThread   == [c \in Conns |-> c]

\* Bounds: the deliveries that clients remember, the responses that wait.
FewGrants   == Cardinality(known) <= 2
FewReplies  == Cardinality({c \in Conns : pc[c] = "reply"}) <= 1

\* Connections that sit on threads of their own, and passwords, are alike.
Symmetry    == Permutations(Conns) \cup Permutations(Passwords)
=============================================================================
