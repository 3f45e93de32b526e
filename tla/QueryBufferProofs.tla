------------------------- MODULE QueryBufferProofs -------------------------
(***************************************************************************)
(* Proofs about QueryBuffer: for every set of lengths, and whatever the    *)
(* width of size_t.                                                        *)
(***************************************************************************)
EXTENDS QueryBuffer, TLAPS

\* The buffer between two calls.
Good(b) ==
    /\ b \in [dst : Nat, top : Nat, wanted : Nat]
    /\ b.top <= size /\ b.dst < size
    /\ b.dst = Least(b.wanted, size - 1)

\* strlcat keeps that, and only cuts what has no room.
LEMMA CatGood ==
    ASSUME size \in {LoginSize, EditSize, ContractSize}, NEW b, Good(b), NEW n \in Nat
    PROVE  Good(strlcat(b, n)) /\ strlcat(b, n).wanted = b.wanted + n
<1>1. size \in Nat /\ size > 0 /\ Modulus \in Nat /\ size < Modulus
  BY QueryAssumption DEF LoginSize, EditSize, ContractSize
<1>2. /\ b \in [dst : Nat, top : Nat, wanted : Nat]
      /\ b.dst \in Nat /\ b.top \in Nat /\ b.wanted \in Nat
      /\ b.top <= size /\ b.dst < size /\ b.dst = Least(b.wanted, size - 1)
  BY DEF Good
<1> DEFINE room == size - (b.dst + 1)
<1>3. room \in Nat /\ room < Modulus /\ room % Modulus = room
  BY <1>1, <1>2
<1> DEFINE k == Least(n, room)
<1>4. k \in Nat /\ k <= room /\ k <= n /\ (k < n => k = room)
  BY <1>3 DEF Least
<1>5. CASE room = 0
  <2>1. strlcat(b, n) = [b EXCEPT !.wanted = @ + n]
    BY <1>3, <1>5 DEF strlcat
  <2>2. /\ strlcat(b, n) \in [dst : Nat, top : Nat, wanted : Nat]
        /\ strlcat(b, n).dst = b.dst /\ strlcat(b, n).top = b.top
        /\ strlcat(b, n).wanted = b.wanted + n
    BY <1>2, <2>1
  <2>3. b.dst = Least(b.wanted + n, size - 1)
    BY <1>1, <1>2, <1>5 DEF Least
  <2> QED BY <1>2, <2>2, <2>3 DEF Good
<1>6. CASE room # 0
  <2> DEFINE t == Largest(b.top, b.dst + k + 1)
  <2>1. strlcat(b, n) = [dst |-> b.dst + k, top |-> t, wanted |-> b.wanted + n]
    BY <1>3, <1>6 DEF strlcat
  <2>2. t \in Nat /\ t <= size
    BY <1>1, <1>2, <1>4 DEF Largest
  <2>3. b.dst + k < size /\ b.dst + k = Least(b.wanted + n, size - 1)
    BY <1>1, <1>2, <1>4, <1>6 DEF Least
  <2> HIDE DEF t, k
  <2> QED BY <1>2, <1>4, <2>1, <2>2, <2>3 DEF Good
<1> QED BY <1>5, <1>6

-----------------------------------------------------------------------------
\* Bounds on what was to be put into the buffer so far.
EditBound ==
    [admin |-> 25, username |-> 30, password |-> 175, firstname |-> 278,
     lastname |-> 360, token |-> 441, where |-> 497]
ContractBound ==
    [name |-> 89, description |-> 91, price |-> 32865, attachment |-> 32994,
     user |-> 295145]

QueryInv ==
    /\ TypeOK
    /\ size > 0 => Good(q)
    /\ pc = "idle" <=> size = 0
    /\ pc \in EditPcs => size = EditSize /\ q.wanted <= EditBound[pc]
    /\ pc \in ContractPcs => size = ContractSize /\ q.wanted <= name + ContractBound[pc]
    /\ pc = "name" => name = 0
    /\ pc = "exec" /\ size = EditSize => q.wanted <= 772
    /\ pc \in {"exec", "crashed"} /\ size = ContractSize => q.wanted <= name + 295193

Sizes == {LoginSize, EditSize, ContractSize}

\* One call keeps the buffer well-formed and counts what was to be added.
LEMMA CatOnce ==
    ASSUME size \in Sizes, NEW b, Good(b), NEW n \in Nat
    PROVE  Good(strlcat(b, n)) /\ strlcat(b, n).wanted = b.wanted + n
  BY CatGood DEF Sizes

\* Two calls, as most clauses need.
LEMMA CatTwice ==
    ASSUME size \in Sizes, NEW b, Good(b), NEW m \in Nat, NEW n \in Nat
    PROVE  /\ Good(strlcat(strlcat(b, m), n))
           /\ strlcat(strlcat(b, m), n).wanted = b.wanted + m + n
<1>1. Good(strlcat(b, m)) /\ strlcat(b, m).wanted = b.wanted + m
  BY CatGood DEF Sizes
<1> DEFINE c == strlcat(b, m)
<1> HIDE DEF c
<1>2. Good(strlcat(c, n)) /\ strlcat(c, n).wanted = c.wanted + n
  BY <1>1, CatGood DEF Sizes, c
<1> QED BY <1>1, <1>2 DEF c

\* Three calls.
LEMMA CatThrice ==
    ASSUME size \in Sizes, NEW b, Good(b), NEW k \in Nat, NEW m \in Nat, NEW n \in Nat
    PROVE  /\ Good(strlcat(strlcat(strlcat(b, k), m), n))
           /\ strlcat(strlcat(strlcat(b, k), m), n).wanted = b.wanted + k + m + n
<1>1. Good(strlcat(strlcat(b, k), m)) /\ strlcat(strlcat(b, k), m).wanted = b.wanted + k + m
  BY CatTwice
<1> DEFINE c == strlcat(strlcat(b, k), m)
<1> HIDE DEF c
<1>2. Good(strlcat(c, n)) /\ strlcat(c, n).wanted = c.wanted + n
  BY <1>1, CatGood DEF Sizes, c
<1> QED BY <1>1, <1>2 DEF c

\* The parts of the invariant that a clause of a query starts from and leaves.
LEMMA Before ==
    ASSUME QueryInv, pc \in EditPcs \cup ContractPcs
    PROVE  /\ size \in Sizes /\ Good(q) /\ q.wanted \in Nat /\ name \in Nat
           /\ pc \in EditPcs => size = EditSize /\ q.wanted <= EditBound[pc]
           /\ pc \in ContractPcs => size = ContractSize /\ q.wanted <= name + ContractBound[pc]
<1>1. size # 0 /\ size \in {0, LoginSize, EditSize, ContractSize} /\ name \in Nat
  BY DEF QueryInv, TypeOK, EditPcs, ContractPcs
<1>2. size > 0 /\ size \in Sizes
  BY <1>1 DEF LoginSize, EditSize, ContractSize, Sizes
<1>3. Good(q)
  BY <1>2 DEF QueryInv
<1>4. q.wanted \in Nat
  BY <1>3 DEF Good
<1> QED BY <1>1, <1>2, <1>3, <1>4 DEF QueryInv

\* What a clause of edit_me has to leave for the invariant to hold after it.
LEMMA AfterEdit ==
    ASSUME size = EditSize, size' = size, Good(q'), regen' \in BOOLEAN, name' \in Nat,
           \/ pc' \in EditPcs /\ q'.wanted <= EditBound[pc']
           \/ pc' = "exec" /\ q'.wanted <= 772
           \/ pc' = "crashed"
    PROVE  QueryInv'
<1>1. Good(q)' /\ q' \in [dst : Nat, top : Nat, wanted : Nat]
  BY DEF Good
<1>2. TypeOK'
  BY <1>1 DEF TypeOK
<1>3. size' # 0 /\ size' # ContractSize /\ size' = EditSize
  BY DEF EditSize, ContractSize
<1>4. pc' # "idle" /\ pc' # "name" /\ pc' \notin ContractPcs
  BY DEF EditPcs, ContractPcs
<1>5. "exec" \notin EditPcs /\ "crashed" \notin EditPcs
  BY DEF EditPcs
<1> QED BY <1>1, <1>2, <1>3, <1>4, <1>5 DEF QueryInv

\* The same for a clause of request_contract.
LEMMA AfterContract ==
    ASSUME size = ContractSize, size' = size, Good(q'), regen' \in BOOLEAN, name' \in Nat,
           pc' # "name",
           \/ pc' \in ContractPcs /\ q'.wanted <= name' + ContractBound[pc']
           \/ pc' \in {"exec", "crashed"} /\ q'.wanted <= name' + 295193
    PROVE  QueryInv'
<1>1. Good(q)' /\ q' \in [dst : Nat, top : Nat, wanted : Nat]
  BY DEF Good
<1>2. TypeOK'
  BY <1>1 DEF TypeOK
<1>3. size' # 0 /\ size' # EditSize /\ size' = ContractSize
  BY DEF EditSize, ContractSize
<1>4. pc' # "idle" /\ pc' \notin EditPcs
  BY DEF EditPcs, ContractPcs
<1>5. "exec" \notin ContractPcs /\ "crashed" \notin ContractPcs
  BY DEF ContractPcs
<1> QED BY <1>1, <1>2, <1>3, <1>4, <1>5 DEF QueryInv

\* The three columns that hold a text.
LEMMA EditTextKeeps ==
    ASSUME QueryInv, NEW from \in EditPcs, NEW to \in EditPcs, NEW key \in Nat,
           NEW max \in Nat, NEW draws \in BOOLEAN, EditText(from, to, key, max, draws),
           EditBound[from] \in Nat, EditBound[to] \in Nat,
           EditBound[from] + key + 2 * max + 4 <= EditBound[to]
    PROVE  QueryInv'
<1>1. size \in Sizes /\ Good(q) /\ q.wanted \in Nat /\ name \in Nat /\ size = EditSize
      /\ q.wanted <= EditBound[from]
  BY Before DEF EditText
<1>2. size' = size /\ name' = name
  BY DEF EditText
<1>3. regen \in BOOLEAN
  BY DEF QueryInv, TypeOK
<1>4. CASE pc' = to /\ UNCHANGED <<q, regen>>
  <2>1. Good(q') /\ q'.wanted <= EditBound[pc']
    BY <1>1, <1>4
  <2> QED BY <1>1, <1>2, <1>3, <1>4, <2>1, AfterEdit
<1>5. ASSUME NEW n \in Literal(max), q' = strlcat(strlcat(q, key), n), pc' = to,
             regen' = (regen \/ draws)
      PROVE  QueryInv'
  <2>1. n \in Nat /\ n <= 2 * max + 4
    BY QueryAssumption DEF Literal
  <2>2. Good(q') /\ q'.wanted = q.wanted + key + n
    BY <1>1, <1>5, <2>1, CatTwice
  <2>3. q'.wanted <= EditBound[pc']
    BY <1>1, <1>5, <2>1, <2>2
  <2>4. regen' \in BOOLEAN
    BY <1>3, <1>5, Zenon
  <2>5. name' \in Nat
    BY <1>1, <1>2
  <2>6. pc' \in EditPcs
    BY <1>5
  <2> QED BY <1>1, <1>2, <2>2, <2>3, <2>4, <2>5, <2>6, AfterEdit
<1>6. CASE q' = strlcat(q, key) /\ pc' = "crashed" /\ UNCHANGED regen
  <2>1. Good(q')
    BY <1>1, <1>6, CatGood DEF Sizes
  <2> QED BY <1>1, <1>2, <1>3, <1>6, <2>1, AfterEdit
<1> QED BY <1>4, <1>5, <1>6 DEF EditText

\* Every clause of edit_me's UPDATE keeps the bound of its place.
LEMMA EditKeeps ==
    ASSUME QueryInv,
           EditAdmin \/ EditUsername \/ EditPassword \/ EditFirstName \/ EditLastName
              \/ EditToken \/ EditWhere
    PROVE  QueryInv'
<1> DEFINE now == size \in Sizes /\ size = EditSize /\ Good(q) /\ q.wanted \in Nat /\ name \in Nat
<1>0. regen \in BOOLEAN
  BY DEF QueryInv, TypeOK
<1>1. CASE EditAdmin
  <2>1. now /\ q.wanted <= 25 /\ size' = size /\ name' = name /\ regen' = regen
        /\ pc' = "username"
    BY <1>1, Before DEF EditAdmin, EditPcs, EditBound
  <2>2. PICK n \in {4, 5} : q' = strlcat(q, n)
    BY <1>1 DEF EditAdmin
  <2>3. Good(q') /\ q'.wanted = q.wanted + n
    <3>1. size \in Sizes /\ Good(q)
      BY <2>1, SMT
    <3>2. n \in Nat
      BY SMT
    <3> QED BY <2>2, <3>1, <3>2, CatOnce, Zenon
  <2>4. q'.wanted <= EditBound["username"] /\ "username" \in EditPcs
    BY <2>1, <2>3 DEF EditBound, EditPcs
  <2> QED BY <1>0, <2>1, <2>3, <2>4, AfterEdit
<1>2. CASE EditUsername
  <2>1. "username" \in EditPcs /\ "password" \in EditPcs
    BY DEF EditPcs
  <2>2. /\ 13 \in Nat /\ 64 \in Nat /\ TRUE \in BOOLEAN
        /\ EditBound["username"] \in Nat /\ EditBound["password"] \in Nat
        /\ EditBound["username"] + 13 + 2 * 64 + 4 <= EditBound["password"]
    BY DEF EditBound
  <2>3. EditText("username", "password", 13, 64, TRUE)
    BY <1>2 DEF EditUsername
  <2> QED BY <2>1, <2>2, <2>3, EditTextKeeps, Zenon
<1>3. CASE EditPassword
  <2>1. now /\ q.wanted <= 175 /\ size' = size /\ name' = name /\ pc' = "firstname"
    BY <1>3, Before DEF EditPassword, EditPcs, EditBound
  <2>2. EditBound["firstname"] = 278 /\ "firstname" \in EditPcs
    BY DEF EditBound, EditPcs
  <2>3. CASE UNCHANGED <<q, regen>>
    <3>1. Good(q') /\ q'.wanted <= 278
      BY <2>1, <2>3
    <3> QED BY <1>0, <2>1, <2>2, <2>3, <3>1, AfterEdit
  <2>4. CASE q' = strlcat(strlcat(q, 13), 90) /\ regen' = TRUE
    <3>1. Good(q') /\ q'.wanted = q.wanted + 13 + 90
      <4>1. 13 \in Nat /\ 90 \in Nat
        OBVIOUS
      <4> QED BY <2>1, <2>4, <4>1, CatTwice, Zenon
    <3>2. q'.wanted <= 278
      BY <2>1, <3>1
    <3> QED BY <2>1, <2>2, <2>4, <3>1, <3>2, AfterEdit
  <2> QED BY <1>3, <2>3, <2>4 DEF EditPassword
<1>4. CASE EditFirstName
  <2>1. "firstname" \in EditPcs /\ "lastname" \in EditPcs
    BY DEF EditPcs
  <2>2. /\ 14 \in Nat /\ 32 \in Nat /\ FALSE \in BOOLEAN
        /\ EditBound["firstname"] \in Nat /\ EditBound["lastname"] \in Nat
        /\ EditBound["firstname"] + 14 + 2 * 32 + 4 <= EditBound["lastname"]
    BY DEF EditBound
  <2>3. EditText("firstname", "lastname", 14, 32, FALSE)
    BY <1>4 DEF EditFirstName
  <2> QED BY <2>1, <2>2, <2>3, EditTextKeeps, Zenon
<1>5. CASE EditLastName
  <2>1. "lastname" \in EditPcs /\ "token" \in EditPcs
    BY DEF EditPcs
  <2>2. /\ 13 \in Nat /\ 32 \in Nat /\ FALSE \in BOOLEAN
        /\ EditBound["lastname"] \in Nat /\ EditBound["token"] \in Nat
        /\ EditBound["lastname"] + 13 + 2 * 32 + 4 <= EditBound["token"]
    BY DEF EditBound
  <2>3. EditText("lastname", "token", 13, 32, FALSE)
    BY <1>5 DEF EditLastName
  <2> QED BY <2>1, <2>2, <2>3, EditTextKeeps, Zenon
<1>6. CASE EditToken
  <2>1. now /\ q.wanted <= 441 /\ size' = size /\ name' = name /\ regen' = regen
        /\ pc' = "where"
    BY <1>6, Before DEF EditToken, EditPcs, EditBound
  <2>2. EditBound["where"] = 497 /\ "where" \in EditPcs
    BY DEF EditBound, EditPcs
  <2>3. q' = q \/ q' = strlcat(strlcat(q, 10), 46)
    BY <1>6 DEF EditToken
  <2>4. Good(q') /\ q'.wanted <= 497
    <3>1. CASE q' = q
      BY <2>1, <3>1
    <3>2. CASE q' = strlcat(strlcat(q, 10), 46)
      <4>1. Good(q') /\ q'.wanted = q.wanted + 10 + 46
        <5>1. 10 \in Nat /\ 46 \in Nat
          OBVIOUS
        <5> QED BY <2>1, <3>2, <5>1, CatTwice, Zenon
      <4> QED BY <2>1, <4>1
    <3> QED BY <2>3, <3>1, <3>2
  <2> QED BY <1>0, <2>1, <2>2, <2>4, AfterEdit
<1>7. CASE EditWhere
  <2>1. now /\ q.wanted <= 497 /\ size' = size /\ name' = name /\ regen' = regen
    BY <1>7, Before DEF EditWhere, EditPcs, EditBound
  <2>2. ASSUME pc' = "exec", NEW n \in Literal(128), q' = strlcat(strlcat(q, 15), n)
        PROVE  QueryInv'
    <3>1. n \in Nat /\ n <= 260
      BY QueryAssumption DEF Literal
    <3>2. Good(q') /\ q'.wanted = q.wanted + 15 + n
      <4>1. 15 \in Nat
        OBVIOUS
      <4> QED BY <2>1, <2>2, <3>1, <4>1, CatTwice, Zenon
    <3>3. q'.wanted <= 772
      BY <2>1, <3>1, <3>2
    <3> QED BY <1>0, <2>1, <2>2, <3>2, <3>3, AfterEdit
  <2>3. CASE pc' = "crashed" /\ q' = strlcat(q, 15)
    <3>1. Good(q')
      BY <2>1, <2>3, CatGood DEF Sizes
    <3> QED BY <1>0, <2>1, <2>3, <3>1, AfterEdit
  <2> QED BY <1>7, <2>2, <2>3 DEF EditWhere
<1> QED BY <1>1, <1>2, <1>3, <1>4, <1>5, <1>6, <1>7

\* Every clause of request_contract's INSERT keeps the bound of its place.
LEMMA ContractKeeps ==
    ASSUME QueryInv,
           ContractName \/ ContractDescription \/ ContractPrice \/ ContractAttachment
              \/ ContractEnd
    PROVE  QueryInv'
<1> DEFINE here == /\ size \in Sizes /\ size = ContractSize /\ Good(q) /\ q.wanted \in Nat
                   /\ name \in Nat /\ size' = size /\ regen' = regen
<1>0. regen \in BOOLEAN
  BY SMT DEF QueryInv, TypeOK
<1>11. 1 \in Nat
  OBVIOUS
<1>12. 2 \in Nat
  OBVIOUS
<1>13. 3 \in Nat /\ 1 \in Nat
  OBVIOUS
<1>14. 2 \in Nat /\ 14 \in Nat
  OBVIOUS
<1>15. 6 \in Nat
  OBVIOUS
<1>2. Lengths \subseteq Nat
  BY QueryAssumption, SMT
<1>3. /\ {"description", "price", "attachment", "user"} \subseteq ContractPcs
      /\ ContractBound["description"] = 91 /\ ContractBound["price"] = 32865
      /\ ContractBound["attachment"] = 32994 /\ ContractBound["user"] = 295145
  BY SMT DEF ContractPcs, ContractBound
<1>4. CASE ContractName
  <2>0. q.wanted <= name + 89
    BY <1>4, Before, SMT DEF ContractName, ContractPcs, ContractBound
  <2>1. here /\ pc' = "description"
    BY <1>4, Before, SMT DEF ContractName, ContractPcs, ContractBound
  <2>9. size \in Sizes /\ Good(q)
    BY <2>1, SMT
  <2>2. PICK n \in Lengths : name' = n /\ q' = strlcat(strlcat(strlcat(q, 1), n), 1)
    BY <1>4, SMT DEF ContractName
  <2>3. name = 0
    BY <1>4, SMT DEF ContractName, QueryInv
  <2>4. n \in Nat
    BY <1>2, SMT
  <2>5. Good(q') /\ q'.wanted = q.wanted + 1 + n + 1
    <3>1. Good(strlcat(strlcat(strlcat(q, 1), n), 1)) /\ (strlcat(strlcat(strlcat(q, 1), n), 1)).wanted = q.wanted + 1 + n + 1
      BY <1>11, <2>9, <2>4, CatThrice, SMT
    <3> QED BY <3>1, <2>2, Zenon
  <2>6. q'.wanted <= name' + 91 /\ name' \in Nat
    BY <2>0, <2>1, <2>2, <2>3, <2>4, <2>5, SMT
  <2> QED BY <1>0, <1>3, <2>1, <2>5, <2>6, AfterContract, SMT
<1>5. CASE ContractDescription
  <2>0. q.wanted <= name + 91
    BY <1>5, <1>3, Before, SMT DEF ContractDescription
  <2>1. here /\ name' = name
    BY <1>5, <1>3, Before, SMT DEF ContractDescription
  <2>9. size \in Sizes /\ Good(q)
    BY <2>1, SMT
  <2>2. CASE pc' = "price" /\ q' = strlcat(q, 6)
    <3>1. Good(q') /\ q'.wanted = q.wanted + 6
      BY <1>15, <2>9, <2>2, CatOnce, Zenon
    <3>2. q'.wanted <= name' + 32865
      BY <2>0, <2>1, <3>1, SMT
    <3> QED BY <1>0, <1>3, <2>1, <2>2, <3>1, <3>2, AfterContract, SMT
  <2>3. ASSUME pc' = "price", NEW n \in Literal(16384), q' = strlcat(strlcat(q, 2), n)
        PROVE  QueryInv'
    <3>1. n \in Nat
      BY <1>2, SMT DEF Literal
    <3>9. n <= 32772
      BY <1>2, SMT DEF Literal
    <3>2. Good(q') /\ q'.wanted = q.wanted + 2 + n
      <4>1. Good(strlcat(strlcat(q, 2), n)) /\ (strlcat(strlcat(q, 2), n)).wanted = q.wanted + 2 + n
        BY <1>12, <2>9, <3>1, CatTwice, SMT
      <4> QED BY <4>1, <2>3, SMT
    <3>3. q'.wanted <= name' + 32865
      BY <2>0, <2>1, <3>1, <3>9, <3>2, SMT
    <3> QED BY <1>0, <1>3, <2>1, <2>3, <3>2, <3>3, AfterContract, SMT
  <2>4. CASE pc' = "crashed" /\ q' = strlcat(q, 2)
    <3>1. Good(q') /\ q'.wanted = q.wanted + 2
      BY <1>12, <2>9, <2>4, CatOnce, Zenon
    <3>2. q'.wanted <= name' + 295193
      BY <2>0, <2>1, <3>1, SMT
    <3> QED BY <1>0, <2>1, <2>4, <3>1, <3>2, AfterContract, SMT
  <2> QED BY <1>5, <2>2, <2>3, <2>4, SMT DEF ContractDescription
<1>6. CASE ContractPrice
  <2>0. q.wanted <= name + 32865
    BY <1>6, <1>3, Before, SMT DEF ContractPrice
  <2>1. here /\ name' = name /\ pc' = "attachment"
    BY <1>6, <1>3, Before, SMT DEF ContractPrice
  <2>9. size \in Sizes /\ Good(q)
    BY <2>1, SMT
  <2>2. PICK n \in Lengths : q' = strlcat(strlcat(q, 2), Least(n, 127))
    BY <1>6, SMT DEF ContractPrice
  <2>3. Least(n, 127) \in Nat /\ Least(n, 127) <= 127
    BY <1>2, SMT DEF Least
  <2>8. Least(n, 127) \in Nat
    BY <2>3, SMT
  <2>4. Good(q') /\ q'.wanted = q.wanted + 2 + Least(n, 127)
    <3> DEFINE l == Least(n, 127)
    <3>1. l \in Nat /\ q' = strlcat(strlcat(q, 2), l)
      BY <2>2, <2>8, SMT
    <3> HIDE DEF l
    <3>2. Good(q') /\ q'.wanted = q.wanted + 2 + l
      BY <1>12, <2>9, <3>1, CatTwice, SMT
    <3> QED BY <3>2, Zenon DEF l
  <2>5. q'.wanted <= name' + 32994
    BY <2>0, <2>1, <2>3, <2>4, SMT
  <2> QED BY <1>0, <1>3, <2>1, <2>4, <2>5, AfterContract, SMT
<1>7. CASE ContractAttachment
  <2>0. q.wanted <= name + 32994
    BY <1>7, <1>3, Before, SMT DEF ContractAttachment
  <2>1. here /\ name' = name /\ pc' = "user"
    BY <1>7, <1>3, Before, SMT DEF ContractAttachment
  <2>9. size \in Sizes /\ Good(q)
    BY <2>1, SMT
  <2>2. CASE q' = strlcat(q, 6)
    <3>1. Good(q') /\ q'.wanted = q.wanted + 6
      BY <1>15, <2>9, <2>2, CatOnce, Zenon
    <3>2. q'.wanted <= name' + 295145
      BY <2>0, <2>1, <3>1, SMT
    <3> QED BY <1>0, <1>3, <2>1, <3>1, <3>2, AfterContract, SMT
  <2>3. ASSUME NEW n \in Bytea, NEW prefix \in {2, 3},
               q' = strlcat(strlcat(strlcat(q, 3), 2 * n + prefix), 1)
        PROVE  QueryInv'
    <3>1. 2 * n + prefix \in Nat
      BY <1>2, SMT DEF Bytea
    <3>9. 2 * n + prefix <= 262147
      BY <1>2, SMT DEF Bytea
    <3>2. Good(q') /\ q'.wanted = q.wanted + 3 + (2 * n + prefix) + 1
      <4> DEFINE l == 2 * n + prefix
      <4>1. l \in Nat /\ q' = strlcat(strlcat(strlcat(q, 3), l), 1)
        BY <2>3, <3>1, SMT
      <4> HIDE DEF l
      <4>2. Good(q') /\ q'.wanted = q.wanted + 3 + l + 1
        <5> DEFINE d == strlcat(strlcat(q, 3), l)
        <5>1. Good(d) /\ d.wanted = q.wanted + 3 + l
          BY <1>13, <2>9, <4>1, CatTwice, SMT
        <5> HIDE DEF d
        <5>2. Good(strlcat(d, 1)) /\ strlcat(d, 1).wanted = d.wanted + 1
          BY <1>11, <2>9, <5>1, CatOnce, SMT
        <5> QED BY <5>1, <5>2, <4>1, Zenon DEF d
      <4> QED BY <4>2, Zenon DEF l
    <3>3. q'.wanted <= name' + 295145
      BY <2>0, <2>1, <3>1, <3>9, <3>2, SMT
    <3> QED BY <1>0, <1>3, <2>1, <3>2, <3>3, AfterContract, SMT
  <2> QED BY <1>7, <2>2, <2>3, SMT DEF ContractAttachment
<1>8. CASE ContractEnd
  <2>0. q.wanted <= name + 295145
    BY <1>8, <1>3, Before, SMT DEF ContractEnd
  <2>1. here /\ name' = name /\ pc' = "exec"
    BY <1>8, <1>3, Before, SMT DEF ContractEnd
  <2>9. size \in Sizes /\ Good(q)
    BY <2>1, SMT
  <2>2. PICK u \in {n \in Lengths : n <= 10}, t \in {n \in Lengths : n <= 20} :
           q' = strlcat(strlcat(strlcat(strlcat(strlcat(q, 2), u), 2), t), 14)
    BY <1>8, SMT DEF ContractEnd
  <2>3. u \in Nat /\ t \in Nat /\ u <= 10 /\ t <= 20
    BY <1>2, SMT
  <2>8. u \in Nat /\ t \in Nat
    BY <2>3, SMT
  <2> DEFINE c == strlcat(strlcat(q, 2), u)
  <2>4. Good(c) /\ c.wanted = q.wanted + 2 + u
    BY <1>12, <2>9, <2>8, CatTwice, Zenon
  <2>5. q' = strlcat(strlcat(strlcat(c, 2), t), 14)
    BY <2>2, SMT
  <2> HIDE DEF c
  <2>10. Good(c)
    BY <2>4, SMT
  <2>6. Good(q') /\ q'.wanted = c.wanted + 2 + t + 14
    <3>1. Good(strlcat(strlcat(strlcat(c, 2), t), 14))
      BY <1>14, <2>9, <2>8, <2>10, CatThrice, SMT
    <3>2. strlcat(strlcat(strlcat(c, 2), t), 14).wanted = c.wanted + 2 + t + 14
      BY <1>14, <2>9, <2>8, <2>10, CatThrice, SMT
    <3> QED BY <3>1, <3>2, <2>5, Zenon
  <2>7. q'.wanted <= name' + 295193
    BY <2>0, <2>1, <2>3, <2>4, <2>6, SMT
  <2> QED BY <1>0, <2>1, <2>6, <2>7, AfterContract, SMT
<1> QED BY <1>4, <1>5, <1>6, <1>7, <1>8, SMT

\* A query begins with what is copied or printed into a new buffer.
LEMMA StartKeeps == ASSUME QueryInv, LoginQuery \/ EditStart \/ ContractStart PROVE QueryInv'
<1>0. regen \in BOOLEAN /\ name \in Nat
  BY SMT DEF QueryInv, TypeOK
<1>1. CASE LoginQuery
  <2>1. PICK n \in Lengths : q' = snprintf(LoginSize, 59 + n + 88)
    BY <1>1, SMT DEF LoginQuery
  <2>2. n \in Nat
    BY QueryAssumption, SMT
  <2>3. size' = 8192 /\ pc' = "exec" /\ regen' = regen /\ name' = name
    BY <1>1, SMT DEF LoginQuery, LoginSize
  <2>4. Good(q)'
    BY <2>1, <2>2, <2>3, SMT DEF snprintf, Good, Least, LoginSize
  <2>5. TypeOK'
    BY <1>0, <2>3, <2>4, SMT DEF TypeOK, Good, LoginSize
  <2> QED BY <2>3, <2>4, <2>5, SMT DEF QueryInv, EditSize, ContractSize, EditPcs, ContractPcs
<1>2. CASE EditStart
  <2>1. /\ size' = 16384 /\ q' = [dst |-> 25, top |-> 16384, wanted |-> 25]
        /\ pc' = "admin" /\ regen' = FALSE /\ name' = name
    BY <1>2, SMT DEF EditStart, EditSize, strncpy
  <2>2. Good(q)'
    BY <2>1, SMT DEF Good, Least
  <2>3. TypeOK'
    <3>1. regen' = FALSE
      BY <2>1, SMT
    <3>2. regen' \in BOOLEAN
      BY <3>1, Zenon
    <3> QED BY <1>0, <2>1, <2>2, <3>2, SMT DEF TypeOK, Good, EditSize, EditPcs
  <2> QED BY <2>1, <2>2, <2>3, SMT DEF QueryInv, EditSize, ContractSize, EditPcs, ContractPcs, EditBound
<1>3. CASE ContractStart
  <2>1. /\ size' = 2097152 /\ q' = [dst |-> 89, top |-> 2097152, wanted |-> 89]
        /\ pc' = "name" /\ regen' = regen /\ name' = 0
    BY <1>3, SMT DEF ContractStart, ContractSize, strncpy
  <2>2. Good(q)'
    BY <2>1, SMT DEF Good, Least
  <2>3. TypeOK'
    BY <1>0, <2>1, <2>2, SMT DEF TypeOK, Good, ContractSize, ContractPcs
  <2> QED BY <2>1, <2>2, <2>3, SMT
          DEF QueryInv, EditSize, ContractSize, EditPcs, ContractPcs, ContractBound
<1> QED BY <1>1, <1>2, <1>3, SMT

\* Between two queries there is no buffer.
LEMMA IdleInv ==
    ASSUME pc = "idle", size = 0, q = Empty, regen \in BOOLEAN, name = 0
    PROVE  QueryInv
  BY SMT DEF QueryInv, TypeOK, Empty, EditPcs, ContractPcs, EditSize, ContractSize, LoginSize

\* Every step keeps the invariant.
LEMMA QueryStep == QueryInv /\ [Next]_vars => QueryInv'
<1> SUFFICES ASSUME QueryInv, [Next]_vars PROVE QueryInv'
  OBVIOUS
<1>1. CASE LoginQuery \/ EditStart \/ ContractStart
  BY <1>1, StartKeeps, SMT
<1>2. CASE EditAdmin \/ EditUsername \/ EditPassword \/ EditFirstName \/ EditLastName
              \/ EditToken \/ EditWhere
  BY <1>2, EditKeeps, SMT
<1>3. CASE ContractName \/ ContractDescription \/ ContractPrice \/ ContractAttachment
              \/ ContractEnd
  BY <1>3, ContractKeeps, SMT
<1>4. CASE Exec
  <2>1. regen' = FALSE
    BY <1>4 DEF Exec
  <2>2. regen' \in BOOLEAN
    BY <2>1, Zenon
  <2> QED BY <1>4, <2>2, SMT DEF Exec, QueryInv, TypeOK, Empty, EditPcs, ContractPcs,
                                 EditSize, ContractSize, LoginSize
<1>5. CASE UNCHANGED vars
  BY <1>5, SMT DEF vars, QueryInv, TypeOK, Good
<1> QED BY <1>1, <1>2, <1>3, <1>4, <1>5, SMT DEF Next

\* The bounds of the places give the properties.
LEMMA QueryInvImplies ==
    QueryInv => TypeOK /\ InsideBuffer /\ PrefixKept /\ UpdateIsWhole /\ InsertCutOnlyByName
<1> SUFFICES ASSUME QueryInv
             PROVE  TypeOK /\ InsideBuffer /\ PrefixKept /\ UpdateIsWhole /\ InsertCutOnlyByName
  OBVIOUS
<1>1. TypeOK /\ name \in Nat
  BY SMT DEF QueryInv, TypeOK
<1>2. InsideBuffer /\ PrefixKept
  BY SMT DEF QueryInv, Good, InsideBuffer, PrefixKept
<1>3. UpdateIsWhole
  <2> SUFFICES ASSUME size = EditSize, pc = "exec" PROVE q.dst = q.wanted
    BY SMT DEF UpdateIsWhole
  <2>1. q.wanted <= 772 /\ size = 16384 /\ q.wanted \in Nat
    BY SMT DEF QueryInv, EditSize, Good
  <2>2. q.dst = Least(q.wanted, size - 1)
    BY <2>1, SMT DEF QueryInv, Good
  <2> QED BY <2>1, <2>2, SMT DEF Least
<1>4. InsertCutOnlyByName
  <2> SUFFICES ASSUME size = ContractSize, q.dst # q.wanted PROVE name > NameRoom
    BY SMT DEF InsertCutOnlyByName
  <2>1. size = 2097152 /\ Good(q)
    BY SMT DEF QueryInv, ContractSize
  <2>2. q.wanted > 2097151 /\ q.wanted \in Nat
    BY <2>1, SMT DEF Good, Least
  <2>3. pc \in ContractPcs \cup {"exec", "crashed"}
    BY SMT DEF QueryInv, TypeOK, EditSize, ContractSize, EditPcs, ContractPcs
  <2>4. q.wanted <= name + 295193
    <3>1. CASE pc \in ContractPcs
      <4>1. \A p \in ContractPcs : ContractBound[p] \in Nat /\ ContractBound[p] <= 295193
        BY SMT DEF ContractPcs, ContractBound
      <4>2. q.wanted <= name + ContractBound[pc]
        BY <3>1, SMT DEF QueryInv
      <4> QED BY <1>1, <2>2, <3>1, <4>1, <4>2, SMT
    <3>2. CASE pc \in {"exec", "crashed"}
      BY <3>2, SMT DEF QueryInv
    <3> QED BY <2>3, <3>1, <3>2, SMT
  <2>5. NameRoom = 2097151 - 295193
    BY SMT DEF NameRoom, ContractSize
  <2> QED BY <1>1, <2>2, <2>4, <2>5, SMT
<1> QED BY <1>1, <1>2, <1>3, <1>4, SMT

\* The invariant holds for ever.
LEMMA QueryAlways == Spec => []QueryInv
<1>1. Init => QueryInv
  <2> SUFFICES ASSUME Init PROVE QueryInv
    OBVIOUS
  <2>1. regen \in BOOLEAN
    BY Zenon DEF Init
  <2> QED BY <2>1, IdleInv, SMT DEF Init
<1>2. QueryInv /\ [Next]_vars => QueryInv'
  BY QueryStep, SMT
<1> QED BY <1>1, <1>2, PTL DEF Spec

-----------------------------------------------------------------------------
\* Every buffer, length and step of the three handlers has its type.
THEOREM QueryTypes == Spec => []TypeOK
  BY QueryAlways, QueryInvImplies, PTL

\* strlcat and snprintf never write behind a buffer of the handlers, and leave
\* it terminated, however long the texts of a request are.
THEOREM BuffersSafe == Spec => []InsideBuffer
  BY QueryAlways, QueryInvImplies, PTL

\* The buffer holds the beginning of the query, cut only where it is full.
THEOREM PrefixSafe == Spec => []PrefixKept
  BY QueryAlways, QueryInvImplies, PTL

\* No request makes edit_me send an UPDATE without its WHERE.
THEOREM UpdateSafe == Spec => []UpdateIsWhole
  BY QueryAlways, QueryInvImplies, PTL

\* Only a name of more than NameRoom bytes cuts the INSERT of request_contract.
THEOREM InsertSafe == Spec => []InsertCutOnlyByName
  BY QueryAlways, QueryInvImplies, PTL
=============================================================================
