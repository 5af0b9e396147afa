------------------------ MODULE ErrorTranslationProofs ------------------------
(***************************************************************************)
(* Theorems about ErrorTranslation, for any number of errors in a request. *)
(*                                                                         *)
(* The provers know a recursive function as a choice: that there is one to *)
(* choose, and what it is at a place, follows from a least place where it  *)
(* would fail.                                                             *)
(***************************************************************************)
EXTENDS ErrorTranslation, WellFoundedInduction, FiniteSetTheorems, FunctionTheorems,
        TLAPS

-----------------------------------------------------------------------------
(* Recursive functions *)

\* The least number of a set.
LEMMA LeastOf ==
  ASSUME NEW S \in SUBSET Nat, S # {}
  PROVE  \E n \in S : \A m \in S : n <= m
  <1>1. PICK n \in S : \A m \in S : ~(<<m, n>> \in OpToRel(<, Nat))
    BY NatLessThanWellFounded, WFMin
  <1>2. \A m \in S : ~(m < n)
    BY <1>1 DEF OpToRel
  <1>3. QED
    BY <1>2

\* The function of Branches at a number of branches.
JoinedOf(below) ==
  CHOOSE joined : joined = [n \in 0..Len(below) |->
    IF n = 0 THEN Nothing ELSE Branch(joined[n - 1], below[n])]

LEMMA JoinedExists ==
  ASSUME NEW below, Len(below) \in Nat
  PROVE  /\ Branches(below) = JoinedOf(below)[Len(below)]
         /\ JoinedOf(below) = [n \in 0..Len(below) |->
              IF n = 0 THEN Nothing ELSE Branch(JoinedOf(below)[n - 1], below[n])]
  <1> DEFINE Is(joined, last) == joined = [n \in 0..last |->
               IF n = 0 THEN Nothing ELSE Branch(joined[n - 1], below[n])]
  <1>1. Branches(below) = JoinedOf(below)[Len(below)]
    BY DEF Branches, JoinedOf
  <1>2. \A last \in 0..Len(below) : \E joined : Is(joined, last)
    <2> DEFINE missing == {last \in 0..Len(below) : ~\E joined : Is(joined, last)}
    <2>1. SUFFICES ASSUME missing # {} PROVE FALSE
      OBVIOUS
    <2>2. PICK last \in missing : \A other \in missing : last <= other
      <3>1. missing \subseteq Nat
        OBVIOUS
      <3> HIDE DEF missing
      <3>2. QED
        BY <2>1, <3>1, LeastOf
    <2>3. last # 0
      <3>1. Is([n \in 0..0 |-> Nothing], 0)
        OBVIOUS
      <3>2. QED
        BY <2>2, <3>1
    <2>4. PICK before : Is(before, last - 1)
      <3>1. last - 1 \in 0..Len(below) /\ ~(last <= last - 1)
        BY <2>2, <2>3
      <3>2. last - 1 \notin missing
        BY <2>2, <3>1
      <3>3. QED
        BY <3>1, <3>2
    <2> DEFINE joined == [n \in 0..last |->
                            IF n = last THEN Branch(before[last - 1], below[last])
                            ELSE before[n]]
    <2>5. \A n \in 0..last :
            joined[n] = IF n = 0 THEN Nothing ELSE Branch(joined[n - 1], below[n])
      BY <2>2, <2>3, <2>4
    <2>6. Is(joined, last)
      BY <2>5
    <2>7. QED
      BY <2>2, <2>6
  <1>3. \E joined : Is(joined, Len(below))
    BY <1>2
  <1>4. Is(JoinedOf(below), Len(below))
    BY <1>3 DEF JoinedOf
  <1>5. QED
    BY <1>1, <1>4

-----------------------------------------------------------------------------
(* What is gathered from several errors *)

Messages == [says : Seq(Nat), fields : Seq(Nat)]

Results == [msg : Messages, first : Nat]

LEMMA RangeOfConcat ==
  ASSUME NEW s \in Seq(Nat), NEW t \in Seq(Nat)
  PROVE  s \o t \in Seq(Nat) /\ Range(s \o t) = Range(s) \cup Range(t)
  <1>1. \A i \in DOMAIN s : i \in DOMAIN (s \o t) /\ (s \o t)[i] = s[i]
    OBVIOUS
  <1>2. \A i \in DOMAIN t : Len(s) + i \in DOMAIN (s \o t) /\ (s \o t)[Len(s) + i] = t[i]
    OBVIOUS
  <1>3. \A i \in DOMAIN (s \o t) : \/ i \in DOMAIN s /\ (s \o t)[i] = s[i]
                                   \/ i - Len(s) \in DOMAIN t /\ (s \o t)[i] = t[i - Len(s)]
    OBVIOUS
  <1>4. Range(s \o t) \subseteq Range(s) \cup Range(t)
    BY <1>3 DEF Range
  <1>5. Range(s) \subseteq Range(s \o t)
    BY <1>1, Zenon DEF Range
  <1>6. Range(t) \subseteq Range(s \o t)
    BY <1>2, Zenon DEF Range
  <1>7. QED
    BY <1>4, <1>5, <1>6

LEMMA Accumulates ==
  ASSUME NEW acc \in Messages, NEW e, e.says \in Seq(Nat), e.fields \in Seq(Nat)
  PROVE  /\ accumulate(acc, e) \in Messages
         /\ Range(accumulate(acc, e).says) = Range(acc.says) \cup Range(e.says)
         /\ Range(accumulate(acc, e).fields) = Range(acc.fields) \cup Range(e.fields)
  <1>1. acc.says \in Seq(Nat) /\ acc.fields \in Seq(Nat)
    BY DEF Messages
  <1>2. QED
    BY <1>1, RangeOfConcat DEF accumulate, Messages

LEMMA NothingIsEmpty ==
  /\ Empty \in Messages /\ Nothing \in Results
  /\ Range(Empty.says) = {} /\ Range(Empty.fields) = {}
  BY DEF Empty, Nothing, Messages, Results, Range

\* The result of the first of several branches: all that they say.
Gathers(r, below, last) ==
  /\ r \in Results
  /\ Range(r.msg.says) = UNION {Range(below[k].msg.says) : k \in 1..last}
  /\ Range(r.msg.fields) = UNION {Range(below[k].msg.fields) : k \in 1..last}
  /\ IF r.first = 0 THEN \A k \in 1..last : below[k].first = 0
     ELSE \E k \in 1..last : below[k].first = r.first

LEMMA BranchesGather ==
  ASSUME NEW below \in Seq(Results)
  PROVE  Gathers(Branches(below), below, Len(below))
  <1> DEFINE joined == JoinedOf(below)
  <1> DEFINE failing == {n \in 0..Len(below) : ~Gathers(joined[n], below, n)}
  <1>1. /\ Len(below) \in Nat
        /\ Branches(below) = joined[Len(below)]
        /\ joined = [n \in 0..Len(below) |->
             IF n = 0 THEN Nothing ELSE Branch(joined[n - 1], below[n])]
    BY JoinedExists
  <1> HIDE DEF joined
  <1>2. SUFFICES ASSUME failing # {} PROVE FALSE
    <2>1. Len(below) \in 0..Len(below)
      BY <1>1
    <2>2. failing = {} => Gathers(joined[Len(below)], below, Len(below))
      BY <2>1
    <2>3. QED
      BY <1>1, <2>2
  <1>3. PICK n \in failing : \A m \in failing : n <= m
    <2>1. failing \subseteq Nat
      OBVIOUS
    <2> HIDE DEF failing
    <2>2. QED
      BY <1>2, <2>1, LeastOf
  <1>4. n # 0
    <2>1. joined[0] = Nothing
      BY <1>1
    <2>2. Gathers(Nothing, below, 0)
      BY NothingIsEmpty DEF Gathers, Nothing
    <2>3. QED
      BY <1>3, <2>1, <2>2
  <1>5. Gathers(joined[n - 1], below, n - 1)
    <2>1. n - 1 \in 0..Len(below) /\ ~(n <= n - 1)
      BY <1>1, <1>3, <1>4
    <2>2. n - 1 \notin failing
      BY <1>3, <2>1
    <2>3. QED
      BY <2>1, <2>2
  <1>6. joined[n] = Branch(joined[n - 1], below[n])
    BY <1>1, <1>3, <1>4
  <1>7. PICK r \in Results : r = joined[n - 1]
    BY <1>5 DEF Gathers
  <1>8. n \in 1..Len(below) /\ below[n] \in Results
    BY <1>1, <1>3, <1>4
  <1>9. /\ r.msg \in Messages /\ r.first \in Nat
        /\ below[n].msg \in Messages /\ below[n].first \in Nat
        /\ below[n].msg.says \in Seq(Nat) /\ below[n].msg.fields \in Seq(Nat)
    BY <1>8 DEF Results, Messages
  <1>10. Gathers(Branch(r, below[n]), below, n)
    <2>1. 1..n = (1..(n - 1)) \cup {n}
      BY <1>8
    <2>2. /\ accumulate(r.msg, below[n].msg) \in Messages
          /\ Range(accumulate(r.msg, below[n].msg).says)
               = Range(r.msg.says) \cup Range(below[n].msg.says)
          /\ Range(accumulate(r.msg, below[n].msg).fields)
               = Range(r.msg.fields) \cup Range(below[n].msg.fields)
      BY <1>9, Accumulates
    <2>3. /\ Branch(r, below[n]).msg = accumulate(r.msg, below[n].msg)
          /\ Branch(r, below[n]).first = IF r.first = 0 THEN below[n].first ELSE r.first
          /\ Branch(r, below[n]) \in Results
      BY <1>9, <2>2 DEF Branch, Results
    <2>4. Range(r.msg.says) = UNION {Range(below[k].msg.says) : k \in 1..(n - 1)}
      BY <1>5, <1>7 DEF Gathers
    <2>5. Range(r.msg.fields) = UNION {Range(below[k].msg.fields) : k \in 1..(n - 1)}
      BY <1>5, <1>7 DEF Gathers
    <2>6. IF r.first = 0 THEN \A k \in 1..(n - 1) : below[k].first = 0
          ELSE \E k \in 1..(n - 1) : below[k].first = r.first
      BY <1>5, <1>7 DEF Gathers
    <2>7. Range(Branch(r, below[n]).msg.says) = UNION {Range(below[k].msg.says) : k \in 1..n}
      BY <2>1, <2>2, <2>3, <2>4
    <2>8. Range(Branch(r, below[n]).msg.fields)
            = UNION {Range(below[k].msg.fields) : k \in 1..n}
      BY <2>1, <2>2, <2>3, <2>5
    <2>9. IF Branch(r, below[n]).first = 0 THEN \A k \in 1..n : below[k].first = 0
          ELSE \E k \in 1..n : below[k].first = Branch(r, below[n]).first
      BY <2>1, <2>3, <2>6
    <2>10. QED
      BY <2>3, <2>7, <2>8, <2>9 DEF Gathers
  <1>11. QED
    BY <1>3, <1>6, <1>7, <1>10

-----------------------------------------------------------------------------
(* What is found from an error down *)

\* The codes of errors that are built; the unknown error is made of the answer.
Codes == {"", "invalid_argument", "storage_conflict", "not_found"}

Errors == [kind   : Causes \cup {"app", "wrap", "join"},
           kids   : Seq(Nat),
           code   : Codes,
           says   : Seq(Nat),
           fields : Seq(Nat),
           client : BOOLEAN,
           merge  : BOOLEAN]

\* An error wraps errors that were there before it, two at most, says what is its
\* own, and only an AppError can be for the client.
WellBuilt ==
  /\ errs \in Seq(Errors)
  /\ \A i \in DOMAIN errs :
       /\ Len(errs[i].kids) <= 2
       /\ \A k \in DOMAIN errs[i].kids : errs[i].kids[k] \in 1..(i - 1)
       /\ Range(errs[i].says) \cup Range(errs[i].fields) \subseteq {i}
       /\ errs[i].client => errs[i].kind = "app"

\* The function of generateClientFields at the errors up to one of them.
FoundOf(i) ==
  CHOOSE found : found = [j \in 1..i |->
    Said(j, [k \in DOMAIN errs[j].kids |-> found[errs[j].kids[k]]])]

LEMMA ErrorShape ==
  ASSUME WellBuilt, NEW i \in DOMAIN errs
  PROVE  /\ i \in Nat /\ i >= 1 /\ i <= Len(errs) /\ Len(errs) \in Nat
         /\ errs[i] \in Errors
         /\ errs[i].kids \in Seq(Nat) /\ errs[i].says \in Seq(Nat)
         /\ errs[i].fields \in Seq(Nat) /\ errs[i].client \in BOOLEAN
         /\ \A k \in DOMAIN errs[i].kids : errs[i].kids[k] \in 1..(i - 1)
         /\ \A j \in 1..i : j \in DOMAIN errs
  <1>1. errs \in Seq(Errors)
    BY DEF WellBuilt
  <1>2. errs[i] \in Errors /\ i \in Nat /\ i >= 1 /\ i <= Len(errs) /\ Len(errs) \in Nat
        /\ \A j \in 1..i : j \in DOMAIN errs
    BY <1>1
  <1>3. QED
    BY <1>2 DEF WellBuilt, Errors

LEMMA FoundExists ==
  ASSUME WellBuilt, NEW i \in DOMAIN errs
  PROVE  /\ generateClientFields(i) = FoundOf(i)[i]
         /\ FoundOf(i) = [j \in 1..i |->
              Said(j, [k \in DOMAIN errs[j].kids |-> FoundOf(i)[errs[j].kids[k]]])]
  <1> DEFINE Is(found, last) == found = [j \in 1..last |->
               Said(j, [k \in DOMAIN errs[j].kids |-> found[errs[j].kids[k]]])]
  <1>1. generateClientFields(i) = FoundOf(i)[i]
    BY DEF generateClientFields, FoundOf
  <1>2. \A last \in 0..i : \E found : Is(found, last)
    <2> DEFINE missing == {last \in 0..i : ~\E found : Is(found, last)}
    <2>1. SUFFICES ASSUME missing # {} PROVE FALSE
      OBVIOUS
    <2>2. PICK last \in missing : \A other \in missing : last <= other
      <3>1. missing \subseteq Nat
        OBVIOUS
      <3> HIDE DEF missing
      <3>2. QED
        BY <2>1, <3>1, LeastOf
    <2>3. last # 0
      <3>1. Is([j \in 1..0 |-> Nothing], 0)
        OBVIOUS
      <3>2. QED
        BY <2>2, <3>1
    <2>4. PICK before : Is(before, last - 1)
      <3>1. last - 1 \in 0..i /\ ~(last <= last - 1)
        BY <2>2, <2>3, ErrorShape
      <3>2. last - 1 \notin missing
        BY <2>2, <3>1
      <3>3. QED
        BY <3>1, <3>2
    <2> DEFINE Below(found, j) == [k \in DOMAIN errs[j].kids |-> found[errs[j].kids[k]]]
    <2> DEFINE found == [j \in 1..last |-> IF j = last THEN Said(last, Below(before, last))
                                           ELSE before[j]]
    <2>5. ASSUME NEW j \in 1..last PROVE found[j] = Said(j, Below(found, j))
      <3>1. last \in Nat /\ j \in DOMAIN errs
        BY <2>2, ErrorShape
      <3>2. \A k \in DOMAIN errs[j].kids :
              /\ errs[j].kids[k] \in 1..(last - 1)
              /\ found[errs[j].kids[k]] = before[errs[j].kids[k]]
        BY <3>1, ErrorShape
      <3>3. Below(found, j) = Below(before, j)
        BY <3>2
      <3>4. CASE j = last
        BY <3>3, <3>4
      <3>5. CASE j # last
        <4>1. j \in 1..(last - 1)
          BY <3>1, <3>5
        <4>2. before[j] = Said(j, Below(before, j))
          BY <2>4, <4>1
        <4>3. QED
          BY <3>3, <3>5, <4>2
      <3>6. QED
        BY <3>4, <3>5
    <2>6. Is(found, last)
      BY <2>5
    <2>7. QED
      BY <2>2, <2>6
  <1>3. \E found : Is(found, i)
    <2>1. i \in 0..i
      BY ErrorShape
    <2>2. QED
      BY <1>2, <2>1
  <1>4. Is(FoundOf(i), i)
    BY <1>3 DEF FoundOf
  <1>5. QED
    BY <1>1, <1>4

\* What is said to the client from an error down, given what is below it.
SaysFrom(r, j, below) ==
  /\ r \in Results
  /\ Range(r.msg.says) =
       (IF errs[j].client THEN Range(errs[j].says) ELSE {}) \cup
       (IF errs[j].client /\ ~errs[j].merge THEN {}
        ELSE UNION {Range(below[k].msg.says) : k \in DOMAIN below})
  /\ Range(r.msg.fields) =
       (IF errs[j].client THEN Range(errs[j].fields) ELSE {}) \cup
       (IF errs[j].client /\ ~errs[j].merge THEN {}
        ELSE UNION {Range(below[k].msg.fields) : k \in DOMAIN below})
  /\ IF errs[j].client THEN r.first = j
     ELSE IF r.first = 0 THEN \A k \in DOMAIN below : below[k].first = 0
     ELSE \E k \in DOMAIN below : below[k].first = r.first

LEMMA SaidSays ==
  ASSUME WellBuilt, NEW j \in DOMAIN errs, NEW below \in Seq(Results)
  PROVE  SaysFrom(Said(j, below), j, below)
  <1> DEFINE own == accumulate(Empty, errs[j])
  <1>1. /\ j \in Nat /\ errs[j].client \in BOOLEAN
        /\ errs[j].says \in Seq(Nat) /\ errs[j].fields \in Seq(Nat)
        /\ IsClientErr(errs[j]) = errs[j].client
    BY ErrorShape DEF WellBuilt, IsClientErr
  <1>2. Gathers(Branches(below), below, Len(below)) /\ DOMAIN below = 1..Len(below)
    BY BranchesGather
  <1>3. /\ own \in Messages /\ Range(own.says) = Range(errs[j].says)
        /\ Range(own.fields) = Range(errs[j].fields)
    <2>1. PICK e : e = errs[j]
      OBVIOUS
    <2>2. /\ accumulate(Empty, e) \in Messages
          /\ Range(accumulate(Empty, e).says) = Range(Empty.says) \cup Range(e.says)
          /\ Range(accumulate(Empty, e).fields) = Range(Empty.fields) \cup Range(e.fields)
      BY <1>1, <2>1, NothingIsEmpty, Accumulates
    <2>3. QED
      BY <2>1, <2>2, NothingIsEmpty
  <1>4. PICK r \in Results : r = Branches(below)
    BY <1>2 DEF Gathers
  <1>5. /\ r.msg \in Messages /\ r.msg.says \in Seq(Nat) /\ r.msg.fields \in Seq(Nat)
    BY DEF Results, Messages
  <1> DEFINE both == accumulate(own, r.msg)
  <1>6. /\ both \in Messages
        /\ Range(both.says) = Range(own.says) \cup Range(r.msg.says)
        /\ Range(both.fields) = Range(own.fields) \cup Range(r.msg.fields)
    BY <1>3, <1>5, Accumulates
  <1>7. Said(j, below) = IF errs[j].client
                         THEN [msg |-> IF errs[j].merge THEN both ELSE own, first |-> j]
                         ELSE r
    BY <1>1, <1>4 DEF Said
  <1> HIDE DEF own, both
  <1>8. CASE ~errs[j].client
    BY <1>2, <1>4, <1>7, <1>8 DEF SaysFrom, Gathers
  <1>9. CASE errs[j].client /\ errs[j].merge
    <2>1. Said(j, below) = [msg |-> both, first |-> j]
      BY <1>7, <1>9
    <2>2. Said(j, below) \in Results
      BY <1>1, <1>6, <2>1 DEF Results
    <2>3. QED
      BY <1>2, <1>3, <1>4, <1>6, <1>9, <2>1, <2>2 DEF SaysFrom, Gathers
  <1>10. CASE errs[j].client /\ ~errs[j].merge
    <2>1. Said(j, below) = [msg |-> own, first |-> j]
      BY <1>7, <1>10
    <2>2. Said(j, below) \in Results
      BY <1>1, <1>3, <2>1 DEF Results
    <2>3. QED
      BY <1>3, <1>10, <2>1, <2>2 DEF SaysFrom
  <1>11. QED
    BY <1>8, <1>9, <1>10

\* What is found below an error.
FoundBelow(i, j) == [k \in DOMAIN errs[j].kids |-> FoundOf(i)[errs[j].kids[k]]]

LEMMA FoundSays ==
  ASSUME WellBuilt, NEW i \in DOMAIN errs, NEW j \in 1..i
  PROVE  /\ FoundOf(i)[j] \in Results
         /\ DOMAIN FoundBelow(i, j) = DOMAIN errs[j].kids
         /\ SaysFrom(FoundOf(i)[j], j, FoundBelow(i, j))
  <1> DEFINE Holds(n) == /\ FoundOf(i)[n] \in Results
                         /\ DOMAIN FoundBelow(i, n) = DOMAIN errs[n].kids
                         /\ SaysFrom(FoundOf(i)[n], n, FoundBelow(i, n))
  <1> DEFINE failing == {n \in 1..i : ~Holds(n)}
  <1>1. SUFFICES ASSUME failing # {} PROVE FALSE
    OBVIOUS
  <1>2. PICK n \in failing : \A m \in failing : n <= m
    <2>1. failing \subseteq Nat
      OBVIOUS
    <2> HIDE DEF failing
    <2>2. QED
      BY <1>1, <2>1, LeastOf
  <1>3. n \in 1..i /\ n \in DOMAIN errs /\ i \in Nat
    BY <1>2, ErrorShape
  <1>4. ASSUME NEW k \in DOMAIN errs[n].kids
        PROVE  FoundOf(i)[errs[n].kids[k]] \in Results
    <2>1. errs[n].kids[k] \in 1..(n - 1)
      BY <1>3, ErrorShape
    <2>2. errs[n].kids[k] \in 1..i /\ ~(n <= errs[n].kids[k])
      BY <1>3, <2>1
    <2>3. errs[n].kids[k] \notin failing
      BY <1>2, <2>2
    <2>4. QED
      BY <2>2, <2>3
  <1>5. FoundBelow(i, n) \in Seq(Results) /\ DOMAIN FoundBelow(i, n) = DOMAIN errs[n].kids
    <2>1. errs[n].kids \in Seq(Nat)
      BY <1>3, ErrorShape
    <2>2. QED
      BY <1>4, <2>1 DEF FoundBelow
  <1>6. FoundOf(i)[n] = Said(n, FoundBelow(i, n))
    BY <1>3, FoundExists DEF FoundBelow
  <1>7. SaysFrom(FoundOf(i)[n], n, FoundBelow(i, n))
    BY <1>3, <1>5, <1>6, SaidSays
  <1>8. Holds(n)
    BY <1>5, <1>7 DEF SaysFrom
  <1> HIDE DEF Holds
  <1>9. QED
    BY <1>2, <1>8

-----------------------------------------------------------------------------
(* What an error consists of *)

\* The function of Kinds at the errors up to one of them.
KindsOf(i) ==
  CHOOSE kinds : kinds = [j \in 1..i |->
    {errs[j].kind} \cup UNION {kinds[errs[j].kids[k]] : k \in DOMAIN errs[j].kids}]

LEMMA KindsExists ==
  ASSUME WellBuilt, NEW i \in DOMAIN errs
  PROVE  /\ Kinds(i) = KindsOf(i)[i]
         /\ KindsOf(i) = [j \in 1..i |->
              {errs[j].kind} \cup
              UNION {KindsOf(i)[errs[j].kids[k]] : k \in DOMAIN errs[j].kids}]
  <1> DEFINE Seen(kinds, j) == {errs[j].kind} \cup
               UNION {kinds[errs[j].kids[k]] : k \in DOMAIN errs[j].kids}
  <1> DEFINE Is(kinds, last) == kinds = [j \in 1..last |-> Seen(kinds, j)]
  <1>1. Kinds(i) = KindsOf(i)[i]
    BY DEF Kinds, KindsOf
  <1>2. \A last \in 0..i : \E kinds : Is(kinds, last)
    <2> DEFINE missing == {last \in 0..i : ~\E kinds : Is(kinds, last)}
    <2>1. SUFFICES ASSUME missing # {} PROVE FALSE
      OBVIOUS
    <2>2. PICK last \in missing : \A other \in missing : last <= other
      <3>1. missing \subseteq Nat
        OBVIOUS
      <3> HIDE DEF missing
      <3>2. QED
        BY <2>1, <3>1, LeastOf
    <2>3. last # 0
      <3>1. Is([j \in 1..0 |-> {}], 0)
        OBVIOUS
      <3>2. QED
        BY <2>2, <3>1
    <2>4. PICK before : Is(before, last - 1)
      <3>1. last - 1 \in 0..i /\ ~(last <= last - 1)
        BY <2>2, <2>3, ErrorShape
      <3>2. last - 1 \notin missing
        BY <2>2, <3>1
      <3>3. QED
        BY <3>1, <3>2
    <2> DEFINE kinds == [j \in 1..last |-> IF j = last THEN Seen(before, last) ELSE before[j]]
    <2>5. ASSUME NEW j \in 1..last PROVE kinds[j] = Seen(kinds, j)
      <3>1. last \in Nat /\ j \in DOMAIN errs
        BY <2>2, ErrorShape
      <3>2. \A k \in DOMAIN errs[j].kids :
              /\ errs[j].kids[k] \in 1..(last - 1)
              /\ kinds[errs[j].kids[k]] = before[errs[j].kids[k]]
        BY <3>1, ErrorShape
      <3>3. Seen(kinds, j) = Seen(before, j)
        <4>1. \A x : (\E k \in DOMAIN errs[j].kids : x \in kinds[errs[j].kids[k]])
                     <=> (\E k \in DOMAIN errs[j].kids : x \in before[errs[j].kids[k]])
          BY <3>2
        <4> HIDE DEF kinds
        <4>2. QED
          BY <4>1
      <3>4. CASE j = last
        <4>1. kinds[j] = Seen(before, j)
          BY <3>4
        <4> HIDE DEF kinds, Seen
        <4>2. QED
          BY <3>3, <4>1
      <3>5. CASE j # last
        <4>1. j \in 1..(last - 1)
          BY <3>1, <3>5
        <4>2. before[j] = Seen(before, j)
          BY <2>4, <4>1
        <4>3. QED
          BY <3>3, <3>5, <4>2
      <3>6. QED
        BY <3>4, <3>5
    <2>6. Is(kinds, last)
      BY <2>5
    <2>7. QED
      BY <2>2, <2>6
  <1>3. \E kinds : Is(kinds, i)
    <2>1. i \in 0..i
      BY ErrorShape
    <2>2. QED
      BY <1>2, <2>1
  <1>4. Is(KindsOf(i), i)
    BY <1>3 DEF KindsOf
  <1>5. QED
    BY <1>1, <1>4

-----------------------------------------------------------------------------
(* Views *)

\* Errors that one in view wraps are in view, unless it is opaque.
LEMMA ViewIsClosed ==
  ASSUME WellBuilt, errs # <<>>, NEW opaque
  PROVE  /\ Len(errs) \in DOMAIN errs /\ Len(errs) \in InView(opaque)
         /\ InView(opaque) \subseteq 1..Len(errs) /\ DOMAIN errs = 1..Len(errs)
         /\ \A i \in InView(opaque) \ opaque :
              \A k \in DOMAIN errs[i].kids : errs[i].kids[k] \in InView(opaque)
  <1>1. Len(errs) \in DOMAIN errs /\ DOMAIN errs = 1..Len(errs)
    BY DEF WellBuilt
  <1>2. Len(errs) \in InView(opaque)
    BY <1>1 DEF InView, Closed
  <1>3. ASSUME NEW i \in InView(opaque) \ opaque, NEW k \in DOMAIN errs[i].kids
        PROVE  errs[i].kids[k] \in InView(opaque)
    <2>1. i \in DOMAIN errs
      BY DEF InView
    <2>2. errs[i].kids[k] \in DOMAIN errs
      BY <2>1, ErrorShape
    <2>3. ASSUME NEW S \in SUBSET DOMAIN errs, Closed(S, opaque)
          PROVE  errs[i].kids[k] \in S
      BY <2>3 DEF InView, Closed
    <2>4. QED
      BY <2>2, <2>3 DEF InView
  <1>4. QED
    BY <1>1, <1>2, <1>3 DEF InView

\* An error has its own and, unless it is opaque, what those below it have.
Carried(own, all, opaque) ==
  \A j \in 1..Len(errs) : \A x :
    x \in all[j] <=>
      \/ x \in own[j]
      \/ j \notin opaque /\ \E k \in DOMAIN errs[j].kids : x \in all[errs[j].kids[k]]

\* Then the returned error has what all errors in view have of their own.
LEMMA ViewHas ==
  ASSUME WellBuilt, errs # <<>>, NEW opaque, NEW own, NEW all, Carried(own, all, opaque)
  PROVE  all[Len(errs)] = UNION {own[j] : j \in InView(opaque)}
  <1> DEFINE last == Len(errs)
  <1> DEFINE V == InView(opaque)
  <1> DEFINE told == UNION {own[j] : j \in V}
  <1>1. /\ last \in DOMAIN errs /\ last \in V /\ V \subseteq 1..last
        /\ DOMAIN errs = 1..last
        /\ \A i \in V \ opaque : \A k \in DOMAIN errs[i].kids : errs[i].kids[k] \in V
    BY ViewIsClosed
  <1>2. told \subseteq all[last]
    <2> DEFINE C == {j \in DOMAIN errs : all[j] \subseteq all[last]}
    <2>1. ASSUME NEW i \in C \ opaque, NEW k \in DOMAIN errs[i].kids
          PROVE  errs[i].kids[k] \in C
      <3>1. errs[i].kids[k] \in DOMAIN errs
        BY ErrorShape
      <3>2. all[errs[i].kids[k]] \subseteq all[i]
        BY <1>1, <2>1 DEF Carried
      <3>3. QED
        BY <3>1, <3>2
    <2>2. Closed(C, opaque)
      BY <1>1, <2>1 DEF Closed
    <2>3. V \subseteq C
      BY <2>2 DEF InView
    <2>4. \A j \in V : own[j] \subseteq all[j]
      BY <1>1 DEF Carried
    <2>5. QED
      BY <2>3, <2>4
  <1>3. \A j \in V : all[j] \subseteq told
    <2> DEFINE failing == {j \in V : ~(all[j] \subseteq told)}
    <2>1. SUFFICES ASSUME failing # {} PROVE FALSE
      OBVIOUS
    <2>2. PICK n \in failing : \A m \in failing : n <= m
      <3>1. failing \subseteq Nat
        BY <1>1
      <3> HIDE DEF failing
      <3>2. QED
        BY <2>1, <3>1, LeastOf
    <2>3. n \in V /\ n \in DOMAIN errs /\ n \in Nat /\ n \in 1..last
      BY <1>1, <2>2
    <2>4. ASSUME n \notin opaque, NEW k \in DOMAIN errs[n].kids
          PROVE  all[errs[n].kids[k]] \subseteq told
      <3>1. errs[n].kids[k] \in V
        BY <1>1, <2>3, <2>4
      <3>2. errs[n].kids[k] \in 1..(n - 1)
        BY <2>3, ErrorShape
      <3>3. errs[n].kids[k] \notin failing
        BY <2>2, <2>3, <3>2
      <3>4. QED
        BY <3>1, <3>3
    <2>5. own[n] \subseteq told
      BY <2>3
    <2>6. all[n] \subseteq told
      <3> HIDE DEF told
      <3>1. QED
        BY <2>3, <2>4, <2>5 DEF Carried
    <2>7. QED
      BY <2>2, <2>6
  <1>4. QED
    BY <1>1, <1>2, <1>3

LEMMA KindsInView ==
  ASSUME WellBuilt, errs # <<>>
  PROVE  \A kind : kind \in Kinds(Len(errs)) <=> Causing(kind)
  <1>1. Len(errs) \in DOMAIN errs
    BY ViewIsClosed
  <1>2. /\ Kinds(Len(errs)) = KindsOf(Len(errs))[Len(errs)]
        /\ \A j \in 1..Len(errs) : KindsOf(Len(errs))[j] = {errs[j].kind} \cup
             UNION {KindsOf(Len(errs))[errs[j].kids[k]] : k \in DOMAIN errs[j].kids}
    BY <1>1, KindsExists
  <1> DEFINE own == [j \in DOMAIN errs |-> {errs[j].kind}]
  <1>3. PICK all : all = KindsOf(Len(errs))
    OBVIOUS
  <1>4. Carried(own, all, {})
    BY <1>2, <1>3, ViewIsClosed DEF Carried
  <1> HIDE DEF own
  <1>5. all[Len(errs)] = UNION {own[j] : j \in InView({})}
    BY <1>4, ViewHas
  <1>6. \A j \in InView({}) : own[j] = {errs[j].kind}
    BY ViewIsClosed DEF own
  <1>7. QED
    BY <1>2, <1>3, <1>5, <1>6 DEF Causing

\* What the returned error tells is what the errors say that are shown.
LEMMA FoundShown ==
  ASSUME WellBuilt, errs # <<>>, NEW r, r = generateClientFields(Len(errs))
  PROVE  /\ r \in Results
         /\ Range(r.msg.says) = UNION {Range(errs[i].says) : i \in Shown}
         /\ Range(r.msg.fields) = UNION {Range(errs[i].fields) : i \in Shown}
         /\ IF r.first = 0 THEN Shown = {} ELSE r.first \in Shown
  <1> DEFINE last == Len(errs)
  <1> DEFINE V == InView(Hiding)
  <1>1. /\ last \in DOMAIN errs /\ last \in V /\ V \subseteq 1..last
        /\ DOMAIN errs = 1..last
        /\ \A i \in V \ Hiding : \A k \in DOMAIN errs[i].kids : errs[i].kids[k] \in V
    BY ViewIsClosed
  <1>2. last \in Nat
    BY <1>1, ErrorShape
  <1>3. PICK f : f = FoundOf(last)
    OBVIOUS
  <1>4. r = f[last]
    BY <1>1, <1>3, FoundExists
  <1>5. ASSUME NEW j \in 1..last
        PROVE  /\ f[j] \in Results /\ (j \in Hiding <=> errs[j].client /\ ~errs[j].merge)
               /\ DOMAIN FoundBelow(last, j) = DOMAIN errs[j].kids
               /\ \A k \in DOMAIN errs[j].kids : FoundBelow(last, j)[k] = f[errs[j].kids[k]]
               /\ SaysFrom(f[j], j, FoundBelow(last, j))
    BY <1>1, <1>3, FoundSays DEF FoundBelow, Hiding
  <1>6. Range(r.msg.says) = UNION {Range(errs[i].says) : i \in Shown}
    <2> DEFINE own == [j \in 1..last |-> IF errs[j].client THEN Range(errs[j].says) ELSE {}]
    <2> DEFINE all == [j \in 1..last |-> Range(f[j].msg.says)]
    <2>1. ASSUME NEW j \in 1..last, NEW x
          PROVE  x \in all[j] <=> \/ x \in own[j]
                                  \/ /\ j \notin Hiding
                                     /\ \E k \in DOMAIN errs[j].kids : x \in all[errs[j].kids[k]]
      <3>1. \A k \in DOMAIN errs[j].kids : errs[j].kids[k] \in 1..last
        BY <1>1, <1>2, ErrorShape
      <3>2. \A k \in DOMAIN errs[j].kids :
              all[errs[j].kids[k]] = Range(FoundBelow(last, j)[k].msg.says)
        BY <1>5, <3>1
      <3>3. all[j] = Range(f[j].msg.says)
            /\ own[j] = IF errs[j].client THEN Range(errs[j].says) ELSE {}
        OBVIOUS
      <3> HIDE DEF all, own
      <3>4. x \in UNION {Range(FoundBelow(last, j)[k].msg.says) :
                           k \in DOMAIN FoundBelow(last, j)}
              <=> \E k \in DOMAIN errs[j].kids : x \in all[errs[j].kids[k]]
        BY <1>5, <3>2
      <3>5. QED
        BY <1>5, <3>3, <3>4 DEF SaysFrom
    <2>2. all[last] = Range(r.msg.says)
      BY <1>1, <1>4
    <2>3. \A j \in V : own[j] = IF errs[j].client THEN Range(errs[j].says) ELSE {}
      BY <1>1
    <2> HIDE DEF own, all
    <2>4. all[last] = UNION {own[j] : j \in V}
      <3>1. Carried(own, all, Hiding)
        BY <2>1 DEF Carried
      <3>2. QED
        BY <3>1, ViewHas
    <2>5. QED
      BY <2>2, <2>3, <2>4 DEF Shown
  <1>7. Range(r.msg.fields) = UNION {Range(errs[i].fields) : i \in Shown}
    <2> DEFINE own == [j \in 1..last |-> IF errs[j].client THEN Range(errs[j].fields) ELSE {}]
    <2> DEFINE all == [j \in 1..last |-> Range(f[j].msg.fields)]
    <2>1. ASSUME NEW j \in 1..last, NEW x
          PROVE  x \in all[j] <=> \/ x \in own[j]
                                  \/ /\ j \notin Hiding
                                     /\ \E k \in DOMAIN errs[j].kids : x \in all[errs[j].kids[k]]
      <3>1. \A k \in DOMAIN errs[j].kids : errs[j].kids[k] \in 1..last
        BY <1>1, <1>2, ErrorShape
      <3>2. \A k \in DOMAIN errs[j].kids :
              all[errs[j].kids[k]] = Range(FoundBelow(last, j)[k].msg.fields)
        BY <1>5, <3>1
      <3>3. all[j] = Range(f[j].msg.fields)
            /\ own[j] = IF errs[j].client THEN Range(errs[j].fields) ELSE {}
        OBVIOUS
      <3> HIDE DEF all, own
      <3>4. x \in UNION {Range(FoundBelow(last, j)[k].msg.fields) :
                           k \in DOMAIN FoundBelow(last, j)}
              <=> \E k \in DOMAIN errs[j].kids : x \in all[errs[j].kids[k]]
        BY <1>5, <3>2
      <3>5. QED
        BY <1>5, <3>3, <3>4 DEF SaysFrom
    <2>2. all[last] = Range(r.msg.fields)
      BY <1>1, <1>4
    <2>3. \A j \in V : own[j] = IF errs[j].client THEN Range(errs[j].fields) ELSE {}
      BY <1>1
    <2> HIDE DEF own, all
    <2>4. all[last] = UNION {own[j] : j \in V}
      <3>1. Carried(own, all, Hiding)
        BY <2>1 DEF Carried
      <3>2. QED
        BY <3>1, ViewHas
    <2>5. QED
      BY <2>2, <2>3, <2>4 DEF Shown
  <1>8. ASSUME r.first = 0 PROVE Shown = {}
    <2> DEFINE C == {j \in DOMAIN errs : f[j].first = 0}
    <2>1. ASSUME NEW i \in C
          PROVE  ~errs[i].client /\ \A k \in DOMAIN errs[i].kids : errs[i].kids[k] \in C
      <3>1. i \in 1..last /\ i # 0 /\ f[i].first = 0
        BY <1>1
      <3>2. ~errs[i].client
        BY <1>5, <3>1 DEF SaysFrom
      <3>3. \A k \in DOMAIN errs[i].kids : FoundBelow(last, i)[k].first = 0
        BY <1>5, <3>1, <3>2 DEF SaysFrom
      <3>4. \A k \in DOMAIN errs[i].kids : errs[i].kids[k] \in DOMAIN errs
        BY <1>1, ErrorShape
      <3>5. QED
        BY <1>5, <3>1, <3>2, <3>3, <3>4
    <2>2. Closed(C, Hiding)
      BY <1>1, <1>4, <1>8, <2>1 DEF Closed
    <2>3. V \subseteq C
      BY <2>2 DEF InView
    <2>4. QED
      BY <2>1, <2>3 DEF Shown
  <1>9. ASSUME r.first # 0 PROVE r.first \in Shown
    <2> DEFINE failing == {j \in V : f[j].first # 0 /\ f[j].first \notin Shown}
    <2>1. SUFFICES ASSUME failing # {} PROVE FALSE
      BY <1>1, <1>4, <1>9
    <2>2. PICK n \in failing : \A m \in failing : n <= m
      <3>1. failing \subseteq Nat
        BY <1>1
      <3> HIDE DEF failing
      <3>2. QED
        BY <2>1, <3>1, LeastOf
    <2>3. n \in V /\ n \in 1..last /\ n \in DOMAIN errs /\ n \in Nat
          /\ f[n].first # 0 /\ f[n].first \notin Shown
      BY <1>1, <2>2
    <2>4. CASE errs[n].client
      <3>1. f[n].first = n
        BY <1>5, <2>3, <2>4 DEF SaysFrom
      <3>2. QED
        BY <2>3, <2>4, <3>1 DEF Shown
    <2>5. CASE ~errs[n].client
      <3>1. PICK k \in DOMAIN errs[n].kids : FoundBelow(last, n)[k].first = f[n].first
        BY <1>5, <2>3, <2>5 DEF SaysFrom
      <3>2. f[errs[n].kids[k]].first = f[n].first
        BY <1>5, <2>3, <3>1
      <3>3. errs[n].kids[k] \in V /\ errs[n].kids[k] \in 1..(n - 1)
        BY <1>1, <1>5, <2>3, <2>5, ErrorShape
      <3>4. errs[n].kids[k] \in failing /\ ~(n <= errs[n].kids[k])
        BY <2>3, <3>2, <3>3
      <3>5. QED
        BY <2>2, <3>4
    <2>6. QED
      BY <2>4, <2>5
  <1>10. QED
    BY <1>1, <1>4, <1>5, <1>6, <1>7, <1>8, <1>9

-----------------------------------------------------------------------------
(* Sequences laid end to end *)

\* What the provers know of sequences, for elements of any kind.
LEMMA SeqShape ==
  ASSUME NEW S, NEW s \in Seq(S)
  PROVE  /\ Len(s) \in Nat /\ DOMAIN s = 1..Len(s)
         /\ \A n \in 1..Len(s) : s[n] \in S
  OBVIOUS

LEMMA SameSeq ==
  ASSUME NEW S, NEW s \in Seq(S), NEW t \in Seq(S), Len(s) = Len(t),
         \A n \in 1..Len(s) : s[n] = t[n]
  PROVE  s = t
  OBVIOUS

LEMMA OneShape ==
  ASSUME NEW S, NEW a \in S
  PROVE  <<a>> \in Seq(S) /\ Len(<<a>>) = 1 /\ <<a>>[1] = a /\ <<>> \in Seq(S)
  OBVIOUS

LEMMA ConcatShape ==
  ASSUME NEW S, NEW s \in Seq(S), NEW t \in Seq(S)
  PROVE  /\ s \o t \in Seq(S) /\ Len(s \o t) = Len(s) + Len(t)
         /\ \A n \in 1..Len(s) : (s \o t)[n] = s[n]
         /\ \A n \in 1..Len(t) : (s \o t)[Len(s) + n] = t[n]
  OBVIOUS

\* The function of FlattenSeq at the sequences up to one of them.
FlattenOf(seqs) ==
  CHOOSE flatten : flatten = [i \in 1..Len(seqs) |->
    IF i = 1 THEN seqs[i] ELSE flatten[i-1] \o seqs[i]]

\* The function is what its definition says.
LEMMA FlattenExists ==
  ASSUME NEW seqs \in Seq(Seq(Nat)), Len(seqs) # 0
  PROVE  /\ FlattenSeq(seqs) = FlattenOf(seqs)[Len(seqs)]
         /\ FlattenOf(seqs) = [i \in 1..Len(seqs) |->
              IF i = 1 THEN seqs[i] ELSE FlattenOf(seqs)[i-1] \o seqs[i]]
  <1> DEFINE Is(flatten, last) == flatten = [i \in 1..last |->
               IF i = 1 THEN seqs[i] ELSE flatten[i-1] \o seqs[i]]
  <1>0. Len(seqs) \in Nat /\ 1..Len(seqs) \subseteq Nat
    BY SeqShape
  <1>1. FlattenSeq(seqs) = FlattenOf(seqs)[Len(seqs)]
    BY DEF FlattenSeq, FlattenOf
  <1>2. \A last \in 1..Len(seqs) : \E flatten : Is(flatten, last)
    <2> DEFINE missing == {last \in 1..Len(seqs) : ~\E flatten : Is(flatten, last)}
    <2>1. SUFFICES ASSUME missing # {} PROVE FALSE
      OBVIOUS
    <2>2. PICK last \in missing : \A other \in missing : last <= other
      <3>1. missing \subseteq Nat
        BY <1>0
      <3> HIDE DEF missing
      <3>2. QED
        BY <2>1, <3>1, LeastOf
    <2>3. last # 1
      <3>1. Is([i \in 1..1 |-> seqs[1]], 1)
        OBVIOUS
      <3>2. QED
        BY <2>2, <3>1
    <2>4. PICK before : Is(before, last - 1)
      <3>1. last - 1 \in 1..Len(seqs) /\ ~(last <= last - 1)
        BY <1>0, <2>2, <2>3
      <3>2. last - 1 \notin missing
        BY <2>2, <3>1
      <3>3. QED
        BY <3>1, <3>2
    <2> DEFINE flatten == [i \in 1..last |->
                             IF i = last THEN before[last - 1] \o seqs[last] ELSE before[i]]
    <2>5. ASSUME NEW i \in 1..last
          PROVE  flatten[i] = IF i = 1 THEN seqs[i] ELSE flatten[i-1] \o seqs[i]
      <3>1. last \in Nat /\ i \in Nat /\ i <= last /\ i >= 1
        BY <1>0, <2>2
      <3>2. CASE i = last
        <4>1. flatten[last - 1] = before[last - 1] /\ i # 1
          BY <2>3, <3>1, <3>2
        <4>2. QED
          BY <3>2, <4>1
      <3>3. CASE i # last
        <4>1. i \in 1..(last - 1) /\ i - 1 # last
          BY <3>1, <3>3
        <4>2. before[i] = IF i = 1 THEN seqs[i] ELSE before[i-1] \o seqs[i]
          BY <2>4, <4>1
        <4>3. i # 1 => flatten[i - 1] = before[i - 1]
          BY <3>1, <4>1
        <4> QED
          BY <3>3, <4>2, <4>3
      <3>4. QED
        BY <3>2, <3>3
    <2>6. Is(flatten, last)
      BY <2>5
    <2>7. QED
      BY <2>2, <2>6
  <1>3. \E flatten : Is(flatten, Len(seqs))
    <2>1. Len(seqs) \in 1..Len(seqs)
      BY <1>0
    <2>2. QED
      BY <1>2, <2>1
  <1>4. Is(FlattenOf(seqs), Len(seqs))
    BY <1>3 DEF FlattenOf
  <1>5. QED
    BY <1>1, <1>4

\* The sequences of some elements, laid end to end up to one of them.
Upto(seqs, n) == IF n = 0 THEN <<>> ELSE FlattenOf(seqs)[n]

\* One more sequence is laid at the end.
LEMMA UptoSteps ==
  ASSUME NEW seqs \in Seq(Seq(Nat))
  PROVE  /\ FlattenSeq(seqs) = Upto(seqs, Len(seqs))
         /\ \A n \in 1..Len(seqs) : Upto(seqs, n) = Upto(seqs, n - 1) \o seqs[n]
         /\ \A n \in 0..Len(seqs) : Upto(seqs, n) \in Seq(Nat)
  <1>0. Len(seqs) \in Nat /\ \A n \in 1..Len(seqs) : seqs[n] \in Seq(Nat)
    BY SeqShape
  <1>1. CASE Len(seqs) = 0
    <2>1. seqs = <<>>
      BY <1>1
    <2>2. QED
      BY <1>1, <2>1 DEF FlattenSeq, Upto
  <1>2. CASE Len(seqs) # 0
    <2>1. /\ FlattenSeq(seqs) = FlattenOf(seqs)[Len(seqs)]
          /\ FlattenOf(seqs) = [i \in 1..Len(seqs) |->
               IF i = 1 THEN seqs[i] ELSE FlattenOf(seqs)[i-1] \o seqs[i]]
      BY <1>2, FlattenExists
    <2>2. ASSUME NEW n \in 1..Len(seqs)
          PROVE  Upto(seqs, n) = Upto(seqs, n - 1) \o seqs[n]
      <3>1. n \in Nat /\ seqs[n] \in Seq(Nat) /\ Upto(seqs, n) = FlattenOf(seqs)[n]
        BY <1>0 DEF Upto
      <3>2. CASE n = 1
        <4>1. FlattenOf(seqs)[1] = seqs[1]
          BY <1>0, <1>2, <2>1
        <4>2. <<>> \o seqs[1] = seqs[1]
          BY <3>1, <3>2
        <4>3. QED
          BY <3>1, <3>2, <4>1, <4>2 DEF Upto
      <3>3. CASE n # 1
        <4>1. FlattenOf(seqs)[n] = FlattenOf(seqs)[n - 1] \o seqs[n]
          BY <2>1, <3>3
        <4>2. n - 1 # 0
          BY <3>1, <3>3
        <4>3. QED
          BY <3>1, <4>1, <4>2 DEF Upto
      <3>4. QED
        BY <3>2, <3>3
    <2> DEFINE failing == {n \in 0..Len(seqs) : Upto(seqs, n) \notin Seq(Nat)}
    <2>3. failing = {}
      <3>1. SUFFICES ASSUME failing # {} PROVE FALSE
        OBVIOUS
      <3>2. PICK n \in failing : \A m \in failing : n <= m
        <4>1. failing \subseteq Nat
          OBVIOUS
        <4> HIDE DEF failing
        <4>2. QED
          BY <3>1, <4>1, LeastOf
      <3>3. n # 0
        BY <3>2 DEF Upto
      <3>4. Upto(seqs, n - 1) \in Seq(Nat)
        <4>1. n - 1 \in 0..Len(seqs) /\ ~(n <= n - 1)
          BY <1>0, <3>2, <3>3
        <4>2. QED
          BY <3>2, <4>1
      <3>5. Upto(seqs, n) = Upto(seqs, n - 1) \o seqs[n] /\ seqs[n] \in Seq(Nat)
        <4>1. n \in 1..Len(seqs)
          BY <1>0, <3>2, <3>3
        <4>2. QED
          BY <1>0, <2>2, <4>1
      <3>6. QED
        <4> DEFINE a == Upto(seqs, n - 1)
        <4>1. a \in Seq(Nat) /\ Upto(seqs, n) = a \o seqs[n] /\ seqs[n] \in Seq(Nat)
          BY <3>4, <3>5
        <4>2. Upto(seqs, n) \in Seq(Nat)
          <5> HIDE DEF a
          <5>1. QED
            BY <4>1
        <4>3. QED
          BY <3>2, <4>2
    <2>4. QED
      BY <1>2, <2>1, <2>2, <2>3 DEF Upto
  <1>3. QED
    BY <1>1, <1>2

\* Equal beginnings, equal results.
LEMMA UptoAgrees ==
  ASSUME NEW s \in Seq(Seq(Nat)), NEW t \in Seq(Seq(Nat))
  PROVE  \A n \in 0..Len(s) : Upto(s \o t, n) = Upto(s, n)
  <1> DEFINE failing == {n \in 0..Len(s) : Upto(s \o t, n) # Upto(s, n)}
  <1>1. SUFFICES ASSUME failing # {} PROVE FALSE
    OBVIOUS
  <1>2. PICK n \in failing : \A m \in failing : n <= m
    <2>1. failing \subseteq Nat
      OBVIOUS
    <2> HIDE DEF failing
    <2>2. QED
      BY <1>1, <2>1, LeastOf
  <1>3. n # 0
    BY <1>2 DEF Upto
  <1>4. n - 1 \in 0..Len(s) /\ ~(n <= n - 1) /\ n \in 1..Len(s)
    BY <1>2, <1>3
  <1>5. Upto(s \o t, n - 1) = Upto(s, n - 1)
    BY <1>2, <1>4
  <1>6. /\ s \o t \in Seq(Seq(Nat)) /\ n \in 1..Len(s \o t)
        /\ (s \o t)[n] = s[n]
    BY <1>4
  <1>7. Upto(s \o t, n) = Upto(s \o t, n - 1) \o s[n]
    BY <1>6, UptoSteps
  <1>8. Upto(s, n) = Upto(s, n - 1) \o s[n]
    BY <1>4, UptoSteps
  <1>9. QED
    BY <1>2, <1>5, <1>7, <1>8

LEMMA ConcatAssociates ==
  ASSUME NEW a \in Seq(Nat), NEW b \in Seq(Nat), NEW c \in Seq(Nat)
  PROVE  (a \o b) \o c = a \o (b \o c)
  OBVIOUS

\* Laying out two lists of sequences in turn, or both at once, is the same.
LEMMA FlattenConcat ==
  ASSUME NEW s \in Seq(Seq(Nat)), NEW t \in Seq(Seq(Nat))
  PROVE  FlattenSeq(s \o t) = FlattenSeq(s) \o FlattenSeq(t)
  <1>1. s \o t \in Seq(Seq(Nat)) /\ Len(s \o t) = Len(s) + Len(t)
        /\ Len(s) \in Nat /\ Len(t) \in Nat
    BY SeqShape, ConcatShape
  <1> DEFINE failing == {n \in 0..Len(t) :
                           Upto(s \o t, Len(s) + n) # Upto(s, Len(s)) \o Upto(t, n)}
  <1>2. failing = {}
    <2>1. SUFFICES ASSUME failing # {} PROVE FALSE
      OBVIOUS
    <2>2. PICK n \in failing : \A m \in failing : n <= m
      <3>1. failing \subseteq Nat
        OBVIOUS
      <3> HIDE DEF failing
      <3>2. QED
        BY <2>1, <3>1, LeastOf
    <2>3. Upto(s, Len(s)) \in Seq(Nat)
      <3>1. Len(s) \in 0..Len(s)
        BY <1>1
      <3>2. QED
        BY <3>1, UptoSteps
    <2>4. n # 0
      <3>1. Upto(s \o t, Len(s) + 0) = Upto(s, Len(s))
        BY <1>1, UptoAgrees
      <3>2. Upto(t, 0) = <<>>
        BY DEF Upto
      <3>3. Upto(s, Len(s)) \o <<>> = Upto(s, Len(s))
        BY <2>3
      <3>4. QED
        BY <2>2, <3>1, <3>2, <3>3
    <2>5. n - 1 \in 0..Len(t) /\ ~(n <= n - 1) /\ n \in 1..Len(t)
          /\ Len(s) + n \in 1..Len(s \o t) /\ Len(s) + n - 1 = Len(s) + (n - 1)
      BY <1>1, <2>2, <2>4
    <2>6. Upto(s \o t, Len(s) + (n - 1)) = Upto(s, Len(s)) \o Upto(t, n - 1)
      BY <2>2, <2>5
    <2>7. (s \o t)[Len(s) + n] = t[n] /\ t[n] \in Seq(Nat)
      BY <1>1, <2>5
    <2>8. Upto(s \o t, Len(s) + n) = Upto(s \o t, Len(s) + (n - 1)) \o t[n]
      <3> DEFINE m == Len(s) + n
      <3>1. m \in 1..Len(s \o t) /\ m - 1 = Len(s) + (n - 1)
        BY <2>5
      <3>2. Upto(s \o t, m) = Upto(s \o t, m - 1) \o (s \o t)[m]
        <4> HIDE DEF m
        <4>1. QED
          BY <1>1, <3>1, UptoSteps
      <3>3. QED
        BY <2>7, <3>1, <3>2
    <2>9. Upto(t, n) = Upto(t, n - 1) \o t[n] /\ Upto(t, n - 1) \in Seq(Nat)
      BY <2>5, UptoSteps
    <2>10. Upto(s \o t, Len(s) + n) = Upto(s, Len(s)) \o Upto(t, n)
      <3> DEFINE a == Upto(s, Len(s))
      <3> DEFINE b == Upto(t, n - 1)
      <3>1. (a \o b) \o t[n] = a \o (b \o t[n])
        <4> HIDE DEF a, b
        <4>1. a \in Seq(Nat) /\ b \in Seq(Nat)
          BY <2>3, <2>9 DEF a, b
        <4>2. QED
          BY <2>7, <4>1, ConcatAssociates
      <3>2. QED
        BY <2>6, <2>8, <2>9, <3>1
    <2>11. QED
      BY <2>2, <2>10
  <1>3. Upto(s \o t, Len(s) + Len(t)) = Upto(s, Len(s)) \o Upto(t, Len(t))
    <2>1. Len(t) \in 0..Len(t)
      BY <1>1
    <2>2. QED
      BY <1>2, <2>1
  <1>4. FlattenSeq(s \o t) = Upto(s \o t, Len(s) + Len(t))
    <2>1. FlattenSeq(s \o t) = Upto(s \o t, Len(s \o t))
      BY <1>1, UptoSteps
    <2>2. QED
      BY <1>1, <2>1
  <1>5. FlattenSeq(s) = Upto(s, Len(s)) /\ FlattenSeq(t) = Upto(t, Len(t))
    BY UptoSteps
  <1>6. QED
    BY <1>3, <1>4, <1>5

\* One sequence alone, and none.
LEMMA FlattenOne ==
  ASSUME NEW a \in Seq(Nat)
  PROVE  FlattenSeq(<<a>>) = a /\ FlattenSeq(<<>>) = <<>>
  <1>1. PICK s \in Seq(Seq(Nat)) : s = <<a>> /\ Len(s) = 1 /\ s[1] = a
    BY OneShape
  <1>2. 1 \in 1..Len(s) /\ 1 - 1 = 0
    BY <1>1
  <1>3. FlattenSeq(s) = Upto(s, 1)
    BY <1>1, UptoSteps
  <1>4. Upto(s, 1) = Upto(s, 1 - 1) \o s[1]
    BY <1>2, UptoSteps
  <1>5. Upto(s, 0) = <<>> /\ <<>> \o a = a
    BY DEF Upto
  <1>6. FlattenSeq(<<>>) = <<>>
    BY DEF FlattenSeq
  <1>7. QED
    BY <1>1, <1>3, <1>4, <1>5, <1>6, <1>2

-----------------------------------------------------------------------------
(* Paths from an error down *)

\* One choice of a path.
Below(j, k) == IF j # 0 /\ k \in DOMAIN errs[j].kids THEN errs[j].kids[k] ELSE 0

\* The function of From along a path.
FromOf(i, path) ==
  CHOOSE at : at = [n \in 0..Len(path) |-> IF n = 0 THEN i ELSE Below(at[n - 1], path[n])]

\* The sequences of choices, whether an error has these paths or not.
Turns == Seq(1..2)

\* The function is what its definition says.
LEMMA FromExists ==
  ASSUME NEW i, NEW path \in Turns
  PROVE  /\ Len(path) \in Nat
         /\ From(i, path) = FromOf(i, path)[Len(path)]
         /\ FromOf(i, path)[0] = i
         /\ \A n \in 1..Len(path) :
              FromOf(i, path)[n] = Below(FromOf(i, path)[n - 1], path[n])
  <1> DEFINE Is(at, last) == at = [n \in 0..last |->
               IF n = 0 THEN i ELSE Below(at[n - 1], path[n])]
  <1>0. Len(path) \in Nat
    BY DEF Turns
  <1>1. From(i, path) = FromOf(i, path)[Len(path)]
    BY DEF From, FromOf, Below
  <1>2. \A last \in 0..Len(path) : \E at : Is(at, last)
    <2> DEFINE missing == {last \in 0..Len(path) : ~\E at : Is(at, last)}
    <2>1. SUFFICES ASSUME missing # {} PROVE FALSE
      OBVIOUS
    <2>2. PICK last \in missing : \A other \in missing : last <= other
      <3>1. missing \subseteq Nat
        OBVIOUS
      <3> HIDE DEF missing
      <3>2. QED
        BY <2>1, <3>1, LeastOf
    <2>3. last # 0
      <3>1. Is([n \in 0..0 |-> i], 0)
        OBVIOUS
      <3>2. QED
        BY <2>2, <3>1
    <2>4. PICK before : Is(before, last - 1)
      <3>1. last - 1 \in 0..Len(path) /\ ~(last <= last - 1)
        BY <1>0, <2>2, <2>3
      <3>2. last - 1 \notin missing
        BY <2>2, <3>1
      <3>3. QED
        BY <3>1, <3>2
    <2> DEFINE at == [n \in 0..last |->
                        IF n = last THEN Below(before[last - 1], path[last]) ELSE before[n]]
    <2>5. \A n \in 0..last :
            at[n] = IF n = 0 THEN i ELSE Below(at[n - 1], path[n])
      BY <1>0, <2>2, <2>3, <2>4
    <2>6. Is(at, last)
      BY <2>5
    <2>7. QED
      BY <2>2, <2>6
  <1>3. \E at : Is(at, Len(path))
    BY <1>0, <1>2
  <1>4. Is(FromOf(i, path), Len(path))
    BY <1>3 DEF FromOf
  <1>5. QED
    BY <1>0, <1>1, <1>4

\* Paths go down.
LEMMA FromDown ==
  ASSUME WellBuilt, NEW i \in 0..Len(errs), NEW path \in Turns
  PROVE  /\ From(i, path) = 0 \/ From(i, path) \in 1..(i - Len(path))
         /\ From(i, path) \in 0..Len(errs)
  <1> DEFINE at == FromOf(i, path)
  <1> DEFINE failing == {n \in 0..Len(path) : ~(at[n] = 0 \/ at[n] \in 1..(i - n))}
  <1>1. /\ Len(path) \in Nat /\ From(i, path) = at[Len(path)] /\ at[0] = i
        /\ \A n \in 1..Len(path) : at[n] = Below(at[n - 1], path[n])
    BY FromExists
  <1>2. i \in Nat /\ Len(errs) \in Nat /\ i <= Len(errs) /\ DOMAIN errs = 1..Len(errs)
    BY DEF WellBuilt
  <1> HIDE DEF at
  <1>3. failing = {}
    <2>1. SUFFICES ASSUME failing # {} PROVE FALSE
      OBVIOUS
    <2>2. PICK n \in failing : \A m \in failing : n <= m
      <3>1. failing \subseteq Nat
        OBVIOUS
      <3> HIDE DEF failing
      <3>2. QED
        BY <2>1, <3>1, LeastOf
    <2>3. n # 0
      BY <1>1, <1>2, <2>2
    <2>4. n - 1 \in 0..Len(path) /\ ~(n <= n - 1) /\ n \in 1..Len(path)
      BY <1>1, <2>2, <2>3
    <2>5. at[n - 1] = 0 \/ at[n - 1] \in 1..(i - (n - 1))
      BY <2>2, <2>4
    <2>6. at[n] = Below(at[n - 1], path[n])
      BY <1>1, <2>4
    <2>7. PICK j : j = at[n - 1]
      OBVIOUS
    <2>8. CASE j # 0 /\ path[n] \in DOMAIN errs[j].kids
      <3>1. j \in DOMAIN errs
        BY <1>1, <1>2, <2>4, <2>5, <2>7, <2>8
      <3>2. at[n] = errs[j].kids[path[n]] /\ errs[j].kids[path[n]] \in 1..(j - 1)
        BY <2>6, <2>7, <2>8, <3>1, ErrorShape DEF Below
      <3>3. j \in Nat /\ j <= i - (n - 1)
        BY <1>1, <1>2, <2>4, <2>5, <2>7, <2>8
      <3>4. at[n] \in 1..(i - n)
        BY <1>2, <2>4, <3>2, <3>3
      <3>5. QED
        BY <2>2, <3>4
    <2>9. CASE ~(j # 0 /\ path[n] \in DOMAIN errs[j].kids)
      BY <2>2, <2>6, <2>7, <2>9 DEF Below
    <2>10. QED
      BY <2>8, <2>9
  <1>4. From(i, path) = 0 \/ From(i, path) \in 1..(i - Len(path))
    <2>1. Len(path) \in 0..Len(path)
      BY <1>1
    <2>2. QED
      BY <1>1, <1>3, <2>1
  <1>5. QED
    BY <1>1, <1>2, <1>4

\* A path after its first choice.
LEMMA FromNext ==
  ASSUME NEW i, NEW k \in 1..2, NEW path \in Turns
  PROVE  /\ <<k>> \o path \in Turns /\ Len(<<k>> \o path) = Len(path) + 1
         /\ From(i, <<k>> \o path) = From(Below(i, k), path)
         /\ From(i, <<>>) = i
  <1>1. PICK long \in Turns : long = <<k>> \o path
    <2>1. <<k>> \in Turns
      BY DEF Turns
    <2>2. QED
      BY <2>1, ConcatShape DEF Turns
  <1>2. /\ Len(path) \in Nat /\ Len(long) = Len(path) + 1
        /\ long[1] = k /\ \A n \in 1..Len(path) : long[n + 1] = path[n]
    BY <1>1 DEF Turns
  <1> DEFINE at == FromOf(Below(i, k), path)
  <1> DEFINE above == FromOf(i, long)
  <1>3. /\ From(Below(i, k), path) = at[Len(path)] /\ at[0] = Below(i, k)
        /\ \A n \in 1..Len(path) : at[n] = Below(at[n - 1], path[n])
    BY FromExists
  <1>4. /\ From(i, long) = above[Len(path) + 1] /\ above[0] = i
        /\ \A n \in 1..(Len(path) + 1) : above[n] = Below(above[n - 1], long[n])
    BY <1>2, FromExists
  <1> HIDE DEF at, above
  <1> DEFINE failing == {n \in 0..Len(path) : above[n + 1] # at[n]}
  <1>5. failing = {}
    <2>1. SUFFICES ASSUME failing # {} PROVE FALSE
      OBVIOUS
    <2>2. PICK n \in failing : \A m \in failing : n <= m
      <3>1. failing \subseteq Nat
        OBVIOUS
      <3> HIDE DEF failing
      <3>2. QED
        BY <2>1, <3>1, LeastOf
    <2>3. n # 0
      <3>1. above[1] = Below(above[1 - 1], long[1])
        BY <1>2, <1>4
      <3>2. QED
        BY <1>2, <1>3, <1>4, <2>2, <3>1
    <2>4. n - 1 \in 0..Len(path) /\ ~(n <= n - 1) /\ n \in 1..Len(path)
          /\ n + 1 \in 1..(Len(path) + 1) /\ (n - 1) + 1 = n /\ (n + 1) - 1 = n
      BY <1>2, <2>2, <2>3
    <2>5. above[n] = at[n - 1]
      BY <2>2, <2>4
    <2>6. above[n + 1] = Below(above[n], long[n + 1])
      BY <1>4, <2>4
    <2>7. QED
      BY <1>2, <1>3, <2>2, <2>4, <2>5, <2>6
  <1>6. above[Len(path) + 1] = at[Len(path)]
    <2>1. Len(path) \in 0..Len(path)
      BY <1>2
    <2>2. QED
      BY <1>5, <2>1
  <1>7. From(i, <<>>) = i
    <2>1. <<>> \in Turns /\ Len(<<>>) = 0
      BY DEF Turns
    <2>2. QED
      BY <2>1, FromExists
  <1>8. QED
    BY <1>1, <1>2, <1>3, <1>4, <1>6, <1>7

\* The paths from an error down.
PathsFrom(i) == {path \in Turns : From(i, path) # 0}

\* A path stops at once, or goes on from a wrapped error.
LEMMA PathsSplit ==
  ASSUME WellBuilt, NEW i \in DOMAIN errs
  PROVE  /\ <<>> \in PathsFrom(i) /\ From(i, <<>>) = i
         /\ DOMAIN errs[i].kids \subseteq 1..2
         /\ \A k \in DOMAIN errs[i].kids : \A path \in PathsFrom(errs[i].kids[k]) :
              /\ path \in Turns /\ <<k>> \o path \in PathsFrom(i)
              /\ From(i, <<k>> \o path) = From(errs[i].kids[k], path)
         /\ \A path \in PathsFrom(i) : path # <<>> =>
              \E k \in DOMAIN errs[i].kids : \E rest \in PathsFrom(errs[i].kids[k]) :
                path = <<k>> \o rest
  <1>1. i \in Nat /\ i # 0 /\ i \in 0..Len(errs)
    BY ErrorShape
  <1>2. <<>> \in Turns
    BY DEF Turns
  <1>3. From(i, <<>>) = i
    BY <1>2, FromNext
  <1>4. DOMAIN errs[i].kids \subseteq 1..2
    BY ErrorShape DEF WellBuilt
  <1>5. ASSUME NEW k \in DOMAIN errs[i].kids, NEW path \in PathsFrom(errs[i].kids[k])
        PROVE  /\ path \in Turns /\ <<k>> \o path \in PathsFrom(i)
               /\ From(i, <<k>> \o path) = From(errs[i].kids[k], path)
    <2>1. path \in Turns /\ k \in 1..2 /\ Below(i, k) = errs[i].kids[k]
      BY <1>1, <1>4 DEF PathsFrom, Below
    <2>2. <<k>> \o path \in Turns /\ From(i, <<k>> \o path) = From(errs[i].kids[k], path)
      BY <2>1, FromNext
    <2>3. QED
      BY <2>1, <2>2 DEF PathsFrom
  <1>6. ASSUME NEW path \in PathsFrom(i), path # <<>>
        PROVE  \E k \in DOMAIN errs[i].kids : \E rest \in PathsFrom(errs[i].kids[k]) :
                 path = <<k>> \o rest
    <2>1. path \in Turns /\ From(i, path) # 0
      BY DEF PathsFrom
    <2>2. PICK k \in 1..2, rest \in Turns : path = <<k>> \o rest
      <3>1. path[1] \in 1..2 /\ Tail(path) \in Turns /\ path = <<path[1]>> \o Tail(path)
        BY <1>6, <2>1 DEF Turns
      <3>2. QED
        BY <3>1
    <2>3. From(Below(i, k), rest) # 0
      BY <2>1, <2>2, FromNext
    <2>4. From(0, rest) = 0
      <3>1. 0 \in 0..Len(errs) /\ Len(rest) \in Nat
        BY <1>1 DEF Turns
      <3>2. From(0, rest) = 0 \/ From(0, rest) \in 1..(0 - Len(rest))
        BY <3>1, FromDown
      <3>3. QED
        BY <3>1, <3>2
    <2>5. k \in DOMAIN errs[i].kids /\ Below(i, k) = errs[i].kids[k]
      BY <2>3, <2>4 DEF Below
    <2>6. QED
      BY <2>2, <2>3, <2>5 DEF PathsFrom
  <1>7. QED
    BY <1>1, <1>2, <1>3, <1>4, <1>5, <1>6 DEF PathsFrom

\* What paths can reach is no longer than there are errors.
LEMMA PathsAre ==
  ASSUME WellBuilt, errs # <<>>
  PROVE  Paths = PathsFrom(Len(errs))
  <1>1. Len(errs) \in Nat /\ Len(errs) # 0 /\ Len(errs) \in 0..Len(errs)
    BY DEF WellBuilt
  <1>2. ASSUME NEW path \in Paths PROVE path \in PathsFrom(Len(errs))
    <2>1. PICK n \in 0..(Len(errs) - 1) : path \in [1..n -> 1..2]
      BY DEF Paths
    <2>2. path \in Turns
      BY <1>1, <2>1 DEF Turns
    <2>3. QED
      BY <2>2 DEF Paths, At, PathsFrom
  <1>3. ASSUME NEW path \in PathsFrom(Len(errs)) PROVE path \in Paths
    <2>1. path \in Turns /\ From(Len(errs), path) # 0 /\ Len(path) \in Nat
      BY DEF PathsFrom, Turns
    <2>2. From(Len(errs), path) \in 1..(Len(errs) - Len(path))
      BY <1>1, <2>1, FromDown
    <2>3. Len(path) \in 0..(Len(errs) - 1)
      BY <1>1, <2>1, <2>2
    <2>4. path \in [1..Len(path) -> 1..2]
      BY <2>1 DEF Turns
    <2>5. path \in UNION {[1..n -> 1..2] : n \in 0..(Len(errs) - 1)}
      BY <2>3, <2>4
    <2>6. QED
      BY <2>1, <2>5 DEF Paths, At
  <1>4. QED
    BY <1>2, <1>3

-----------------------------------------------------------------------------
(* The order of paths, and which are visible *)

\* A proper beginning, place by place.
LEMMA StrictPrefix ==
  ASSUME NEW p \in Turns, NEW q \in Turns
  PROVE  IsStrictPrefix(p, q) <=> /\ Len(p) < Len(q)
                                  /\ \A n \in 1..Len(p) : p[n] = q[n]
  <1>1. /\ Len(p) \in Nat /\ Len(q) \in Nat
        /\ DOMAIN p = 1..Len(p) /\ DOMAIN q = 1..Len(q)
    BY DEF Turns
  <1>0. SubSeq(p, 1, Len(p)) = p
    BY DEF Turns
  <1>2. ASSUME Len(p) <= Len(q)
        PROVE  SubSeq(q, 1, Len(p)) = p <=> \A n \in 1..Len(p) : p[n] = q[n]
    <2>1. /\ SubSeq(q, 1, Len(p)) \in Turns /\ Len(SubSeq(q, 1, Len(p))) = Len(p)
          /\ \A n \in 1..Len(p) : SubSeq(q, 1, Len(p))[n] = q[n]
      BY <1>1, <1>2 DEF Turns
    <2>2. PICK t \in Turns : t = SubSeq(q, 1, Len(p))
      BY <2>1
    <2>3. t = p <=> \A n \in 1..Len(p) : t[n] = p[n]
      BY <2>1, <2>2 DEF Turns
    <2>4. QED
      BY <2>1, <2>2, <2>3
  <1>3. ASSUME IsStrictPrefix(p, q)
        PROVE  Len(p) < Len(q) /\ \A n \in 1..Len(p) : p[n] = q[n]
    <2>1. Len(p) <= Len(q) /\ SubSeq(q, 1, Len(p)) = p /\ p # q
      BY <1>0, <1>3 DEF IsStrictPrefix, IsPrefix
    <2>2. \A n \in 1..Len(p) : p[n] = q[n]
      BY <1>2, <2>1
    <2>3. Len(p) # Len(q)
      BY <2>1, <2>2 DEF Turns
    <2>4. Len(p) <= Len(q)
      BY <2>1
    <2>5. Len(p) < Len(q)
      <3>1. Len(p) \in Nat /\ Len(q) \in Nat
        BY <1>1
      <3>2. QED
        BY <2>3, <2>4, <3>1
    <2>6. QED
      BY <2>2, <2>5
  <1>4. ASSUME Len(p) < Len(q), \A n \in 1..Len(p) : p[n] = q[n]
        PROVE  IsStrictPrefix(p, q)
    <2>1. Len(p) <= Len(q) /\ p # q
      BY <1>1, <1>4
    <2>2. SubSeq(q, 1, Len(p)) = p
      BY <1>2, <1>4, <2>1
    <2>3. QED
      BY <1>0, <2>1, <2>2 DEF IsStrictPrefix, IsPrefix
  <1>5. QED
    BY <1>3, <1>4

\* Nothing comes before itself, or before what comes before it.
LEMMA BeforeOrders ==
  ASSUME NEW p \in Turns, NEW q \in Turns, Before(p, q)
  PROVE  p # q /\ ~Before(q, p)
  <1>1. /\ Len(p) \in Nat /\ Len(q) \in Nat
        /\ DOMAIN p = 1..Len(p) /\ DOMAIN q = 1..Len(q)
        /\ \A n \in 1..Len(p) : p[n] \in Nat
        /\ \A n \in 1..Len(q) : q[n] \in Nat
    BY DEF Turns
  <1>2. /\ IsStrictPrefix(p, q) <=> /\ Len(p) < Len(q)
                                    /\ \A n \in 1..Len(p) : p[n] = q[n]
        /\ IsStrictPrefix(q, p) <=> /\ Len(q) < Len(p)
                                    /\ \A n \in 1..Len(q) : p[n] = q[n]
    BY StrictPrefix
  <1> DEFINE Left(a, b, n) == /\ \A k \in 1..(n - 1) : a[k] = b[k]
                              /\ a[n] < b[n]
  <1>3. \A a, b : Before(a, b) <=> \/ IsStrictPrefix(a, b)
                                   \/ \E n \in DOMAIN a \cap DOMAIN b : Left(a, b, n)
    BY DEF Before
  <1>4. CASE IsStrictPrefix(p, q)
    <2>1. p # q /\ ~IsStrictPrefix(q, p)
      BY <1>1, <1>2, <1>4
    <2>2. \A n \in DOMAIN p \cap DOMAIN q : ~Left(q, p, n)
      BY <1>1, <1>2, <1>4
    <2>3. QED
      BY <1>3, <2>1, <2>2
  <1>5. ASSUME NEW n \in DOMAIN p \cap DOMAIN q, Left(p, q, n)
        PROVE  p # q /\ ~Before(q, p)
    <2>1. p # q /\ ~IsStrictPrefix(q, p)
      BY <1>1, <1>2, <1>5
    <2>2. ASSUME NEW m \in DOMAIN p \cap DOMAIN q, Left(q, p, m) PROVE FALSE
      <3>1. /\ m \in Nat /\ n \in Nat /\ m >= 1 /\ n >= 1
            /\ p[m] \in Nat /\ q[m] \in Nat /\ p[n] \in Nat /\ q[n] \in Nat
        BY <1>1
      <3>2. p[n] < q[n] /\ q[m] < p[m]
        BY <1>5, <2>2
      <3>3. CASE m = n
        BY <3>1, <3>2, <3>3
      <3>4. CASE m < n
        <4>1. p[m] = q[m]
          BY <1>5, <3>1, <3>4
        <4>2. QED
          BY <3>1, <3>2, <4>1
      <3>5. CASE n < m
        <4>1. q[n] = p[n]
          BY <2>2, <3>1, <3>5
        <4>2. QED
          BY <3>1, <3>2, <4>1
      <3>6. QED
        BY <3>1, <3>3, <3>4, <3>5
    <2>3. QED
      BY <1>3, <2>1, <2>2
  <1>6. QED
    BY <1>3, <1>4, <1>5

\* The order of paths that go on.
LEMMA BeforeGoesOn ==
  ASSUME NEW k \in 1..2, NEW p \in Turns, NEW q \in Turns
  PROVE  /\ IsStrictPrefix(<<k>> \o p, <<k>> \o q) <=> IsStrictPrefix(p, q)
         /\ Before(p, q) => Before(<<k>> \o p, <<k>> \o q)
         /\ \A l \in 1..2 : k # l => ~IsStrictPrefix(<<k>> \o p, <<l>> \o q)
         /\ \A l \in 1..2 : k < l => Before(<<k>> \o p, <<l>> \o q)
         /\ IsStrictPrefix(<<>>, <<k>> \o q) /\ Before(<<>>, <<k>> \o q)
         /\ ~IsStrictPrefix(<<k>> \o q, <<>>) /\ ~IsStrictPrefix(<<>>, <<>>)
         /\ <<k>> \o p # <<>>
  <1>1. /\ Len(p) \in Nat /\ Len(q) \in Nat
        /\ DOMAIN p = 1..Len(p) /\ DOMAIN q = 1..Len(q)
        /\ <<>> \in Turns /\ Len(<<>>) = 0
    BY DEF Turns
  <1>2. ASSUME NEW l \in 1..2, NEW r \in Turns
        PROVE  /\ <<l>> \o r \in Turns /\ Len(<<l>> \o r) = Len(r) + 1
               /\ (<<l>> \o r)[1] = l
               /\ \A n \in 1..Len(r) : (<<l>> \o r)[n + 1] = r[n]
               /\ DOMAIN (<<l>> \o r) = 1..(Len(r) + 1)
    BY FromNext DEF Turns
  <1>3. PICK pk \in Turns : pk = <<k>> \o p
    BY <1>2
  <1>4. /\ Len(pk) = Len(p) + 1 /\ pk[1] = k /\ DOMAIN pk = 1..(Len(p) + 1)
        /\ \A n \in 1..Len(p) : pk[n + 1] = p[n]
    BY <1>2, <1>3
  <1>5. ASSUME NEW l \in 1..2, NEW ql \in Turns, ql = <<l>> \o q
        PROVE  /\ Len(ql) = Len(q) + 1 /\ ql[1] = l /\ DOMAIN ql = 1..(Len(q) + 1)
               /\ \A n \in 1..Len(q) : ql[n + 1] = q[n]
               /\ IsStrictPrefix(pk, ql) <=> k = l /\ IsStrictPrefix(p, q)
               /\ IsStrictPrefix(<<>>, ql) /\ ~IsStrictPrefix(ql, <<>>)
    <2>1. /\ Len(ql) = Len(q) + 1 /\ ql[1] = l /\ DOMAIN ql = 1..(Len(q) + 1)
          /\ \A n \in 1..Len(q) : ql[n + 1] = q[n]
      BY <1>2, <1>5
    <2>2. Len(p) < Len(q) =>
            ((\A n \in 1..Len(pk) : pk[n] = ql[n])
              <=> k = l /\ \A n \in 1..Len(p) : p[n] = q[n])
      <3>1. SUFFICES ASSUME Len(p) < Len(q)
                     PROVE  (\A n \in 1..Len(pk) : pk[n] = ql[n]) <=>
                              k = l /\ \A n \in 1..Len(p) : p[n] = q[n]
        OBVIOUS
      <3>2. ASSUME \A n \in 1..Len(pk) : pk[n] = ql[n]
            PROVE  k = l /\ \A n \in 1..Len(p) : p[n] = q[n]
        <4>1. k = l
          BY <1>1, <1>4, <2>1, <3>2
        <4>2. ASSUME NEW n \in 1..Len(p) PROVE p[n] = q[n]
          <5>1. n + 1 \in 1..Len(pk) /\ n \in 1..Len(q)
            BY <1>1, <1>4, <3>1
          <5>2. QED
            BY <1>4, <2>1, <3>2, <5>1
        <4>3. QED
          BY <4>1, <4>2
      <3>3. ASSUME k = l, \A n \in 1..Len(p) : p[n] = q[n], NEW n \in 1..Len(pk)
            PROVE  pk[n] = ql[n]
        <4>1. CASE n = 1
          BY <1>4, <2>1, <3>3, <4>1
        <4>2. CASE n # 1
          <5>1. n - 1 \in 1..Len(p) /\ n - 1 \in 1..Len(q) /\ (n - 1) + 1 = n
            BY <1>1, <1>4, <3>1, <4>2
          <5>2. pk[(n - 1) + 1] = p[n - 1] /\ ql[(n - 1) + 1] = q[n - 1]
            BY <1>4, <2>1, <5>1
          <5>3. QED
            BY <3>3, <5>1, <5>2
        <4>3. QED
          BY <4>1, <4>2
      <3>4. QED
        BY <3>2, <3>3
    <2>3. IsStrictPrefix(pk, ql) <=> k = l /\ IsStrictPrefix(p, q)
      <3>1. IsStrictPrefix(pk, ql) <=> /\ Len(pk) < Len(ql)
                                       /\ \A n \in 1..Len(pk) : pk[n] = ql[n]
        BY StrictPrefix
      <3>2. IsStrictPrefix(p, q) <=> /\ Len(p) < Len(q)
                                     /\ \A n \in 1..Len(p) : p[n] = q[n]
        BY StrictPrefix
      <3>3. Len(pk) < Len(ql) <=> Len(p) < Len(q)
        BY <1>1, <1>4, <2>1
      <3>4. QED
        BY <2>2, <3>1, <3>2, <3>3
    <2>4. IsStrictPrefix(<<>>, ql) /\ ~IsStrictPrefix(ql, <<>>)
      BY <1>1, <2>1, StrictPrefix
    <2>5. QED
      BY <2>1, <2>3, <2>4
  <1>6. ~IsStrictPrefix(<<>>, <<>>)
    BY DEF IsStrictPrefix
  <1>7. pk # <<>>
    BY <1>1, <1>4
  <1>8. ASSUME Before(p, q) PROVE Before(pk, <<k>> \o q)
    <2>1. PICK qk \in Turns : qk = <<k>> \o q
      BY <1>2
    <2>2. /\ Len(qk) = Len(q) + 1 /\ qk[1] = k /\ DOMAIN qk = 1..(Len(q) + 1)
          /\ \A n \in 1..Len(q) : qk[n + 1] = q[n]
          /\ IsStrictPrefix(p, q) => IsStrictPrefix(pk, qk)
      BY <1>5, <2>1
    <2>3. ASSUME NEW n \in DOMAIN p \cap DOMAIN q,
                 \A m \in 1..(n - 1) : p[m] = q[m], p[n] < q[n]
          PROVE  /\ n + 1 \in DOMAIN pk \cap DOMAIN qk
                 /\ \A m \in 1..((n + 1) - 1) : pk[m] = qk[m]
                 /\ pk[n + 1] < qk[n + 1]
      <3>1. n \in Nat /\ n \in 1..Len(p) /\ n \in 1..Len(q)
        BY <1>1
      <3>2. n + 1 \in DOMAIN pk \cap DOMAIN qk /\ pk[n + 1] < qk[n + 1]
        BY <1>4, <2>2, <2>3, <3>1
      <3>3. ASSUME NEW m \in 1..((n + 1) - 1) PROVE pk[m] = qk[m]
        <4>1. CASE m = 1
          BY <1>4, <2>2, <4>1
        <4>2. CASE m # 1
          <5>1. m - 1 \in 1..(n - 1) /\ (m - 1) + 1 = m
                /\ m - 1 \in 1..Len(p) /\ m - 1 \in 1..Len(q)
            BY <1>1, <3>1, <4>2
          <5>2. pk[(m - 1) + 1] = p[m - 1] /\ qk[(m - 1) + 1] = q[m - 1]
            BY <1>4, <2>2, <5>1
          <5>3. QED
            BY <2>3, <5>1, <5>2
        <4>3. QED
          BY <4>1, <4>2
      <3>4. QED
        BY <3>2, <3>3
    <2>4. Before(pk, qk)
      BY <1>8, <2>2, <2>3 DEF Before
    <2>5. QED
      BY <2>1, <2>4
  <1>9. ASSUME NEW l \in 1..2, k < l PROVE Before(pk, <<l>> \o q)
    <2>1. PICK ql \in Turns : ql = <<l>> \o q
      BY <1>2
    <2>2. ql[1] = l /\ DOMAIN ql = 1..(Len(q) + 1)
      BY <1>5, <2>1
    <2>3. 1 \in DOMAIN pk \cap DOMAIN ql /\ pk[1] < ql[1]
          /\ \A m \in 1..(1 - 1) : pk[m] = ql[m]
      BY <1>1, <1>4, <1>9, <2>2
    <2>4. QED
      BY <2>1, <2>3 DEF Before
  <1>10. Before(<<>>, <<k>> \o q)
    BY <1>2, <1>5 DEF Before
  <1>11. QED
    BY <1>2, <1>3, <1>5, <1>6, <1>7, <1>8, <1>9, <1>10

\* The visible paths from an error down.
VisibleFrom(i) == {p \in PathsFrom(i) :
  /\ errs[From(i, p)].client
  /\ \A q \in PathsFrom(i) :
       IsStrictPrefix(q, p) /\ errs[From(i, q)].client => errs[From(i, q)].merge}

\* Some paths, after a first choice.
Through(k, P) == {<<k>> \o p : p \in P}

\* From an error for the client, the path that stops is visible, and the others
\* only if it merges; from another, those of the errors it wraps.
LEMMA VisibleSplit ==
  ASSUME WellBuilt, NEW i \in DOMAIN errs
  PROVE  VisibleFrom(i) =
           (IF errs[i].client THEN {<<>>} ELSE {}) \cup
           (IF errs[i].client /\ ~errs[i].merge THEN {}
            ELSE UNION {Through(k, VisibleFrom(errs[i].kids[k])) : k \in DOMAIN errs[i].kids})
  <1> DEFINE merges == ~errs[i].client \/ errs[i].merge
  <1>1. /\ <<>> \in PathsFrom(i) /\ From(i, <<>>) = i
        /\ DOMAIN errs[i].kids \subseteq 1..2
        /\ \A k \in DOMAIN errs[i].kids : \A path \in PathsFrom(errs[i].kids[k]) :
             /\ path \in Turns /\ <<k>> \o path \in PathsFrom(i)
             /\ From(i, <<k>> \o path) = From(errs[i].kids[k], path)
        /\ \A path \in PathsFrom(i) : path # <<>> =>
             \E k \in DOMAIN errs[i].kids : \E rest \in PathsFrom(errs[i].kids[k]) :
               path = <<k>> \o rest
    BY PathsSplit
  <1>2. <<>> \in VisibleFrom(i) <=> errs[i].client
    <2>1. \A q \in PathsFrom(i) : ~IsStrictPrefix(q, <<>>)
      <3>1. <<>> \in Turns /\ 1 \in 1..2
        BY DEF Turns
      <3>2. ASSUME NEW q \in PathsFrom(i) PROVE ~IsStrictPrefix(q, <<>>)
        <4>1. CASE q = <<>>
          BY <4>1 DEF IsStrictPrefix
        <4>2. CASE q # <<>>
          <5>1. PICK k \in DOMAIN errs[i].kids :
                  \E rest \in PathsFrom(errs[i].kids[k]) : q = <<k>> \o rest
            BY <1>1, <4>2
          <5>2. PICK rest \in Turns : q = <<k>> \o rest /\ k \in 1..2
            BY <1>1, <5>1
          <5>3. QED
            BY <5>2, BeforeGoesOn
        <4>3. QED
          BY <4>1, <4>2
      <3>3. QED
        BY <3>2
    <2>2. QED
      BY <1>1, <2>1 DEF VisibleFrom
  <1>3. ASSUME NEW k \in DOMAIN errs[i].kids, NEW p \in PathsFrom(errs[i].kids[k])
        PROVE  <<k>> \o p \in VisibleFrom(i)
                 <=> merges /\ p \in VisibleFrom(errs[i].kids[k])
    <2> DEFINE kid == errs[i].kids[k]
    <2> DEFINE Shows(j, q) == errs[From(j, q)].client => errs[From(j, q)].merge
    <2>1. k \in 1..2 /\ p \in Turns /\ <<k>> \o p \in PathsFrom(i)
          /\ From(i, <<k>> \o p) = From(kid, p)
      BY <1>1
    <2>2. ASSUME \A q \in PathsFrom(i) : IsStrictPrefix(q, <<k>> \o p) => Shows(i, q)
          PROVE  /\ merges
                 /\ \A q \in PathsFrom(kid) : IsStrictPrefix(q, p) => Shows(kid, q)
      <3>1. merges
        <4>1. IsStrictPrefix(<<>>, <<k>> \o p)
          BY <2>1, BeforeGoesOn
        <4>2. QED
          BY <1>1, <2>2, <4>1
      <3>2. ASSUME NEW q \in PathsFrom(kid), IsStrictPrefix(q, p) PROVE Shows(kid, q)
        <4>1. q \in Turns /\ <<k>> \o q \in PathsFrom(i)
              /\ From(i, <<k>> \o q) = From(kid, q)
          BY <1>1
        <4>2. IsStrictPrefix(<<k>> \o q, <<k>> \o p)
          BY <2>1, <3>2, <4>1, BeforeGoesOn
        <4>3. Shows(i, <<k>> \o q)
          BY <2>2, <4>1, <4>2
        <4>4. QED
          BY <4>1, <4>3
      <3>3. QED
        BY <3>1, <3>2
    <2>3. ASSUME merges, \A q \in PathsFrom(kid) : IsStrictPrefix(q, p) => Shows(kid, q),
                 NEW q \in PathsFrom(i), IsStrictPrefix(q, <<k>> \o p)
          PROVE  Shows(i, q)
      <3>1. CASE q = <<>>
        BY <1>1, <2>3, <3>1
      <3>2. CASE q # <<>>
        <4>1. PICK l \in DOMAIN errs[i].kids :
                \E rest \in PathsFrom(errs[i].kids[l]) : q = <<l>> \o rest
          BY <1>1, <3>2
        <4> PICK rest \in PathsFrom(errs[i].kids[l]) : q = <<l>> \o rest
          BY <4>1
        <4>2. l \in 1..2 /\ rest \in Turns /\ From(i, q) = From(errs[i].kids[l], rest)
          BY <1>1
        <4>3. l = k
          BY <2>1, <2>3, <4>2, BeforeGoesOn
        <4>4. IsStrictPrefix(rest, p)
          BY <2>1, <2>3, <4>2, <4>3, BeforeGoesOn
        <4>5. QED
          BY <2>3, <4>2, <4>3, <4>4
      <3>3. QED
        BY <3>1, <3>2
    <2>4. <<k>> \o p \in VisibleFrom(i)
            <=> /\ errs[From(kid, p)].client
                /\ \A q \in PathsFrom(i) : IsStrictPrefix(q, <<k>> \o p) => Shows(i, q)
      BY <2>1 DEF VisibleFrom
    <2>5. p \in VisibleFrom(kid)
            <=> /\ errs[From(kid, p)].client
                /\ \A q \in PathsFrom(kid) : IsStrictPrefix(q, p) => Shows(kid, q)
      BY DEF VisibleFrom
    <2> HIDE DEF Shows, kid, merges
    <2>6. <<k>> \o p \in VisibleFrom(i) <=> merges /\ p \in VisibleFrom(kid)
      BY <2>2, <2>3, <2>4, <2>5
    <2>7. QED
      BY <2>6 DEF kid
  <1>4. ASSUME NEW p
        PROVE  p \in VisibleFrom(i) <=>
                 \/ p = <<>> /\ errs[i].client
                 \/ merges /\ \E k \in DOMAIN errs[i].kids :
                                p \in Through(k, VisibleFrom(errs[i].kids[k]))
    <2>1. ASSUME p \in VisibleFrom(i), p # <<>>
          PROVE  merges /\ \E k \in DOMAIN errs[i].kids :
                             p \in Through(k, VisibleFrom(errs[i].kids[k]))
      <3>1. PICK k \in DOMAIN errs[i].kids :
              \E rest \in PathsFrom(errs[i].kids[k]) : p = <<k>> \o rest
        BY <1>1, <2>1 DEF VisibleFrom
      <3>2. QED
        BY <1>3, <2>1, <3>1 DEF Through
    <2>2. ASSUME merges, NEW k \in DOMAIN errs[i].kids,
                 p \in Through(k, VisibleFrom(errs[i].kids[k]))
          PROVE  p \in VisibleFrom(i)
      <3>1. PICK rest \in VisibleFrom(errs[i].kids[k]) : p = <<k>> \o rest
        BY <2>2 DEF Through
      <3>2. rest \in PathsFrom(errs[i].kids[k])
        BY DEF VisibleFrom
      <3>3. QED
        BY <1>3, <2>2, <3>1, <3>2
    <2>3. QED
      BY <1>2, <2>1, <2>2
  <1>5. QED
    BY <1>4

-----------------------------------------------------------------------------
(* What is told along paths *)

\* What some errors say, one after the other.
Told(places, field) == FlattenSeq([n \in DOMAIN places |-> errs[places[n]][field]])

\* Told of some errors and then of others.
LEMMA ToldConcat ==
  ASSUME WellBuilt, NEW field \in {"says", "fields"},
         NEW s \in Seq(DOMAIN errs), NEW t \in Seq(DOMAIN errs)
  PROVE  Told(s \o t, field) = Told(s, field) \o Told(t, field)
  <1> DEFINE text(places) == [n \in DOMAIN places |-> errs[places[n]][field]]
  <1>1. ASSUME NEW places \in Seq(DOMAIN errs)
        PROVE  /\ text(places) \in Seq(Seq(Nat)) /\ Len(text(places)) = Len(places)
               /\ \A n \in 1..Len(places) : text(places)[n] = errs[places[n]][field]
    <2>1. Len(places) \in Nat /\ DOMAIN places = 1..Len(places)
          /\ \A n \in 1..Len(places) : places[n] \in DOMAIN errs
      BY SeqShape
    <2>2. \A j \in DOMAIN errs : errs[j][field] \in Seq(Nat)
      BY ErrorShape
    <2>3. PICK S : S = Seq(Nat)
      OBVIOUS
    <2>4. \A n \in 1..Len(places) : errs[places[n]][field] \in S
      BY <2>1, <2>2, <2>3
    <2>5. text(places) \in [1..Len(places) -> S]
      BY <2>1, <2>4
    <2>6. text(places) \in Seq(S) /\ Len(text(places)) = Len(places)
      BY <2>1, <2>5
    <2>7. QED
      BY <2>1, <2>3, <2>6
  <1>2. /\ s \o t \in Seq(DOMAIN errs) /\ Len(s \o t) = Len(s) + Len(t)
        /\ Len(s) \in Nat /\ Len(t) \in Nat
        /\ \A n \in 1..Len(s) : (s \o t)[n] = s[n]
        /\ \A n \in 1..Len(t) : (s \o t)[Len(s) + n] = t[n]
    BY SeqShape, ConcatShape
  <1>3. PICK a \in Seq(Seq(Nat)) :
          /\ a = text(s) /\ Len(a) = Len(s)
          /\ \A n \in 1..Len(s) : a[n] = errs[s[n]][field]
    BY <1>1
  <1>4. PICK b \in Seq(Seq(Nat)) :
          /\ b = text(t) /\ Len(b) = Len(t)
          /\ \A n \in 1..Len(t) : b[n] = errs[t[n]][field]
    BY <1>1
  <1>5. PICK c \in Seq(Seq(Nat)) :
          /\ c = text(s \o t) /\ Len(c) = Len(s) + Len(t)
          /\ \A n \in 1..(Len(s) + Len(t)) : c[n] = errs[(s \o t)[n]][field]
    <2>1. PICK places \in Seq(DOMAIN errs) :
            places = s \o t /\ Len(places) = Len(s) + Len(t)
      BY <1>2
    <2>2. PICK c \in Seq(Seq(Nat)) :
            /\ c = text(places) /\ Len(c) = Len(places)
            /\ \A n \in 1..Len(places) : c[n] = errs[places[n]][field]
      BY <1>1
    <2> HIDE DEF text
    <2>3. QED
      BY <2>1, <2>2
  <1>6. c = a \o b
    <2>1. PICK d \in Seq(Seq(Nat)) :
            /\ d = a \o b /\ Len(d) = Len(a) + Len(b)
            /\ \A n \in 1..Len(a) : d[n] = a[n]
            /\ \A n \in 1..Len(b) : d[Len(a) + n] = b[n]
      <3>1. /\ a \o b \in Seq(Seq(Nat)) /\ Len(a \o b) = Len(a) + Len(b)
            /\ \A n \in 1..Len(a) : (a \o b)[n] = a[n]
            /\ \A n \in 1..Len(b) : (a \o b)[Len(a) + n] = b[n]
        BY ConcatShape
      <3>2. QED
        BY <3>1
    <2>2. Len(d) = Len(c)
      BY <1>3, <1>4, <1>5, <2>1
    <2>3. ASSUME NEW n \in 1..Len(d) PROVE d[n] = c[n]
      <3>1. n \in 1..(Len(s) + Len(t))
        BY <1>3, <1>4, <2>1
      <3>2. CASE n \in 1..Len(s)
        BY <1>2, <1>3, <1>5, <2>1, <3>1, <3>2
      <3>3. CASE n \notin 1..Len(s)
        <4>1. PICK m \in 1..Len(t) : n = Len(s) + m
          <5>1. n - Len(s) \in 1..Len(t) /\ n = Len(s) + (n - Len(s))
            BY <1>2, <3>1, <3>3
          <5>2. QED
            BY <5>1
        <4>2. d[n] = b[m] /\ b[m] = errs[t[m]][field]
          BY <1>3, <1>4, <2>1, <4>1
        <4>3. c[n] = errs[t[m]][field]
          BY <1>2, <1>5, <3>1, <4>1
        <4>4. QED
          BY <4>2, <4>3
      <3>4. QED
        BY <3>2, <3>3
    <2>4. d = c
      BY <2>2, <2>3, SameSeq
    <2>5. QED
      BY <2>1, <2>4
  <1>7. Told(s, field) = FlattenSeq(a) /\ Told(t, field) = FlattenSeq(b)
        /\ Told(s \o t, field) = FlattenSeq(c)
    BY <1>3, <1>4, <1>5 DEF Told
  <1>8. QED
    BY <1>6, <1>7, FlattenConcat

\* Told of one error, and of none.
LEMMA ToldOne ==
  ASSUME WellBuilt, NEW field \in {"says", "fields"}, NEW j \in DOMAIN errs
  PROVE  Told(<<j>>, field) = errs[j][field] /\ Told(<<>>, field) = <<>>
  <1>1. [n \in DOMAIN <<j>> |-> errs[<<j>>[n]][field]] = <<errs[j][field]>>
    OBVIOUS
  <1>2. [n \in DOMAIN <<>> |-> errs[<<>>[n]][field]] = <<>>
    OBVIOUS
  <1>3. errs[j][field] \in Seq(Nat)
    BY ErrorShape
  <1>4. QED
    BY <1>1, <1>2, <1>3, FlattenOne DEF Told

\* The paths of a set in their order, and the errors they lead to.
Listing(i, P, s, places) ==
  /\ s \in Seq(Turns) /\ places \in Seq(DOMAIN errs) /\ Len(places) = Len(s)
  /\ \A n \in 1..Len(s) : s[n] \in P /\ places[n] = From(i, s[n])
  /\ \A p \in P : \E n \in 1..Len(s) : s[n] = p
  /\ \A m, n \in 1..Len(s) : m < n => Before(s[m], s[n])

\* A result tells what these errors say, and which is the first of them.
Tells(r, places) ==
  /\ r.msg.says = Told(places, "says") /\ r.msg.fields = Told(places, "fields")
  /\ r.first = IF Len(places) = 0 THEN 0 ELSE places[1]

\* A result tells, in their order, of the errors that some paths lead to.
Lists(i, P, r) == \E s, places : Listing(i, P, s, places) /\ Tells(r, places)

\* To begin with, of none.
LEMMA ListsNothing ==
  ASSUME WellBuilt, NEW i \in DOMAIN errs
  PROVE  Lists(i, {}, Nothing)
  <1>1. PICK none : none = <<>>
    OBVIOUS
  <1>2. none \in Seq(Turns) /\ none \in Seq(DOMAIN errs) /\ Len(none) = 0
    <2>1. none \in Seq(Turns)
      BY <1>1, OneShape DEF Turns
    <2>2. none \in Seq(DOMAIN errs)
      BY <1>1, OneShape
    <2>3. QED
      BY <1>1, <2>1, <2>2
  <1>3. Listing(i, {}, none, none)
    BY <1>2 DEF Listing
  <1>4. Told(none, "says") = <<>> /\ Told(none, "fields") = <<>>
    BY <1>1, ToldOne
  <1>5. Tells(Nothing, none)
    BY <1>2, <1>4 DEF Tells, Nothing, Empty
  <1>6. QED
    BY <1>3, <1>5 DEF Lists

\* What an error for the client tells of itself.
LEMMA ListsOwn ==
  ASSUME WellBuilt, NEW i \in DOMAIN errs
  PROVE  Lists(i, {<<>>}, [msg |-> accumulate(Empty, errs[i]), first |-> i])
  <1>1. PICK root \in Turns : root = <<>>
    <2>1. <<>> \in Turns
      BY DEF Turns
    <2>2. QED
      BY <2>1
  <1>2. From(i, root) = i
    BY <1>1, PathsSplit
  <1>3. PICK s \in Seq(Turns) : s = <<root>> /\ Len(s) = 1 /\ s[1] = root
    BY OneShape
  <1>4. PICK places \in Seq(DOMAIN errs) : /\ places = <<i>> /\ Len(places) = 1
                                           /\ places[1] = i
    BY OneShape
  <1>5. Listing(i, {root}, s, places)
    <2>1. 1..Len(s) = {1}
      BY <1>3
    <2>2. \A m, n \in 1..Len(s) : ~(m < n)
      BY <2>1
    <2>3. QED
      BY <1>2, <1>3, <1>4, <2>1, <2>2 DEF Listing
  <1>6. Told(places, "says") = errs[i].says /\ Told(places, "fields") = errs[i].fields
    BY <1>4, ToldOne
  <1>7. /\ accumulate(Empty, errs[i]).says = errs[i].says
        /\ accumulate(Empty, errs[i]).fields = errs[i].fields
    <2>1. errs[i].says \in Seq(Nat) /\ errs[i].fields \in Seq(Nat)
      BY ErrorShape
    <2>2. \A t \in Seq(Nat) : <<>> \o t = t
      OBVIOUS
    <2>3. QED
      BY <2>1, <2>2 DEF accumulate, Empty
  <1>8. Tells([msg |-> accumulate(Empty, errs[i]), first |-> i], places)
    BY <1>4, <1>6, <1>7 DEF Tells
  <1>9. QED
    BY <1>1, <1>5, <1>8 DEF Lists

\* All paths of a set come before all of another.
AllBefore(P, Q) == \A p \in P, q \in Q : Before(p, q)

\* What the errors at the first places and then at the others say.
Joined(places, more) ==
  /\ Told(places \o more, "says") = Told(places, "says") \o Told(more, "says")
  /\ Told(places \o more, "fields") = Told(places, "fields") \o Told(more, "fields")
  /\ Len(places \o more) = Len(places) + Len(more)
  /\ Len(places) \in Nat /\ Len(more) \in Nat
  /\ Len(places) # 0 => (places \o more)[1] = places[1]
  /\ Len(places) = 0 => places \o more = more

\* What comes before is listed before.
LEMMA ListingConcat ==
  ASSUME WellBuilt, NEW i \in DOMAIN errs, NEW P, NEW Q,
         AllBefore(P, Q),
         NEW s, NEW places, Listing(i, P, s, places),
         NEW t, NEW more, Listing(i, Q, t, more)
  PROVE  /\ Listing(i, P \cup Q, s \o t, places \o more)
         /\ Joined(places, more)
  <1>1. /\ s \in Seq(Turns) /\ t \in Seq(Turns)
        /\ places \in Seq(DOMAIN errs) /\ more \in Seq(DOMAIN errs)
        /\ Len(places) = Len(s) /\ Len(more) = Len(t)
    BY DEF Listing
  <1>2. PICK u \in Seq(Turns) :
          /\ u = s \o t /\ Len(u) = Len(s) + Len(t)
          /\ Len(s) \in Nat /\ Len(t) \in Nat
          /\ \A n \in 1..Len(s) : u[n] = s[n]
          /\ \A n \in 1..Len(t) : u[Len(s) + n] = t[n]
    <2>1. /\ s \o t \in Seq(Turns) /\ Len(s \o t) = Len(s) + Len(t)
          /\ Len(s) \in Nat /\ Len(t) \in Nat
          /\ \A n \in 1..Len(s) : (s \o t)[n] = s[n]
          /\ \A n \in 1..Len(t) : (s \o t)[Len(s) + n] = t[n]
      BY <1>1, SeqShape, ConcatShape
    <2>2. QED
      BY <2>1
  <1>3. PICK all \in Seq(DOMAIN errs) :
          /\ all = places \o more /\ Len(all) = Len(places) + Len(more)
          /\ \A n \in 1..Len(places) : all[n] = places[n]
          /\ \A n \in 1..Len(more) : all[Len(places) + n] = more[n]
    <2>1. /\ places \o more \in Seq(DOMAIN errs)
          /\ Len(places \o more) = Len(places) + Len(more)
          /\ \A n \in 1..Len(places) : (places \o more)[n] = places[n]
          /\ \A n \in 1..Len(more) : (places \o more)[Len(places) + n] = more[n]
      <3>1. PICK S : S = DOMAIN errs
        OBVIOUS
      <3>2. places \in Seq(S) /\ more \in Seq(S)
        BY <1>1, <3>1
      <3>3. QED
        BY <3>1, <3>2, ConcatShape
    <2>2. QED
      BY <2>1
  <1>4. \A n \in 1..Len(u) : \/ n \in 1..Len(s)
                             \/ \E m \in 1..Len(t) : n = Len(s) + m
    <2>1. ASSUME NEW n \in 1..Len(u), n \notin 1..Len(s)
          PROVE  \E m \in 1..Len(t) : n = Len(s) + m
      <3>1. n - Len(s) \in 1..Len(t) /\ n = Len(s) + (n - Len(s))
        BY <1>2, <2>1
      <3>2. QED
        BY <3>1
    <2>2. QED
      BY <2>1
  <1>5. ASSUME NEW n \in 1..Len(u) PROVE u[n] \in P \cup Q /\ all[n] = From(i, u[n])
    <2>1. CASE n \in 1..Len(s)
      BY <1>1, <1>2, <1>3, <2>1 DEF Listing
    <2>2. ASSUME NEW m \in 1..Len(t), n = Len(s) + m
          PROVE  u[n] \in P \cup Q /\ all[n] = From(i, u[n])
      <3>1. u[n] = t[m] /\ all[n] = more[m]
        BY <1>1, <1>2, <1>3, <2>2
      <3>2. QED
        BY <3>1 DEF Listing
    <2>3. QED
      BY <1>4, <2>1, <2>2
  <1>6. ASSUME NEW p \in P \cup Q PROVE \E n \in 1..Len(u) : u[n] = p
    <2>1. CASE p \in P
      <3>1. PICK n \in 1..Len(s) : s[n] = p
        BY <2>1 DEF Listing
      <3>2. n \in 1..Len(u) /\ u[n] = p
        BY <1>2, <3>1
      <3>3. QED
        BY <3>2
    <2>2. CASE p \in Q
      <3>1. PICK n \in 1..Len(t) : t[n] = p
        BY <2>2 DEF Listing
      <3>2. Len(s) + n \in 1..Len(u) /\ u[Len(s) + n] = p
        BY <1>2, <3>1
      <3>3. QED
        BY <3>2
    <2>3. QED
      BY <2>1, <2>2
  <1>7. ASSUME NEW m \in 1..Len(u), NEW n \in 1..Len(u), m < n
        PROVE  Before(u[m], u[n])
    <2>1. CASE n \in 1..Len(s)
      <3>1. m \in 1..Len(s)
        BY <1>2, <1>7, <2>1
      <3>2. QED
        BY <1>2, <1>7, <2>1, <3>1 DEF Listing
    <2>2. ASSUME NEW b \in 1..Len(t), n = Len(s) + b PROVE Before(u[m], u[n])
      <3>1. u[n] = t[b] /\ t[b] \in Q
        BY <1>2, <2>2 DEF Listing
      <3>2. CASE m \in 1..Len(s)
        <4>1. u[m] = s[m] /\ s[m] \in P
          BY <1>2, <3>2 DEF Listing
        <4>2. QED
          BY <3>1, <4>1 DEF AllBefore
      <3>3. ASSUME NEW a \in 1..Len(t), m = Len(s) + a PROVE Before(u[m], u[n])
        <4>1. u[m] = t[a] /\ a < b
          BY <1>2, <1>7, <2>2, <3>3
        <4>2. QED
          BY <3>1, <4>1 DEF Listing
      <3>4. QED
        BY <1>4, <3>2, <3>3
    <2>3. QED
      BY <1>4, <2>1, <2>2
  <1>8. Listing(i, P \cup Q, u, all)
    <2>1. Len(all) = Len(u)
      BY <1>1, <1>2, <1>3
    <2>2. QED
      BY <1>5, <1>6, <1>7, <2>1 DEF Listing
  <1>9. /\ Told(places \o more, "says") = Told(places, "says") \o Told(more, "says")
        /\ Told(places \o more, "fields") = Told(places, "fields") \o Told(more, "fields")
    BY <1>1, ToldConcat
  <1>10. Len(places) # 0 => all[1] = places[1]
    BY <1>1, <1>2, <1>3
  <1>11. Len(places) = 0 => all = more
    <2>1. ASSUME Len(places) = 0 PROVE all = more
      <3>1. Len(all) = Len(more) /\ \A n \in 1..Len(more) : all[n] = more[n]
        BY <1>1, <1>2, <1>3, <2>1
      <3>2. QED
        BY <1>1, <3>1, SameSeq
    <2>2. QED
      BY <2>1
  <1>12. Joined(places, more)
    BY <1>1, <1>2, <1>3, <1>9, <1>10, <1>11 DEF Joined
  <1>13. QED
    BY <1>2, <1>3, <1>8, <1>12

\* So a branch that is accumulated is listed after those before it.
LEMMA ListsBranch ==
  ASSUME WellBuilt, NEW i \in DOMAIN errs, NEW P, NEW Q,
         AllBefore(P, Q),
         NEW r \in Results, Lists(i, P, r), NEW b \in Results, Lists(i, Q, b)
  PROVE  Lists(i, P \cup Q, Branch(r, b))
  <1>1. PICK s, places : Listing(i, P, s, places) /\ Tells(r, places)
    BY DEF Lists
  <1>2. PICK t, more : Listing(i, Q, t, more) /\ Tells(b, more)
    BY DEF Lists
  <1>3. /\ Listing(i, P \cup Q, s \o t, places \o more)
        /\ Told(places \o more, "says") = Told(places, "says") \o Told(more, "says")
        /\ Told(places \o more, "fields") = Told(places, "fields") \o Told(more, "fields")
        /\ Len(places \o more) = Len(places) + Len(more)
        /\ Len(places) \in Nat /\ Len(more) \in Nat
        /\ Len(places) # 0 => (places \o more)[1] = places[1]
        /\ Len(places) = 0 => places \o more = more
    <2>1. Listing(i, P \cup Q, s \o t, places \o more) /\ Joined(places, more)
      BY <1>1, <1>2, ListingConcat
    <2>2. QED
      BY <2>1 DEF Joined
  <1>4. Len(places) # 0 => places[1] # 0
    <2>1. /\ places \in Seq(DOMAIN errs) /\ 0 \notin DOMAIN errs
      BY <1>1, ErrorShape DEF Listing
    <2>2. QED
      BY <1>3, <2>1, SeqShape
  <1>5. Branch(r, b).msg.says = r.msg.says \o b.msg.says
        /\ Branch(r, b).msg.fields = r.msg.fields \o b.msg.fields
        /\ Branch(r, b).first = IF r.first = 0 THEN b.first ELSE r.first
    BY DEF Branch, accumulate
  <1>6. PICK all : all = places \o more
    OBVIOUS
  <1>7. (IF r.first = 0 THEN b.first ELSE r.first) = IF Len(all) = 0 THEN 0 ELSE all[1]
    <2>1. r.first = (IF Len(places) = 0 THEN 0 ELSE places[1])
          /\ b.first = IF Len(more) = 0 THEN 0 ELSE more[1]
      BY <1>1, <1>2 DEF Tells
    <2>2. CASE Len(places) = 0
      BY <1>3, <1>6, <2>1, <2>2
    <2>3. CASE Len(places) # 0
      BY <1>3, <1>4, <1>6, <2>1, <2>3
    <2>4. QED
      BY <2>2, <2>3
  <1>8. Tells(Branch(r, b), all)
    BY <1>1, <1>2, <1>3, <1>5, <1>6, <1>7 DEF Tells
  <1>9. QED
    BY <1>3, <1>6, <1>8 DEF Lists

\* The paths of a wrapped error go on from the one that wraps it.
LEMMA ListsThrough ==
  ASSUME WellBuilt, NEW i \in DOMAIN errs, NEW k \in DOMAIN errs[i].kids,
         NEW P \in SUBSET PathsFrom(errs[i].kids[k]), NEW r,
         Lists(errs[i].kids[k], P, r)
  PROVE  Lists(i, Through(k, P), r)
  <1> DEFINE kid == errs[i].kids[k]
  <1>1. PICK s, places : Listing(kid, P, s, places) /\ Tells(r, places)
    BY DEF Lists
  <1>2. /\ k \in 1..2
        /\ \A p \in P : /\ p \in Turns /\ <<k>> \o p \in Turns
                        /\ From(i, <<k>> \o p) = From(kid, p)
    BY PathsSplit DEF PathsFrom
  <1>3. s \in Seq(Turns) /\ Len(s) \in Nat /\ DOMAIN s = 1..Len(s)
        /\ \A n \in 1..Len(s) : s[n] \in P
    BY <1>1, SeqShape DEF Listing
  <1>4. PICK t \in Seq(Turns) : /\ Len(t) = Len(s)
                                  /\ \A n \in 1..Len(s) : t[n] = <<k>> \o s[n]
    <2> DEFINE t == [n \in 1..Len(s) |-> <<k>> \o s[n]]
    <2>1. t \in [1..Len(s) -> Turns]
      BY <1>2, <1>3
    <2>2. t \in Seq(Turns) /\ Len(t) = Len(s)
      BY <1>3, <2>1
    <2>3. QED
      BY <2>2
  <1>5. ASSUME NEW n \in 1..Len(t)
        PROVE  t[n] \in Through(k, P) /\ places[n] = From(i, t[n])
    BY <1>1, <1>2, <1>3, <1>4 DEF Listing, Through
  <1>6. ASSUME NEW p \in Through(k, P) PROVE \E n \in 1..Len(t) : t[n] = p
    <2>1. PICK q \in P : p = <<k>> \o q
      BY DEF Through
    <2>2. PICK n \in 1..Len(s) : s[n] = q
      BY <1>1 DEF Listing
    <2>3. QED
      BY <1>4, <2>1, <2>2
  <1>7. ASSUME NEW m \in 1..Len(t), NEW n \in 1..Len(t), m < n
        PROVE  Before(t[m], t[n])
    <2>1. Before(s[m], s[n]) /\ s[m] \in Turns /\ s[n] \in Turns
      BY <1>1, <1>2, <1>3, <1>4, <1>7 DEF Listing
    <2>2. t[m] = <<k>> \o s[m] /\ t[n] = <<k>> \o s[n]
      BY <1>4
    <2>3. QED
      BY <1>2, <2>1, <2>2, BeforeGoesOn
  <1>8. Listing(i, Through(k, P), t, places)
    <2>1. places \in Seq(DOMAIN errs) /\ Len(places) = Len(t)
      BY <1>1, <1>4 DEF Listing
    <2>2. QED
      BY <1>5, <1>6, <1>7, <2>1 DEF Listing
  <1>9. QED
    BY <1>1, <1>8 DEF Lists

\* The paths of the first wrapped errors.
ThroughUpto(i, n) == UNION {Through(k, VisibleFrom(errs[i].kids[k])) : k \in 1..n}

\* The branches of a joined error are listed from left to right.
LEMMA BranchesList ==
  ASSUME WellBuilt, NEW i \in DOMAIN errs, NEW below \in Seq(Results),
         Len(below) = Len(errs[i].kids),
         \A k \in DOMAIN errs[i].kids :
           Lists(errs[i].kids[k], VisibleFrom(errs[i].kids[k]), below[k])
  PROVE  /\ Branches(below) \in Results
         /\ Lists(i, ThroughUpto(i, Len(errs[i].kids)), Branches(below))
  <1> DEFINE joined == JoinedOf(below)
  <1> DEFINE Good(n) == joined[n] \in Results /\ Lists(i, ThroughUpto(i, n), joined[n])
  <1> DEFINE failing == {n \in 0..Len(below) : ~Good(n)}
  <1>1. /\ Len(below) \in Nat
        /\ Branches(below) = joined[Len(below)]
        /\ joined = [n \in 0..Len(below) |->
             IF n = 0 THEN Nothing ELSE Branch(joined[n - 1], below[n])]
    BY JoinedExists
  <1>2. /\ DOMAIN errs[i].kids = 1..Len(below) /\ DOMAIN errs[i].kids \subseteq 1..2
        /\ \A k \in 1..Len(below) : below[k] \in Results
    BY PathsSplit, ErrorShape, SeqShape
  <1> HIDE DEF joined
  <1>3. SUFFICES ASSUME failing # {} PROVE FALSE
    <2>1. Len(below) \in 0..Len(below)
      BY <1>1
    <2>2. failing = {} => Good(Len(below))
      BY <2>1
    <2>3. QED
      BY <1>1, <2>2
  <1>4. PICK n \in failing : \A m \in failing : n <= m
    <2>1. failing \subseteq Nat
      OBVIOUS
    <2> HIDE DEF failing
    <2>2. QED
      BY <1>3, <2>1, LeastOf
  <1>5. n # 0
    <2>1. joined[0] = Nothing
      BY <1>1
    <2>2. ThroughUpto(i, 0) = {}
      BY DEF ThroughUpto
    <2>3. QED
      BY <1>4, <2>1, <2>2, ListsNothing, NothingIsEmpty
  <1>6. Good(n - 1)
    <2>1. n - 1 \in 0..Len(below) /\ ~(n <= n - 1)
      BY <1>1, <1>4, <1>5
    <2>2. n - 1 \notin failing
      BY <1>4, <2>1
    <2>3. QED
      BY <2>1, <2>2
  <1>7. /\ n \in 1..Len(below) /\ n \in DOMAIN errs[i].kids
        /\ n \in 1..2 /\ below[n] \in Results
        /\ joined[n] = Branch(joined[n - 1], below[n])
    BY <1>1, <1>2, <1>4, <1>5
  <1> DEFINE P == ThroughUpto(i, n - 1)
  <1> DEFINE Q == Through(n, VisibleFrom(errs[i].kids[n]))
  <1>8. Lists(i, Q, below[n])
    <2>1. VisibleFrom(errs[i].kids[n]) \in SUBSET PathsFrom(errs[i].kids[n])
      BY DEF VisibleFrom
    <2>2. QED
      BY <1>7, <2>1, ListsThrough
  <1>9. AllBefore(P, Q)
    <2>1. ASSUME NEW p \in P, NEW q \in Q PROVE Before(p, q)
      <3>1. PICK k \in 1..(n - 1) : p \in Through(k, VisibleFrom(errs[i].kids[k]))
        BY DEF ThroughUpto
      <3>2. k \in DOMAIN errs[i].kids /\ k \in 1..2 /\ k < n
        BY <1>2, <1>7
      <3>3. PICK a \in VisibleFrom(errs[i].kids[k]) : p = <<k>> \o a
        BY <3>1 DEF Through
      <3>4. PICK b \in VisibleFrom(errs[i].kids[n]) : q = <<n>> \o b
        BY DEF Through
      <3>5. a \in Turns /\ b \in Turns
        BY DEF VisibleFrom, PathsFrom
      <3>6. QED
        BY <1>7, <3>2, <3>3, <3>4, <3>5, BeforeGoesOn
    <2>2. QED
      BY <2>1 DEF AllBefore
  <1>10. P \cup Q = ThroughUpto(i, n)
    <2>1. 1..n = (1..(n - 1)) \cup {n}
      BY <1>7
    <2>2. QED
      BY <2>1 DEF ThroughUpto
  <1> HIDE DEF P, Q
  <1>11. Lists(i, P \cup Q, Branch(joined[n - 1], below[n]))
    <2>1. joined[n - 1] \in Results /\ Lists(i, P, joined[n - 1])
      BY <1>6 DEF P
    <2>2. QED
      BY <1>7, <1>8, <1>9, <2>1, ListsBranch
  <1>12. Branch(joined[n - 1], below[n]) \in Results
    <2>1. PICK r \in Results : r = joined[n - 1]
      BY <1>6
    <2>2. PICK b \in Results : b = below[n]
      BY <1>7
    <2>3. /\ r.msg \in Messages /\ r.first \in Nat /\ b.first \in Nat
          /\ b.msg.says \in Seq(Nat) /\ b.msg.fields \in Seq(Nat)
      BY DEF Results, Messages
    <2>4. accumulate(r.msg, b.msg) \in Messages
      BY <2>3, Accumulates
    <2>5. Branch(r, b) \in Results
      BY <2>3, <2>4 DEF Branch, Results
    <2>6. QED
      BY <2>1, <2>2, <2>5
  <1>13. QED
    BY <1>4, <1>7, <1>10, <1>11, <1>12

\* The marks of an error.
LEMMA ClientShape ==
  ASSUME WellBuilt, NEW i \in DOMAIN errs
  PROVE  /\ i \in Nat /\ i # 0 /\ errs[i].client \in BOOLEAN
         /\ IsClientErr(errs[i]) = errs[i].client
  <1>1. i \in Nat /\ i >= 1 /\ errs[i].client \in BOOLEAN
    BY ErrorShape
  <1>2. errs[i].client => errs[i].kind = "app"
    BY DEF WellBuilt
  <1>3. IsClientErr(errs[i]) = errs[i].client
    BY <1>1, <1>2 DEF IsClientErr
  <1>4. QED
    BY <1>1, <1>3

\* An error comes before what it wraps, and hides that unless it merges.
LEMMA SaidLists ==
  ASSUME WellBuilt, NEW i \in DOMAIN errs, NEW below \in Seq(Results),
         Len(below) = Len(errs[i].kids),
         \A k \in DOMAIN errs[i].kids :
           Lists(errs[i].kids[k], VisibleFrom(errs[i].kids[k]), below[k])
  PROVE  Lists(i, VisibleFrom(i), Said(i, below))
  <1> DEFINE U == ThroughUpto(i, Len(errs[i].kids))
  <1> DEFINE r == Branches(below)
  <1> DEFINE own == [msg |-> accumulate(Empty, errs[i]), first |-> i]
  <1>1. r \in Results /\ Lists(i, U, r)
    BY BranchesList
  <1>2. /\ i \in Nat /\ i # 0 /\ errs[i].client \in BOOLEAN
        /\ IsClientErr(errs[i]) = errs[i].client
    BY ClientShape
  <1>3. VisibleFrom(i) = (IF errs[i].client THEN {<<>>} ELSE {}) \cup
                         (IF errs[i].client /\ ~errs[i].merge THEN {} ELSE U)
    <2>1. DOMAIN errs[i].kids = 1..Len(errs[i].kids)
      BY ErrorShape, SeqShape
    <2>2. QED
      BY <2>1, VisibleSplit DEF ThroughUpto
  <1>4. own \in Results /\ Lists(i, {<<>>}, own)
    <2>1. PICK e : e = errs[i] /\ e.says \in Seq(Nat) /\ e.fields \in Seq(Nat)
      BY ErrorShape
    <2>2. accumulate(Empty, e) \in Messages
      BY <2>1, NothingIsEmpty, Accumulates
    <2>3. own \in Results
      BY <1>2, <2>1, <2>2 DEF Results
    <2>4. QED
      BY <2>3, ListsOwn
  <1>5. AllBefore({<<>>}, U)
    <2>1. ASSUME NEW q \in U PROVE Before(<<>>, q)
      <3>1. PICK k \in 1..Len(errs[i].kids) :
              q \in Through(k, VisibleFrom(errs[i].kids[k]))
        BY DEF ThroughUpto
      <3>2. PICK p \in VisibleFrom(errs[i].kids[k]) : q = <<k>> \o p
        BY <3>1 DEF Through
      <3>3. k \in 1..2 /\ p \in Turns
        BY ErrorShape DEF WellBuilt, VisibleFrom, PathsFrom
      <3>4. QED
        BY <3>2, <3>3, BeforeGoesOn
    <2>2. QED
      BY <2>1 DEF AllBefore
  <1>6. Said(i, below) = IF errs[i].client
                         THEN IF errs[i].merge THEN Branch(own, r) ELSE own
                         ELSE r
    <2>1. own.msg = accumulate(Empty, errs[i]) /\ own.first = i
      OBVIOUS
    <2>2. Branch(own, r) = [msg |-> accumulate(own.msg, r.msg), first |-> i]
      BY <1>2, <2>1 DEF Branch
    <2>3. Said(i, below) = IF errs[i].client
            THEN [msg |-> IF errs[i].merge THEN accumulate(own.msg, r.msg) ELSE own.msg,
                  first |-> i]
            ELSE r
      BY <1>2, <2>1 DEF Said
    <2> HIDE DEF r
    <2>4. QED
      BY <2>1, <2>2, <2>3
  <1> HIDE DEF U, r, own
  <1>7. CASE ~errs[i].client
    BY <1>1, <1>3, <1>6, <1>7
  <1>8. CASE errs[i].client /\ ~errs[i].merge
    BY <1>3, <1>4, <1>6, <1>8
  <1>9. CASE errs[i].client /\ errs[i].merge
    <2>1. Lists(i, {<<>>} \cup U, Branch(own, r))
      BY <1>1, <1>4, <1>5, ListsBranch
    <2>2. QED
      BY <1>3, <1>6, <1>9, <2>1
  <1>10. QED
    BY <1>2, <1>7, <1>8, <1>9

\* What an error tells is what is visible from it, in order.
LEMMA FoundLists ==
  ASSUME WellBuilt, NEW i \in DOMAIN errs
  PROVE  /\ generateClientFields(i) \in Results
         /\ Lists(i, VisibleFrom(i), generateClientFields(i))
  <1> DEFINE Good(n) == Lists(n, VisibleFrom(n), FoundOf(i)[n])
  <1> DEFINE failing == {n \in 1..i : ~Good(n)}
  <1>1. i \in 1..i /\ i \in Nat
    BY ErrorShape
  <1>2. failing = {}
    <2>1. SUFFICES ASSUME failing # {} PROVE FALSE
      OBVIOUS
    <2>2. PICK n \in failing : \A m \in failing : n <= m
      <3>1. failing \subseteq Nat
        OBVIOUS
      <3> HIDE DEF failing
      <3>2. QED
        BY <2>1, <3>1, LeastOf
    <2>3. n \in 1..i /\ n \in DOMAIN errs /\ ~Good(n)
      BY <2>2, ErrorShape
    <2>4. ASSUME NEW k \in DOMAIN errs[n].kids
          PROVE  /\ FoundOf(i)[errs[n].kids[k]] \in Results
                 /\ Good(errs[n].kids[k])
      <3>1. errs[n].kids[k] \in 1..(n - 1)
        BY <2>3, ErrorShape
      <3>2. errs[n].kids[k] \in 1..i /\ ~(n <= errs[n].kids[k])
        BY <1>1, <2>3, <3>1
      <3>3. errs[n].kids[k] \notin failing
        BY <2>2, <3>2
      <3>4. QED
        BY <3>2, <3>3, FoundSays
    <2>5. /\ FoundBelow(i, n) \in Seq(Results)
          /\ Len(FoundBelow(i, n)) = Len(errs[n].kids)
          /\ \A k \in DOMAIN errs[n].kids :
               FoundBelow(i, n)[k] = FoundOf(i)[errs[n].kids[k]]
      <3>1. errs[n].kids \in Seq(Nat)
        BY <2>3, ErrorShape
      <3>2. QED
        BY <2>4, <3>1 DEF FoundBelow
    <2>6. FoundOf(i)[n] = Said(n, FoundBelow(i, n))
      BY <2>3, FoundExists DEF FoundBelow
    <2>7. Lists(n, VisibleFrom(n), Said(n, FoundBelow(i, n)))
      BY <2>3, <2>4, <2>5, SaidLists
    <2>8. QED
      BY <2>3, <2>6, <2>7
  <1>3. generateClientFields(i) = FoundOf(i)[i]
    BY FoundExists
  <1>4. QED
    BY <1>1, <1>2, <1>3, FoundSays

-----------------------------------------------------------------------------
(* The reference *)

\* A listing is the order in which the paths are counted.
LEMMA ListingCounts ==
  ASSUME NEW i, NEW P \in SUBSET Turns, NEW s, NEW places, Listing(i, P, s, places)
  PROVE  /\ Cardinality(P) = Len(s) /\ Len(s) \in Nat
         /\ \A n \in 1..Len(s) :
              s[n] = CHOOSE p \in P : Cardinality({q \in P : Before(q, p)}) = n - 1
  <1> DEFINE first(n) == {s[m] : m \in 1..n}
  <1>1. /\ Len(s) \in Nat
        /\ \A n \in 1..Len(s) : s[n] \in P
        /\ \A p \in P : \E n \in 1..Len(s) : s[n] = p
        /\ \A m, n \in 1..Len(s) : m < n => Before(s[m], s[n])
    BY SeqShape DEF Listing
  <1>2. \A m, n \in 1..Len(s) : Before(s[m], s[n]) <=> m < n
    <2>1. ASSUME NEW m \in 1..Len(s), NEW n \in 1..Len(s), Before(s[m], s[n]), ~(m < n)
          PROVE  FALSE
      <3>1. s[m] \in Turns /\ s[n] \in Turns
        BY <1>1
      <3>2. s[m] # s[n] /\ ~Before(s[n], s[m])
        BY <2>1, <3>1, BeforeOrders
      <3>3. ~(n < m) /\ m # n
        BY <1>1, <3>2
      <3>4. QED
        BY <1>1, <2>1, <3>3
    <2>2. QED
      BY <1>1, <2>1
  <1>3. \A m, n \in 1..Len(s) : s[m] = s[n] => m = n
    <2>1. ASSUME NEW m \in 1..Len(s), NEW n \in 1..Len(s), s[m] = s[n], m # n
          PROVE  FALSE
      <3>1. m < n \/ n < m
        BY <1>1, <2>1
      <3>2. Before(s[m], s[n])
        BY <1>1, <2>1, <3>1
      <3>3. QED
        BY <1>1, <2>1, <3>2, BeforeOrders
    <2>2. QED
      BY <2>1
  <1>4. ASSUME NEW n \in 0..Len(s) PROVE Cardinality(first(n)) = n
    <2>1. \A m \in 1..n : m \in 1..Len(s)
      BY <1>1
    <2> DEFINE f == [m \in 1..n |-> s[m]]
    <2>2. f \in Bijection(1..n, first(n))
      <3>1. f \in [1..n -> first(n)]
        OBVIOUS
      <3>2. \A a, b \in 1..n : f[a] = f[b] => a = b
        BY <1>3, <2>1
      <3>3. \A t \in first(n) : \E m \in 1..n : f[m] = t
        OBVIOUS
      <3> HIDE DEF f, first
      <3>4. QED
        BY <3>1, <3>2, <3>3, Fun_IsBij DEF Injection, IsInjective, Surjection
    <2>3. IsFiniteSet(1..n) /\ Cardinality(1..n) = n
      <3>1. n \in Nat /\ 1 \in Int /\ n \in Int
        BY <1>1
      <3>2. Cardinality(1..n) = IF 1 > n THEN 0 ELSE n - 1 + 1
        BY <3>1, FS_Interval
      <3>3. QED
        BY <3>1, <3>2, FS_Interval
    <2>4. ExistsBijection(1..n, first(n))
      BY <2>2 DEF ExistsBijection
    <2> HIDE DEF first
    <2>5. QED
      BY <2>3, <2>4, FS_Bijection
  <1>5. P = first(Len(s))
    BY <1>1
  <1>6. ASSUME NEW n \in 1..Len(s)
        PROVE  Cardinality({q \in P : Before(q, s[n])}) = n - 1
    <2>1. {q \in P : Before(q, s[n])} = first(n - 1)
      <3>1. ASSUME NEW q \in P, Before(q, s[n]) PROVE q \in first(n - 1)
        <4>1. PICK m \in 1..Len(s) : s[m] = q
          BY <1>1
        <4>2. m < n
          BY <1>2, <3>1, <4>1
        <4>3. m \in 1..(n - 1)
          BY <1>1, <4>2
        <4>4. QED
          BY <4>1, <4>3
      <3>2. ASSUME NEW q \in first(n - 1) PROVE q \in P /\ Before(q, s[n])
        <4>1. PICK m \in 1..(n - 1) : s[m] = q
          OBVIOUS
        <4>2. m \in 1..Len(s) /\ m < n
          BY <1>1
        <4>3. QED
          BY <1>1, <4>1, <4>2
      <3> HIDE DEF first
      <3>3. QED
        BY <3>1, <3>2
    <2>2. n - 1 \in 0..Len(s)
      BY <1>1
    <2> HIDE DEF first
    <2>3. QED
      BY <1>4, <2>1, <2>2
  <1>7. ASSUME NEW n \in 1..Len(s)
        PROVE  s[n] = CHOOSE p \in P : Cardinality({q \in P : Before(q, p)}) = n - 1
    <2>1. ASSUME NEW p \in P, Cardinality({q \in P : Before(q, p)}) = n - 1
          PROVE  p = s[n]
      <3>1. PICK m \in 1..Len(s) : s[m] = p
        BY <1>1
      <3>2. m - 1 = n - 1
        BY <1>6, <2>1, <3>1
      <3>3. QED
        BY <1>1, <3>1, <3>2
    <2>2. s[n] \in P
      BY <1>1
    <2>3. QED
      BY <1>6, <2>1, <2>2
  <1>8. Cardinality(P) = Len(s)
    <2>1. Len(s) \in 0..Len(s)
      BY <1>1
    <2> HIDE DEF first
    <2>2. QED
      BY <1>4, <1>5, <2>1
  <1>9. QED
    BY <1>1, <1>7, <1>8

\* An unknown error says so and no more.
LEMMA StatusOfUnknown ==
  ASSUME NEW kids
  PROVE  convertToGRPCErr(CatchAllUnknownServerError(kids)) = Status("Unknown", UnknownError, <<>>)
  <1>1. PICK e : e = CatchAllUnknownServerError(kids)
    OBVIOUS
  <1>2. e.code = "unknown" /\ e.says = UnknownError
    BY <1>1 DEF CatchAllUnknownServerError, App, Plain
  <1>3. QED
    BY <1>1, <1>2 DEF convertToGRPCErr

\* A context that ended is at the end of some path when it is among the kinds.
LEMMA EndedIs ==
  ASSUME WellBuilt, errs # <<>>
  PROVE  \A kind : Ended(kind) <=> kind \in Kinds(Len(errs))
  <1> DEFINE last == Len(errs)
  <1> DEFINE own == [j \in DOMAIN errs |-> {errs[j].kind}]
  <1> DEFINE all == [j \in 1..last |-> {errs[From(j, path)].kind : path \in PathsFrom(j)}]
  <1>1. last \in DOMAIN errs /\ DOMAIN errs = 1..last /\ InView({}) \subseteq DOMAIN errs
    BY ViewIsClosed
  <1>2. ASSUME NEW j \in 1..last, NEW x
        PROVE  x \in all[j] <=> \/ x \in own[j]
                                \/ \E k \in DOMAIN errs[j].kids : x \in all[errs[j].kids[k]]
    <2>1. /\ <<>> \in PathsFrom(j) /\ From(j, <<>>) = j
          /\ \A k \in DOMAIN errs[j].kids : \A path \in PathsFrom(errs[j].kids[k]) :
               /\ <<k>> \o path \in PathsFrom(j)
               /\ From(j, <<k>> \o path) = From(errs[j].kids[k], path)
          /\ \A path \in PathsFrom(j) : path # <<>> =>
               \E k \in DOMAIN errs[j].kids : \E rest \in PathsFrom(errs[j].kids[k]) :
                 path = <<k>> \o rest
      BY <1>1, PathsSplit
    <2>2. \A k \in DOMAIN errs[j].kids : errs[j].kids[k] \in 1..last
      BY <1>1, ErrorShape
    <2>3. ASSUME x \in all[j], x # errs[j].kind
          PROVE  \E k \in DOMAIN errs[j].kids : x \in all[errs[j].kids[k]]
      <3>1. PICK path \in PathsFrom(j) : x = errs[From(j, path)].kind
        BY <2>3
      <3>2. path # <<>>
        BY <2>1, <2>3, <3>1
      <3>3. PICK k \in DOMAIN errs[j].kids :
              \E rest \in PathsFrom(errs[j].kids[k]) : path = <<k>> \o rest
        BY <2>1, <3>1, <3>2
      <3>4. PICK rest \in PathsFrom(errs[j].kids[k]) : path = <<k>> \o rest
        BY <3>3
      <3>5. x = errs[From(errs[j].kids[k], rest)].kind
        BY <2>1, <3>1, <3>4
      <3>6. QED
        BY <2>2, <3>5
    <2>4. ASSUME NEW k \in DOMAIN errs[j].kids, x \in all[errs[j].kids[k]] PROVE x \in all[j]
      <3>1. PICK path \in PathsFrom(errs[j].kids[k]) :
              x = errs[From(errs[j].kids[k], path)].kind
        BY <2>2, <2>4
      <3>2. PICK long \in PathsFrom(j) : From(j, long) = From(errs[j].kids[k], path)
        BY <2>1, <3>1
      <3>3. QED
        BY <3>1, <3>2
    <2>5. errs[j].kind \in all[j] /\ own[j] = {errs[j].kind}
      BY <1>1, <2>1
    <2> HIDE DEF all, own
    <2>6. QED
      BY <2>3, <2>4, <2>5
  <1>3. \A kind : Ended(kind) <=> kind \in all[last]
    <2>1. Paths = PathsFrom(last)
      BY PathsAre
    <2>2. QED
      BY <1>1, <2>1 DEF Ended, At
  <1>4. \A j \in InView({}) : own[j] = {errs[j].kind}
    BY <1>1
  <1> HIDE DEF own, all
  <1>5. Carried(own, all, {})
    BY <1>2 DEF Carried
  <1>6. all[last] = UNION {own[j] : j \in InView({})}
    BY <1>5, ViewHas
  <1>7. QED
    BY <1>3, <1>4, <1>6, KindsInView DEF Causing

\* The reference for the visible paths in some order.
TranslatedFrom(paths) ==
  IF paths = <<>> THEN Status("Unknown", UnknownError, <<>>)
  ELSE convertToGRPCErr(
         [errs[At(paths[1])] EXCEPT
            !.says = FlattenSeq([n \in DOMAIN paths |-> errs[At(paths[n])]["says"]]),
            !.fields = FlattenSeq([n \in DOMAIN paths |-> errs[At(paths[n])]["fields"]])])

\* The visible paths in their order.
Ordered == [n \in 1..Cardinality(Visible) |->
              CHOOSE p \in Visible : Cardinality({q \in Visible : Before(q, p)}) = n - 1]

\* The reference is the one for this order.
LEMMA TranslatedOrdered == Translated = TranslatedFrom(Ordered)
  BY DEF Translated, TranslatedFrom, Ordered

\* What is told of the returned error is what the reference says, with the code of
\* the first error, or an unknown error when nothing is visible.
LEMMA TranslatedIs ==
  ASSUME WellBuilt, errs # <<>>
  PROVE  convertToGRPCErr(createErr(Len(errs))) = Translated
  <1> DEFINE last == Len(errs)
  <1>1. last \in DOMAIN errs
    BY ViewIsClosed
  <1>2. PICK r : r = generateClientFields(last)
    OBVIOUS
  <1>3. Visible = VisibleFrom(last) /\ Visible \in SUBSET Turns
    <2>1. Paths = PathsFrom(last)
      BY PathsAre
    <2>2. QED
      BY <2>1 DEF Visible, VisibleFrom, At, PathsFrom
  <1>4. PICK s : \E places : Listing(last, Visible, s, places) /\ Tells(r, places)
    BY <1>1, <1>2, <1>3, FoundLists DEF Lists
  <1>5. PICK places : Listing(last, Visible, s, places) /\ Tells(r, places)
    BY <1>4
  <1>6. /\ Cardinality(Visible) = Len(s) /\ Len(s) \in Nat
        /\ \A n \in 1..Len(s) :
             s[n] = CHOOSE p \in Visible : Cardinality({q \in Visible : Before(q, p)}) = n - 1
    <2>1. PICK P \in SUBSET Turns : P = Visible
      BY <1>3
    <2>2. Listing(last, P, s, places)
      BY <1>5, <2>1
    <2>3. /\ Cardinality(P) = Len(s) /\ Len(s) \in Nat
          /\ \A n \in 1..Len(s) :
               s[n] = CHOOSE p \in P : Cardinality({q \in P : Before(q, p)}) = n - 1
      BY <2>2, ListingCounts
    <2>4. QED
      BY <2>1, <2>3
  <1>7. /\ s \in Seq(Turns) /\ DOMAIN s = 1..Len(s)
        /\ places \in Seq(DOMAIN errs) /\ Len(places) = Len(s)
        /\ DOMAIN places = 1..Len(s)
        /\ \A n \in 1..Len(s) : places[n] = At(s[n]) /\ places[n] \in DOMAIN errs
    <2>1. s \in Seq(Turns) /\ places \in Seq(DOMAIN errs) /\ Len(places) = Len(s)
          /\ \A n \in 1..Len(s) : places[n] = From(last, s[n])
      BY <1>5 DEF Listing
    <2>2. DOMAIN s = 1..Len(s) /\ DOMAIN places = 1..Len(places)
          /\ \A n \in 1..Len(places) : places[n] \in DOMAIN errs
      BY <2>1, SeqShape
    <2>3. QED
      BY <2>1, <2>2 DEF At
  <1>8. s = Ordered
    <2>1. s = [n \in 1..Len(s) |-> s[n]]
      <3>1. PICK S : S = Turns
        OBVIOUS
      <3>2. QED
        BY <1>7, <3>1
    <2>2. QED
      BY <1>6, <2>1 DEF Ordered
  <1>9. Translated = TranslatedFrom(s)
    BY <1>8, TranslatedOrdered
  <1>10. CASE Len(s) = 0
    <2>1. s = <<>>
      <3>1. PICK S : S = Turns
        OBVIOUS
      <3>2. QED
        BY <1>7, <1>10, <3>1
    <2>2. r.first = 0
      BY <1>5, <1>7, <1>10 DEF Tells
    <2>3. createErr(last) = CatchAllUnknownServerError(<<last>>)
      BY <1>2, <2>2 DEF createErr
    <2>4. QED
      BY <1>9, <2>1, <2>3, StatusOfUnknown DEF TranslatedFrom
  <1>11. CASE Len(s) # 0
    <2>1. 1 \in 1..Len(s) /\ s # <<>>
      BY <1>6, <1>7, <1>11
    <2>2. r.first = At(s[1]) /\ r.first # 0
      <3>1. r.first = places[1]
        BY <1>5, <1>7, <1>11 DEF Tells
      <3>2. 0 \notin DOMAIN errs
        BY ErrorShape
      <3>3. QED
        BY <1>7, <2>1, <3>1, <3>2
    <2>3. /\ r.msg.says = FlattenSeq([n \in DOMAIN s |-> errs[At(s[n])]["says"]])
          /\ r.msg.fields = FlattenSeq([n \in DOMAIN s |-> errs[At(s[n])]["fields"]])
      <3>1. \A field : [n \in DOMAIN places |-> errs[places[n]][field]]
                         = [n \in DOMAIN s |-> errs[At(s[n])][field]]
        BY <1>7
      <3>2. QED
        BY <1>5, <3>1 DEF Tells, Told
    <2>4. createErr(last) = [errs[r.first] EXCEPT !.says = r.msg.says, !.fields = r.msg.fields]
      BY <1>2, <2>2 DEF createErr
    <2>5. QED
      BY <1>9, <2>1, <2>2, <2>3, <2>4 DEF TranslatedFrom
  <1>12. QED
    BY <1>6, <1>10, <1>11

-----------------------------------------------------------------------------
(* The inductive invariant *)

\* Errors are built as above until one of them is translated.
IInv == /\ WellBuilt
        /\ answer = Unanswered \/ (errs # <<>> /\ answer = toGRPCError(Len(errs)))

\* An error that may be built next.
Buildable(e) ==
  /\ e \in Errors
  /\ \A k \in DOMAIN e.kids : e.kids[k] \in DOMAIN errs
  /\ Len(e.kids) <= 2
  /\ Range(e.says) \cup Range(e.fields) \subseteq {Here}
  /\ e.client => e.kind = "app"

LEMMA BuildKeeps ==
  ASSUME IInv, NEW e, Buildable(e), Build(e)
  PROVE  IInv'
  <1>1. errs \in Seq(Errors) /\ e \in Errors
    BY DEF IInv, WellBuilt, Buildable
  <1>2. errs' = Append(errs, e) /\ answer' = Unanswered
    BY DEF Build
  <1>3. /\ errs' \in Seq(Errors) /\ Len(errs) \in Nat
        /\ DOMAIN errs = 1..Len(errs) /\ DOMAIN errs' = 1..(Len(errs) + 1)
        /\ \A i \in DOMAIN errs : errs'[i] = errs[i]
        /\ errs'[Len(errs) + 1] = e
    BY <1>1, <1>2
  <1>4. ASSUME NEW i \in DOMAIN errs'
        PROVE  /\ Len(errs'[i].kids) <= 2
               /\ \A k \in DOMAIN errs'[i].kids : errs'[i].kids[k] \in 1..(i - 1)
               /\ Range(errs'[i].says) \cup Range(errs'[i].fields) \subseteq {i}
               /\ errs'[i].client => errs'[i].kind = "app"
    <2>1. CASE i \in DOMAIN errs
      BY <1>3, <2>1 DEF IInv, WellBuilt
    <2>2. CASE i = Len(errs) + 1
      BY <1>3, <2>2 DEF Buildable, Here
    <2>3. QED
      BY <1>3, <1>4, <2>1, <2>2
  <1>5. WellBuilt'
    BY <1>3, <1>4 DEF WellBuilt
  <1>6. QED
    BY <1>2, <1>5 DEF IInv

\* The errors that are not for the client, and those that constructors make.
LEMMA OneKid ==
  ASSUME IInv, NEW i \in DOMAIN errs
  PROVE  /\ <<i>> \in Seq(Nat) /\ DOMAIN <<i>> = {1} /\ <<i>>[1] \in DOMAIN errs
         /\ Len(<<i>>) <= 2
  <1>1. i \in Nat
    BY ErrorShape DEF IInv
  <1>2. QED
    BY <1>1

LEMMA PlainBuildable ==
  ASSUME IInv, NEW kind \in Causes \cup {"wrap", "join"}, NEW kids \in Seq(Nat),
         \A k \in DOMAIN kids : kids[k] \in DOMAIN errs, Len(kids) <= 2
  PROVE  Buildable(Plain(kind, kids))
  <1>1. <<>> \in Seq(Nat) /\ Range(<<>>) = {}
    BY DEF Range
  <1>2. QED
    BY <1>1 DEF Buildable, Plain, Errors, Codes

LEMMA EmptySeq == <<>> \in Seq(Nat)
  OBVIOUS

LEMMA AppFields ==
  ASSUME NEW code \in Codes,
         NEW says \in Seq(Nat), NEW fields \in Seq(Nat), NEW kids \in Seq(Nat),
         NEW e, e = App(code, says, fields, kids)
  PROVE  /\ e \in Errors /\ e.kind = "app"
         /\ e.kids = kids /\ e.says = says /\ e.fields = fields
  <1>1. PICK p : p = Plain("app", kids)
    OBVIOUS
  <1>2. p \in Errors
    BY <1>1, EmptySeq DEF Plain, Errors, Codes
  <1>3. [p EXCEPT !.code = code, !.says = says, !.fields = fields] \in Errors
    BY <1>2 DEF Errors
  <1>4. e \in Errors
    BY <1>1, <1>3 DEF App
  <1>5. QED
    BY <1>4 DEF App, Plain

LEMMA MarkFields ==
  ASSUME NEW e \in Errors, NEW m, m = MarkAsClientErr(e)
  PROVE  /\ m \in Errors /\ m.client = TRUE
         /\ m.kind = e.kind /\ m.kids = e.kids /\ m.says = e.says /\ m.fields = e.fields
  BY DEF Errors, MarkAsClientErr

\* The places of a message are none or that of the new error.
Own == {<<>>, <<Here>>}

LEMMA OwnPlaces ==
  ASSUME IInv, NEW places \in Own
  PROVE  places \in Seq(Nat) /\ Range(places) \subseteq {Here}
  <1>1. errs \in Seq(Errors)
    BY DEF IInv, WellBuilt
  <1>2. Here \in Nat
    BY <1>1 DEF Here
  <1>3. CASE places = <<>>
    BY <1>3 DEF Range
  <1>4. CASE places = <<Here>>
    BY <1>2, <1>4 DEF Range
  <1>5. QED
    BY <1>3, <1>4 DEF Own

LEMMA AppBuildable ==
  ASSUME IInv, NEW kids \in Seq(Nat), \A k \in DOMAIN kids : kids[k] \in DOMAIN errs,
         Len(kids) <= 2, NEW code \in Codes,
         NEW says \in Own, NEW fields \in Own
  PROVE  Buildable(App(code, says, fields, kids))
         /\ Buildable(MarkAsClientErr(App(code, says, fields, kids)))
  <1>1. /\ says \in Seq(Nat) /\ fields \in Seq(Nat)
        /\ Range(says) \subseteq {Here} /\ Range(fields) \subseteq {Here}
    BY OwnPlaces
  <1>2. PICK e : e = App(code, says, fields, kids)
    OBVIOUS
  <1>3. /\ e \in Errors /\ e.kind = "app"
        /\ e.kids = kids /\ e.says = says /\ e.fields = fields
    BY <1>1, <1>2, AppFields
  <1>4. PICK m : m = MarkAsClientErr(e)
    OBVIOUS
  <1>5. /\ m \in Errors /\ m.kind = "app"
        /\ m.kids = kids /\ m.says = says /\ m.fields = fields
    BY <1>3, <1>4, MarkFields
  <1>6. QED
    BY <1>1, <1>2, <1>3, <1>4, <1>5 DEF Buildable

\* The translation depends on the errors only.
LEMMA SameTranslation ==
  ASSUME errs' = errs
  PROVE  toGRPCError(Len(errs))' = toGRPCError(Len(errs))
  BY DEF toGRPCError, Kinds, createErr, generateClientFields, Said

LEMMA InvInit == Init => IInv
  BY DEF Init, IInv, WellBuilt

LEMMA InvStep == IInv /\ [Next]_vars => IInv'
  <1> SUFFICES ASSUME IInv, [Next]_vars PROVE IInv'
    OBVIOUS
  <1>1. CASE Receive
    <2>1. PICK kind \in Causes : Build(Plain(kind, <<>>))
      BY <1>1 DEF Receive
    <2>2. <<>> \in Seq(Nat) /\ Len(<<>>) <= 2 /\ \A k \in DOMAIN <<>> : <<>>[k] \in DOMAIN errs
      OBVIOUS
    <2>3. Buildable(Plain(kind, <<>>))
      BY <2>2, PlainBuildable
    <2>4. QED
      BY <2>1, <2>3, BuildKeeps
  <1>2. CASE Wrap
    <2>1. PICK i \in DOMAIN errs : Build(Plain("wrap", <<i>>))
      BY <1>2 DEF Wrap, Wrappable
    <2>2. Buildable(Plain("wrap", <<i>>))
      BY OneKid, PlainBuildable
    <2>3. QED
      BY <2>1, <2>2, BuildKeeps
  <1>3. CASE Join
    <2>1. PICK i \in DOMAIN errs, j \in DOMAIN errs : Build(Plain("join", <<i, j>>))
      BY <1>3 DEF Join, Wrappable
    <2>2. i \in Nat /\ j \in Nat
      BY ErrorShape DEF IInv
    <2>3. <<i, j>> \in Seq(Nat) /\ Len(<<i, j>>) <= 2
          /\ \A k \in DOMAIN <<i, j>> : <<i, j>>[k] \in DOMAIN errs
      BY <2>2
    <2>4. Buildable(Plain("join", <<i, j>>))
      BY <2>3, PlainBuildable
    <2>5. QED
      BY <2>1, <2>4, BuildKeeps
  <1>4. ASSUME NEW i \in DOMAIN errs,
               \/ Build(InternalServerError(<<i>>))
               \/ Build(MarkAsClientErr(InternalServerError(<<i>>)))
               \/ Build(MarkAsClientErr(PreconditionFailedError(Here, <<i>>)))
               \/ Build(MarkAsClientErr(NotFoundError(Here, <<i>>)))
               \/ Build(MarkAsClientErr(InvalidArgumentError(Here, <<i>>)))
        PROVE  IInv'
    <2>1. <<i>> \in Seq(Nat) /\ Len(<<i>>) <= 2
          /\ \A k \in DOMAIN <<i>> : <<i>>[k] \in DOMAIN errs
      BY OneKid
    <2>2. /\ Buildable(InternalServerError(<<i>>))
          /\ Buildable(MarkAsClientErr(InternalServerError(<<i>>)))
          /\ Buildable(MarkAsClientErr(PreconditionFailedError(Here, <<i>>)))
          /\ Buildable(MarkAsClientErr(NotFoundError(Here, <<i>>)))
          /\ Buildable(MarkAsClientErr(InvalidArgumentError(Here, <<i>>)))
      BY <2>1, AppBuildable DEF InternalServerError, PreconditionFailedError, NotFoundError,
                                InvalidArgumentError, Own, Codes
    <2>3. QED
      BY <1>4, <2>2, BuildKeeps
  <1>5. CASE FailInternal \/ FailInside \/ FailInsert \/ FailRead \/ FailLotId
    BY <1>4, <1>5 DEF FailInternal, FailInside, FailInsert, FailRead, FailLotId, Wrappable
  <1>6. CASE FailParts
    <2>1. <<>> \in Seq(Nat) /\ Len(<<>>) <= 2 /\ \A k \in DOMAIN <<>> : <<>>[k] \in DOMAIN errs
      OBVIOUS
    <2>2. Buildable(MarkAsClientErr(PreconditionFailedError(Here, <<>>)))
      BY <2>1, AppBuildable DEF PreconditionFailedError, Own, Codes
    <2>3. QED
      BY <1>6, <2>2, BuildKeeps DEF FailParts
  <1>7. CASE Mark
    <2>1. errs # <<>> /\ answer = Unanswered /\ answer' = answer /\ errs \in Seq(Errors)
          /\ Last(errs).kind = "app"
      BY <1>7 DEF Mark, IInv, WellBuilt
    <2>2. PICK n \in DOMAIN errs : n = Len(errs) /\ Last(errs) = errs[n]
      BY <2>1 DEF Last
    <2>3. PICK client \in BOOLEAN, merge \in BOOLEAN :
            errs' = [errs EXCEPT ![n] = [errs[n] EXCEPT !.client = client, !.merge = merge]]
      <3>1. errs[n] \in Errors
        BY <2>1, <2>2
      <3>2. /\ MarkAsClientErr(errs[n])
                 = [errs[n] EXCEPT !.client = TRUE, !.merge = errs[n].merge]
            /\ MarkAsClientErrAndMerge(errs[n])
                 = [errs[n] EXCEPT !.client = TRUE, !.merge = TRUE]
            /\ RemoveFromClientErr(errs[n])
                 = [errs[n] EXCEPT !.client = FALSE, !.merge = errs[n].merge]
            /\ UnMerge(errs[n])
                 = [errs[n] EXCEPT !.client = errs[n].client, !.merge = FALSE]
        BY <3>1 DEF MarkAsClientErr, MarkAsClientErrAndMerge, RemoveFromClientErr, UnMerge,
                    Errors
      <3>3. errs[n].client \in BOOLEAN /\ errs[n].merge \in BOOLEAN
        BY <3>1 DEF Errors
      <3>4. PICK e \in {MarkAsClientErr(errs[n]), MarkAsClientErrAndMerge(errs[n]),
                        RemoveFromClientErr(errs[n]), UnMerge(errs[n])} :
              errs' = [errs EXCEPT ![n] = e]
        BY <1>7, <2>2 DEF Mark
      <3>5. QED
        BY <3>2, <3>3, <3>4
    <2>4. PICK e : e = [errs[n] EXCEPT !.client = client, !.merge = merge]
      OBVIOUS
    <2>5. /\ e \in Errors /\ e.kind = "app" /\ e.kids = errs[n].kids
          /\ e.says = errs[n].says /\ e.fields = errs[n].fields
      <3>1. errs[n] \in Errors /\ errs[n].kind = "app"
        BY <2>1, <2>2
      <3>2. e \in Errors
        BY <2>4, <3>1 DEF Errors
      <3>3. QED
        BY <2>4, <3>1, <3>2 DEF Errors
    <2>6. errs' = [errs EXCEPT ![n] = e]
      BY <2>3, <2>4
    <2>7. errs' \in Seq(Errors) /\ DOMAIN errs' = DOMAIN errs /\ errs'[n] = e
          /\ \A i \in DOMAIN errs : i # n => errs'[i] = errs[i]
      BY <2>1, <2>5, <2>6
    <2>8. WellBuilt'
      BY <2>5, <2>7 DEF IInv, WellBuilt
    <2>9. QED
      BY <2>1, <2>8 DEF IInv
  <1>8. CASE Respond
    <2>1. errs # <<>> /\ answer' = toGRPCError(Len(errs)) /\ errs' = errs
      BY <1>8 DEF Respond
    <2>2. toGRPCError(Len(errs))' = toGRPCError(Len(errs))
      BY <2>1, SameTranslation
    <2>3. WellBuilt'
      BY <2>1 DEF IInv, WellBuilt
    <2>4. QED
      BY <2>1, <2>2, <2>3 DEF IInv
  <1>9. CASE UNCHANGED vars
    <2>1. errs' = errs /\ answer' = answer
      BY <1>9 DEF vars
    <2>2. toGRPCError(Len(errs))' = toGRPCError(Len(errs))
      BY <2>1, SameTranslation
    <2>3. WellBuilt'
      BY <2>1 DEF IInv, WellBuilt
    <2>4. QED
      BY <2>1, <2>2, <2>3 DEF IInv
  <1>10. QED
    BY <1>1, <1>2, <1>3, <1>5, <1>6, <1>7, <1>8, <1>9 DEF Next

LEMMA Invariance == Spec => []IInv
  BY InvInit, InvStep, PTL DEF Spec

-----------------------------------------------------------------------------
(* The theorems *)

\* The status of an error that is told, by the code it has of another.
LEMMA StatusOf ==
  ASSUME NEW e, e.code \in Codes, NEW told, told.code = e.code,
         NEW status, status = convertToGRPCErr(told)
  PROVE  /\ status.code = convertToGRPCErr(e).code
         /\ status.code \in {"Internal", "InvalidArgument", "FailedPrecondition", "NotFound"}
         /\ status.says = IF status.code = "Internal" THEN <<>> ELSE told.says
         /\ status.fields = IF status.code \in {"Internal", "NotFound"} THEN <<>>
                            ELSE told.fields
  BY DEF convertToGRPCErr, Status, Codes

\* What an answer has, unless the handler returned a status.
AnswerIs ==
  IF Causing("deadline") THEN answer = Status("DeadlineExceeded", <<>>, <<>>)
  ELSE IF Causing("canceled") THEN answer = Status("Canceled", <<>>, <<>>)
  ELSE IF Shown = {} THEN answer = Status("Unknown", UnknownError, <<>>)
  ELSE /\ \E i \in Shown : answer.code = convertToGRPCErr(errs[i]).code
       /\ answer.code \in {"Internal", "InvalidArgument", "FailedPrecondition", "NotFound"}
       /\ IF answer.code = "Internal" THEN answer.says = <<>>
          ELSE Range(answer.says) = UNION {Range(errs[i].says) : i \in Shown}
       /\ IF answer.code \in {"Internal", "NotFound"} THEN answer.fields = <<>>
          ELSE Range(answer.fields) = UNION {Range(errs[i].fields) : i \in Shown}

LEMMA Translation ==
  ASSUME IInv, answer # Unanswered, errs[Len(errs)].kind # "status"
  PROVE  AnswerIs
  <1>1. WellBuilt /\ errs # <<>> /\ answer = toGRPCError(Len(errs))
    BY DEF IInv
  <1>2. answer = IF Causing("deadline") THEN Status("DeadlineExceeded", <<>>, <<>>)
                 ELSE IF Causing("canceled") THEN Status("Canceled", <<>>, <<>>)
                 ELSE convertToGRPCErr(createErr(Len(errs)))
    BY <1>1, KindsInView DEF toGRPCError
  <1>3. PICK r : r = generateClientFields(Len(errs))
    OBVIOUS
  <1>4. /\ Range(r.msg.says) = UNION {Range(errs[i].says) : i \in Shown}
        /\ Range(r.msg.fields) = UNION {Range(errs[i].fields) : i \in Shown}
        /\ IF r.first = 0 THEN Shown = {} ELSE r.first \in Shown
    BY <1>1, <1>3, FoundShown
  <1>5. CASE Causing("deadline") \/ Causing("canceled")
    BY <1>2, <1>5 DEF AnswerIs
  <1>6. CASE ~Causing("deadline") /\ ~Causing("canceled") /\ Shown = {}
    <2>1. createErr(Len(errs)) = CatchAllUnknownServerError(<<Len(errs)>>)
      BY <1>3, <1>4, <1>6 DEF createErr
    <2>2. answer = Status("Unknown", UnknownError, <<>>)
      BY <1>2, <1>6, <2>1, StatusOfUnknown
    <2>3. QED
      BY <1>6, <2>2 DEF AnswerIs
  <1>7. CASE ~Causing("deadline") /\ ~Causing("canceled") /\ Shown # {}
    <2>1. PICK i \in Shown : i = r.first /\ i # 0
      <3>1. \A i \in Shown : i \in DOMAIN errs
        BY DEF Shown, InView
      <3>2. 0 \notin Shown
        BY <1>1, <3>1 DEF WellBuilt
      <3>3. r.first # 0
        BY <1>4, <1>7
      <3>4. QED
        BY <1>4, <3>3
    <2>2. createErr(Len(errs)) = [errs[i] EXCEPT !.says = r.msg.says, !.fields = r.msg.fields]
      BY <1>3, <2>1 DEF createErr
    <2>3. errs[i] \in Errors
      BY <1>1, <2>1, ErrorShape DEF Shown, InView
    <2>4. /\ answer.code = convertToGRPCErr(errs[i]).code
          /\ answer.code \in {"Internal", "InvalidArgument", "FailedPrecondition", "NotFound"}
          /\ answer.says = IF answer.code = "Internal" THEN <<>> ELSE r.msg.says
          /\ answer.fields = IF answer.code \in {"Internal", "NotFound"} THEN <<>>
                             ELSE r.msg.fields
      <3>1. PICK told : told = createErr(Len(errs))
        OBVIOUS
      <3>2. told.code = errs[i].code /\ told.says = r.msg.says /\ told.fields = r.msg.fields
        BY <2>2, <2>3, <3>1 DEF Errors
      <3>3. errs[i].code \in Codes
        BY <2>3 DEF Errors
      <3>4. answer = convertToGRPCErr(told)
        BY <1>2, <1>7, <3>1
      <3>5. QED
        BY <3>2, <3>3, <3>4, StatusOf
    <2>5. QED
      BY <1>4, <1>7, <2>1, <2>4 DEF AnswerIs
  <1>8. QED
    BY <1>5, <1>6, <1>7

\* For any number of errors built, wrapped, joined, marked and merged in any
\* order, a client is told of the errors in its view all that they say and
\* nothing else, under the code of one of them, unless its context has ended
\* (generateClientFields, toGRPCError).
THEOREM ShownErrors == Spec => []ShownIsTold
  <1>1. IInv => ShownIsTold
    <2> SUFFICES ASSUME IInv, answer # Unanswered, Last(errs).kind # "status"
                 PROVE  ShownIsTold
      BY DEF ShownIsTold
    <2>1. AnswerIs
      BY Translation DEF Last
    <2>2. CASE Causing("deadline") \/ Causing("canceled")
      BY <2>1, <2>2 DEF AnswerIs, ShownIsTold, Status
    <2>3. CASE ~Causing("deadline") /\ ~Causing("canceled") /\ Shown = {}
      BY <2>1, <2>3 DEF AnswerIs, ShownIsTold
    <2>4. CASE ~Causing("deadline") /\ ~Causing("canceled") /\ Shown # {}
      BY <2>1, <2>4 DEF AnswerIs, ShownIsTold
    <2>5. QED
      BY <2>2, <2>3, <2>4
  <1>2. QED
    BY <1>1, Invariance, PTL

\* However errors are wrapped, joined and merged, a client never sees what one
\* says that is not marked for it (the isClientErr of AppError).
THEOREM PrivateErrors == Spec => []PrivateStaysPrivate
  <1>1. IInv => PrivateStaysPrivate
    <2> SUFFICES ASSUME IInv, answer # Unanswered, NEW i \in DOMAIN errs,
                        i \in Range(answer.says) \cup Range(answer.fields),
                        ~errs[i].client
                 PROVE  errs[i].kind = "status"
      BY DEF PrivateStaysPrivate
    <2>1. WellBuilt /\ errs # <<>> /\ i # 0 /\ answer = toGRPCError(Len(errs))
      <3>1. WellBuilt /\ errs \in Seq(Errors)
        BY DEF IInv, WellBuilt
      <3>2. i # 0
        BY <3>1
      <3>3. QED
        BY <3>1, <3>2 DEF IInv
    <2>2. \A s : s = <<>> => Range(s) = {}
      BY DEF Range
    <2>3. CASE errs[Len(errs)].kind = "status"
      <3>1. answer.says = <<Len(errs)>> /\ answer.fields = <<>>
        BY <2>1, <2>3 DEF toGRPCError, Status
      <3>2. Range(answer.says) = {Len(errs)}
        BY <3>1 DEF Range
      <3>3. QED
        BY <2>2, <2>3, <3>1, <3>2
    <2>4. CASE errs[Len(errs)].kind # "status"
      <3>1. AnswerIs
        BY <2>4, Translation
      <3>2. \A j \in Shown : /\ errs[j].client
                             /\ Range(errs[j].says) \cup Range(errs[j].fields) \subseteq {j}
        BY <2>1 DEF WellBuilt, Shown, InView
      <3>3. i \notin UNION {Range(errs[j].says) : j \in Shown}
        BY <3>2
      <3>4. i \notin UNION {Range(errs[j].fields) : j \in Shown}
        BY <3>2
      <3>5. Range(UnknownError) = {0}
        BY DEF UnknownError, Range
      <3>6. CASE Causing("deadline") \/ Causing("canceled")
        <4>1. answer.says = <<>> /\ answer.fields = <<>>
          BY <3>1, <3>6 DEF AnswerIs, Status
        <4>2. QED
          BY <2>2, <4>1
      <3>7. CASE ~Causing("deadline") /\ ~Causing("canceled") /\ Shown = {}
        <4>1. answer.says = UnknownError /\ answer.fields = <<>>
          BY <3>1, <3>7 DEF AnswerIs, Status
        <4>2. QED
          BY <2>1, <2>2, <3>5, <4>1
      <3>8. CASE ~Causing("deadline") /\ ~Causing("canceled") /\ Shown # {}
        BY <2>2, <3>1, <3>3, <3>4, <3>8 DEF AnswerIs
      <3>9. QED
        BY <3>6, <3>7, <3>8
    <2>5. QED
      BY <2>3, <2>4
  <1>2. QED
    BY <1>1, Invariance, PTL

\* For any number of errors built, wrapped, joined, marked and merged in any
\* order, a client gets what the reference says: the messages and the fields of
\* every error on a path that no other hides, each as often as paths lead to it,
\* in the order of these paths, under the code of the first one, unless its
\* context has ended (the accumulator of generateClientFields, toGRPCError).
THEOREM OrderedErrors == Spec => []AnswersWhatIsVisible
  <1>1. IInv => AnswersWhatIsVisible
    <2> SUFFICES ASSUME IInv, answer # Unanswered,
                        answer # Status("as_is", <<Len(errs)>>, <<>>)
                 PROVE  answer = Expected
      BY DEF AnswersWhatIsVisible
    <2>1. WellBuilt /\ errs # <<>> /\ answer = toGRPCError(Len(errs))
      BY DEF IInv
    <2>2. answer = IF Ended("deadline") THEN Status("DeadlineExceeded", <<>>, <<>>)
                   ELSE IF Ended("canceled") THEN Status("Canceled", <<>>, <<>>)
                   ELSE Translated
      BY <2>1, EndedIs, TranslatedIs DEF toGRPCError
    <2>3. QED
      BY <2>2 DEF Expected
  <1>2. QED
    BY <1>1, Invariance, PTL
=============================================================================
