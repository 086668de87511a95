---------------------------- MODULE RecencyLists ----------------------------
(***************************************************************************)
(* Facts about the lists that order the entries of a bounded cache by      *)
(* their last use: no entry is listed twice, a use moves an entry to the   *)
(* back, the front is evicted.  The compile cache of a worker process and  *)
(* the session store are proved with them.                                 *)
(***************************************************************************)
EXTENDS Integers, Sequences, FiniteSets, SequencesExt, SequenceTheorems, TLAPS

Distinct(q) == \A i, j \in 1 .. Len(q) : q[i] = q[j] => i = j

\* RemoveFirst on a list that holds an element once cuts it out.
LEMMA CutOut ==
  ASSUME NEW S, NEW q \in Seq(S), NEW k \in S, Distinct(q),
         NEW n \in 1 .. Len(q), q[n] = k
  PROVE  RemoveFirst(q, k) = SubSeq(q, 1, n - 1) \o SubSeq(q, n + 1, Len(q))
<1>1. {i \in 1 .. Len(q) : q[i] = k} = {n}
  BY DEF Distinct
<1>2. Min({n}) = n
  BY DEF Min
<1>3. SelectInSeq(q, LAMBDA v : v = k) = n
  BY <1>1, <1>2 DEF SelectInSeq
<1> QED
  BY <1>3 DEF RemoveFirst, RemoveAt

\* Removing a listed element leaves the others.
LEMMA DropListed ==
  ASSUME NEW S, NEW q \in Seq(S), NEW k \in S, Distinct(q), k \in ToSet(q)
  PROVE  /\ RemoveFirst(q, k) \in Seq(S)
         /\ Len(RemoveFirst(q, k)) = Len(q) - 1
         /\ Distinct(RemoveFirst(q, k))
         /\ ToSet(RemoveFirst(q, k)) = ToSet(q) \ {k}
<1>1. Len(q) \in Nat /\ DOMAIN q = 1 .. Len(q)
  BY LenProperties
<1>2. PICK n \in 1 .. Len(q) : q[n] = k
  BY <1>1 DEF ToSet
<1> DEFINE a == SubSeq(q, 1, n - 1)
           b == SubSeq(q, n + 1, Len(q))
           r == a \o b
<1>3. \A i \in 1 .. Len(q) : q[i] \in S
  BY ElementOfSeq
<1>4. /\ a \in Seq(S) /\ Len(a) = n - 1
      /\ \A i \in 1 .. n - 1 : a[i] = q[i]
  <2>1. /\ a \in Seq(S) /\ Len(a) = IF 1 <= n - 1 THEN (n - 1) - 1 + 1 ELSE 0
        /\ \A i \in 1 .. (n - 1) - 1 + 1 : a[i] = q[1 + i - 1]
    BY <1>1, <1>3, SubSeqProperties
  <2> QED
    BY <2>1, <1>1
<1>5. /\ b \in Seq(S) /\ Len(b) = Len(q) - n
      /\ \A i \in 1 .. Len(q) - n : b[i] = q[n + i]
  <2>1. /\ b \in Seq(S) /\ Len(b) = IF n + 1 <= Len(q) THEN Len(q) - (n + 1) + 1 ELSE 0
        /\ \A i \in 1 .. Len(q) - (n + 1) + 1 : b[i] = q[(n + 1) + i - 1]
    BY <1>1, <1>3, SubSeqProperties
  <2>2. (IF n + 1 <= Len(q) THEN Len(q) - (n + 1) + 1 ELSE 0) = Len(q) - n
    <3>1. ASSUME NEW l \in Nat, NEW m \in 1 .. l
          PROVE  (IF m + 1 <= l THEN l - (m + 1) + 1 ELSE 0) = l - m
      OBVIOUS
    <3> QED
      BY <1>1, <3>1
  <2>3. ASSUME NEW i \in 1 .. Len(q) - n PROVE b[i] = q[n + i]
    <3>1. i \in 1 .. Len(q) - (n + 1) + 1 /\ (n + 1) + i - 1 = n + i
      BY <1>1
    <3> QED
      BY <2>1, <3>1
  <2> QED
    BY <2>1, <2>2, <2>3
<1>6. RemoveFirst(q, k) = r
  BY <1>2, CutOut
<1> HIDE DEF a, b
<1>7. /\ r \in Seq(S) /\ Len(r) = Len(q) - 1
      /\ \A i \in 1 .. Len(q) - 1 : r[i] = IF i < n THEN q[i] ELSE q[i + 1]
  <2>1. /\ r \in Seq(S) /\ Len(r) = Len(a) + Len(b)
        /\ \A i \in 1 .. Len(a) + Len(b) : r[i] = IF i <= Len(a) THEN a[i] ELSE b[i - Len(a)]
    BY <1>4, <1>5, ConcatProperties
  <2>2. Len(a) + Len(b) = Len(q) - 1
    BY <1>1, <1>4, <1>5
  <2>3. ASSUME NEW i \in 1 .. Len(q) - 1
        PROVE  r[i] = IF i < n THEN q[i] ELSE q[i + 1]
    <3>1. CASE i < n
      BY <3>1, <2>1, <2>2, <1>1, <1>4
    <3>2. CASE ~(i < n)
      <4>1. i - Len(a) \in 1 .. Len(q) - n /\ n + (i - Len(a)) = i + 1
        BY <3>2, <1>1, <1>4
      <4>2. r[i] = b[i - Len(a)]
        BY <3>2, <2>1, <2>2, <1>1, <1>4
      <4> QED
        BY <3>2, <4>1, <4>2, <1>5
    <3> QED
      BY <3>1, <3>2
  <2> QED
    BY <2>1, <2>2, <2>3
<1> HIDE DEF r
<1>8. DOMAIN r = 1 .. Len(q) - 1
  BY <1>7, LenProperties
<1>9. Distinct(r)
  BY <1>1, <1>2, <1>7 DEF Distinct
<1>10. ASSUME NEW i \in 1 .. Len(q) - 1 PROVE r[i] \in ToSet(q) \ {k}
  <2>1. i \in 1 .. Len(q) /\ i + 1 \in 1 .. Len(q)
    BY <1>1
  <2>2. CASE i < n
    <3>1. r[i] = q[i] /\ i # n
      BY <2>2, <1>7
    <3> QED
      BY <2>1, <3>1, <1>1, <1>2 DEF ToSet, Distinct
  <2>3. CASE ~(i < n)
    <3>1. r[i] = q[i + 1] /\ i + 1 # n
      BY <2>3, <1>1, <1>7
    <3> QED
      BY <2>1, <3>1, <1>1, <1>2 DEF ToSet, Distinct
  <2> QED
    BY <2>2, <2>3
<1>11. ASSUME NEW i \in 1 .. Len(q), q[i] # k PROVE q[i] \in ToSet(r)
  <2>1. CASE i < n
    <3>1. i \in 1 .. Len(q) - 1 /\ r[i] = q[i]
      BY <2>1, <1>1, <1>7
    <3> QED
      BY <3>1, <1>8 DEF ToSet
  <2>2. CASE i > n
    <3>1. i - 1 \in 1 .. Len(q) - 1 /\ r[i - 1] = q[i]
      BY <2>2, <1>1, <1>7
    <3> QED
      BY <3>1, <1>8 DEF ToSet
  <2> QED
    BY <1>1, <1>2, <1>11, <2>1, <2>2
<1>12. ToSet(r) \subseteq ToSet(q) \ {k}
  BY <1>8, <1>10 DEF ToSet
<1>13. ToSet(q) \ {k} \subseteq ToSet(r)
  BY <1>1, <1>11 DEF ToSet
<1> QED
  BY <1>6, <1>7, <1>9, <1>12, <1>13

\* Removing an element that is not listed changes nothing.
LEMMA DropUnlisted ==
  ASSUME NEW S, NEW q \in Seq(S), NEW k, k \notin ToSet(q)
  PROVE  RemoveFirst(q, k) = q
<1>1. DOMAIN q = 1 .. Len(q)
  BY LenProperties
<1>2. \A i \in 1 .. Len(q) : q[i] # k
  BY <1>1 DEF ToSet
<1> QED
  BY <1>2 DEF RemoveFirst

\* Appending an element that is not listed.
LEMMA AppendUnlisted ==
  ASSUME NEW S, NEW q \in Seq(S), NEW k \in S, Distinct(q), k \notin ToSet(q)
  PROVE  /\ Append(q, k) \in Seq(S)
         /\ Len(Append(q, k)) = Len(q) + 1
         /\ Distinct(Append(q, k))
         /\ ToSet(Append(q, k)) = ToSet(q) \cup {k}
<1> DEFINE t == Append(q, k)
<1>1. Len(q) \in Nat /\ DOMAIN q = 1 .. Len(q)
  BY LenProperties
<1>2. \A i \in 1 .. Len(q) : q[i] # k
  BY <1>1 DEF ToSet
<1>3. /\ t \in Seq(S) /\ Len(t) = Len(q) + 1
      /\ \A i \in 1 .. Len(q) : t[i] = q[i]
      /\ t[Len(q) + 1] = k
  BY AppendProperties
<1> HIDE DEF t
<1>4. DOMAIN t = 1 .. Len(q) + 1
  BY <1>3, LenProperties
<1>5. Distinct(t)
  BY <1>1, <1>2, <1>3 DEF Distinct
<1>6. ToSet(t) = ToSet(q) \cup {k}
  BY <1>1, <1>3, <1>4 DEF ToSet
<1> QED
  BY <1>3, <1>5, <1>6 DEF t

\* A use moves a listed element to the back.
LEMMA TouchListed ==
  ASSUME NEW S, NEW q \in Seq(S), NEW k \in S, Distinct(q), k \in ToSet(q)
  PROVE  /\ Append(RemoveFirst(q, k), k) \in Seq(S)
         /\ Len(Append(RemoveFirst(q, k), k)) = Len(q)
         /\ Distinct(Append(RemoveFirst(q, k), k))
         /\ ToSet(Append(RemoveFirst(q, k), k)) = ToSet(q)
<1> DEFINE r == RemoveFirst(q, k)
<1>1. Len(q) \in Nat
  BY LenProperties
<1>2. r \in Seq(S) /\ Len(r) = Len(q) - 1 /\ Distinct(r) /\ ToSet(r) = ToSet(q) \ {k}
  BY DropListed
<1> HIDE DEF r
<1>3. /\ Append(r, k) \in Seq(S) /\ Len(Append(r, k)) = Len(r) + 1
      /\ Distinct(Append(r, k)) /\ ToSet(Append(r, k)) = ToSet(r) \cup {k}
  BY <1>2, AppendUnlisted
<1>4. Len(r) + 1 = Len(q)
  BY <1>1, <1>2
<1> QED
  BY <1>2, <1>3, <1>4 DEF r

\* A use of an element that is not listed appends it.
LEMMA TouchUnlisted ==
  ASSUME NEW S, NEW q \in Seq(S), NEW k \in S, Distinct(q), k \notin ToSet(q)
  PROVE  /\ Append(RemoveFirst(q, k), k) \in Seq(S)
         /\ Len(Append(RemoveFirst(q, k), k)) = Len(q) + 1
         /\ Distinct(Append(RemoveFirst(q, k), k))
         /\ ToSet(Append(RemoveFirst(q, k), k)) = ToSet(q) \cup {k}
BY DropUnlisted, AppendUnlisted

\* Evicting the front.
LEMMA EvictFront ==
  ASSUME NEW S, NEW q \in Seq(S), Distinct(q), q # <<>>
  PROVE  /\ Tail(q) \in Seq(S)
         /\ Len(Tail(q)) = Len(q) - 1
         /\ Distinct(Tail(q))
         /\ Head(q) \in ToSet(q)
         /\ ToSet(Tail(q)) = ToSet(q) \ {Head(q)}
<1> DEFINE t == Tail(q)
<1>1. Len(q) \in Nat /\ DOMAIN q = 1 .. Len(q) /\ Len(q) > 0
  BY LenProperties, EmptySeq
<1>2. /\ t \in Seq(S) /\ Len(t) = Len(q) - 1
      /\ \A i \in 1 .. Len(t) : t[i] = q[i + 1]
  BY HeadTailProperties
<1>3. DOMAIN t = 1 .. Len(q) - 1
  BY <1>2, LenProperties
<1>4. Head(q) = q[1]
  BY <1>1
<1> HIDE DEF t
<1>5. Distinct(t)
  BY <1>1, <1>2 DEF Distinct
<1>6. ToSet(t) \subseteq ToSet(q) \ {Head(q)}
  BY <1>1, <1>2, <1>3, <1>4 DEF ToSet, Distinct
<1>7. ASSUME NEW i \in 1 .. Len(q), q[i] # Head(q) PROVE q[i] \in ToSet(t)
  <2>1. i - 1 \in 1 .. Len(q) - 1 /\ t[i - 1] = q[i]
    BY <1>1, <1>2, <1>4, <1>7
  <2> QED
    BY <2>1, <1>3 DEF ToSet
<1>8. ToSet(q) \ {Head(q)} \subseteq ToSet(t)
  BY <1>1, <1>7 DEF ToSet
<1>9. Head(q) \in ToSet(q)
  BY <1>1, <1>4 DEF ToSet
<1> QED
  BY <1>2, <1>5, <1>6, <1>8, <1>9 DEF t
=============================================================================
