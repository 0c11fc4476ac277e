------------------------- MODULE WifiMacQueueProofs -------------------------
(***************************************************************************)
(* What the operations of the queue do, for every lifetime and whatever    *)
(* the packets are: lemmas for the modules that prove about contenders.    *)
(***************************************************************************)
EXTENDS WifiMacQueue, WellFoundedInduction, SequenceTheorems, TLAPS

\* A nonempty set of natural numbers has a least element.
LEMMA Least ==
  ASSUME NEW T \in SUBSET Nat, T # {}
  PROVE  \E m \in T : \A n \in T : m <= n
<1> DEFINE R == {ss \in Nat \X Nat : ss[1] < ss[2]}
<1>1. IsWellFoundedOn(R, Nat)  BY NatLessThanWellFounded DEF OpToRel
<1>2. \E m \in T : \A n \in T : ~ (<<n, m>> \in R)
  <2> HIDE DEF R
  <2> QED  BY <1>1, WFMin
<1>3. PICK m \in T : \A n \in T : ~ (<<n, m>> \in R)
  BY <1>2
<1>4. ASSUME NEW n \in T  PROVE m <= n
  <2>1. <<n, m>> \in R <=> n < m  OBVIOUS
  <2> QED  BY <1>3, <2>1
<1> QED  BY <1>4

-----------------------------------------------------------------------------
(* Selected and Cleanup.                                                   *)

\* What is selected of the first n items, from what F says of fewer.
SelectStep(items, keep, F, n) ==
  IF n = 0 THEN << >>
  ELSE IF items[n] \in keep THEN Append(F[n - 1], items[n]) ELSE F[n - 1]

\* The recursion of Selected defines a function: there is one for every length,
\* since the one for a length extends to the next.
LEMMA SelectedExists ==
  ASSUME NEW items, NEW keep, NEW n \in Nat
  PROVE  \E F : F = [i \in 0..n |-> SelectStep(items, keep, F, i)]
<1> DEFINE Has(k) == \E F : F = [i \in 0..k |-> SelectStep(items, keep, F, i)]
           bad == {k \in Nat : ~Has(k)}
<1> SUFFICES ASSUME bad # {}  PROVE FALSE
  OBVIOUS
<1>1. PICK m \in bad : \A k \in bad : m <= k
  <2>1. bad \in SUBSET Nat  OBVIOUS
  <2> HIDE DEF bad
  <2> QED  BY <2>1, Least
<1>2. CASE m = 0
  <2> DEFINE F == [i \in 0..0 |-> << >>]
  <2>1. F = [i \in 0..0 |-> SelectStep(items, keep, F, i)]  BY DEF SelectStep
  <2> QED  BY <1>2, <2>1
<1>3. CASE m # 0
  <2>1. m - 1 \in Nat /\ m \in Nat /\ ~(m <= m - 1)  BY <1>3
  <2>2. Has(m - 1)  BY <1>1, <2>1
  <2>3. PICK G : G = [i \in 0..(m - 1) |-> SelectStep(items, keep, G, i)]  BY <2>2
  <2> DEFINE F == [i \in 0..m |-> IF i = m THEN SelectStep(items, keep, G, m) ELSE G[i]]
  <2>4. ASSUME NEW i \in 0..m  PROVE F[i] = SelectStep(items, keep, F, i)
    <3>1. CASE i = m
      <4>1. F[m - 1] = G[m - 1]  BY <2>1
      <4>2. F[m] = SelectStep(items, keep, G, m)  BY <2>1
      <4> HIDE DEF F
      <4> QED  BY <3>1, <4>1, <4>2, <1>3 DEF SelectStep
    <3>2. CASE i # m
      <4>1. i \in 0..(m - 1)  BY <3>2, <2>1
      <4>2. F[i] = G[i] /\ G[i] = SelectStep(items, keep, G, i)  BY <2>3, <3>2, <4>1
      <4>3. i # 0 => F[i - 1] = G[i - 1]  BY <2>1, <4>1
      <4> HIDE DEF F
      <4> QED  BY <4>2, <4>3 DEF SelectStep
    <3> QED  BY <3>1, <3>2
  <2>5. F = [i \in 0..m |-> SelectStep(items, keep, F, i)]
    <3>1. F = [i \in 0..m |-> F[i]]  OBVIOUS
    <3> HIDE DEF F
    <3> QED  BY <2>4, <3>1
  <2>6. Has(m)  BY <2>5
  <2> QED  BY <2>6
<1> QED  BY <1>2, <1>3

LEMMA SelectedIsLast ==
  ASSUME NEW S, NEW items \in Seq(S), NEW keep
  PROVE  \E F : /\ F = [i \in 0..Len(items) |-> SelectStep(items, keep, F, i)]
                /\ Selected(items, keep) = F[Len(items)]
<1> DEFINE f == CHOOSE F : F = [i \in 0..Len(items) |-> SelectStep(items, keep, F, i)]
<1>1. Selected(items, keep) = f[Len(items)]  BY DEF Selected, SelectStep
<1>2. f = [i \in 0..Len(items) |-> SelectStep(items, keep, f, i)]
  <2>1. Len(items) \in Nat  OBVIOUS
  <2>2. \E F : F = [i \in 0..Len(items) |-> SelectStep(items, keep, F, i)]  BY <2>1, SelectedExists
  <2> QED  BY <2>2
<1> QED  BY <1>1, <1>2

\* What is selected are exactly the items in keep, in their order.
LEMMA SelectedProperties ==
  ASSUME NEW S, NEW items \in Seq(S), NEW keep
  PROVE  /\ Selected(items, keep) \in Seq(S)
         /\ Len(Selected(items, keep)) <= Len(items)
         /\ \A k \in DOMAIN Selected(items, keep) :
              \E j \in DOMAIN items : Selected(items, keep)[k] = items[j] /\ items[j] \in keep
         /\ \A j \in DOMAIN items :
              items[j] \in keep =>
                \E k \in DOMAIN Selected(items, keep) : Selected(items, keep)[k] = items[j]
         /\ \A a, b \in DOMAIN Selected(items, keep) : a < b =>
              \E i, j \in DOMAIN items :
                /\ i < j
                /\ Selected(items, keep)[a] = items[i] /\ Selected(items, keep)[b] = items[j]
<1>1. PICK F : /\ F = [i \in 0..Len(items) |-> SelectStep(items, keep, F, i)]
               /\ Selected(items, keep) = F[Len(items)]
  BY SelectedIsLast
<1> DEFINE Good(n) ==
      /\ F[n] \in Seq(S)
      /\ Len(F[n]) <= n
      /\ \A k \in DOMAIN F[n] : \E j \in 1..n : F[n][k] = items[j] /\ items[j] \in keep
      /\ \A j \in 1..n : items[j] \in keep => \E k \in DOMAIN F[n] : F[n][k] = items[j]
      /\ \A a, b \in DOMAIN F[n] : a < b =>
           \E i, j \in 1..n : i < j /\ F[n][a] = items[i] /\ F[n][b] = items[j]
    bad == {n \in 0..Len(items) : ~Good(n)}
<1>2. Len(items) \in Nat /\ DOMAIN items = 1..Len(items)  OBVIOUS
<1>3. ASSUME bad # {}  PROVE FALSE
  <2>1. PICK m \in bad : \A k \in bad : m <= k
    <3>1. bad \in SUBSET Nat  OBVIOUS
    <3> HIDE DEF bad
    <3> QED  BY <3>1, <1>3, Least
  <2>2. F[m] = SelectStep(items, keep, F, m)  BY <1>1
  <2>3. CASE m = 0
    <3>1. F[0] = << >>  BY <2>2, <2>3 DEF SelectStep
    <3>2. << >> \in Seq(S) /\ Len(<< >>) = 0 /\ DOMAIN << >> = {} /\ 1..0 = {}
      OBVIOUS
    <3> HIDE DEF bad
    <3>3. Good(0)  BY <3>1, <3>2
    <3> QED  BY <3>3, <2>3 DEF bad
  <2>4. CASE m # 0
    <3>1. m - 1 \in 0..Len(items) /\ m \in 1..Len(items) /\ ~(m <= m - 1) /\ m \in Nat
      BY <2>4, <1>2
    <3>2. Good(m - 1)  BY <2>1, <3>1
    <3>3. items[m] \in S  BY <3>1
    <3>4. CASE items[m] \notin keep
      <4>1. F[m] = F[m - 1]  BY <2>2, <2>4, <3>4 DEF SelectStep
      <4> HIDE DEF bad
      <4>2. Good(m)  BY <3>1, <3>2, <3>4, <4>1
      <4> QED  BY <4>2 DEF bad
    <3>5. CASE items[m] \in keep
      <4>1. F[m] = Append(F[m - 1], items[m])  BY <2>2, <2>4, <3>5 DEF SelectStep
      <4> DEFINE G == F[m - 1]
      <4>2. /\ G \in Seq(S) /\ Len(G) \in Nat /\ Len(G) <= m - 1 /\ DOMAIN G = 1..Len(G)
            /\ \A k \in DOMAIN G : \E j \in 1..(m - 1) : G[k] = items[j] /\ items[j] \in keep
            /\ \A j \in 1..(m - 1) : items[j] \in keep => \E k \in DOMAIN G : G[k] = items[j]
            /\ \A a, b \in DOMAIN G : a < b =>
                 \E i, j \in 1..(m - 1) : i < j /\ G[a] = items[i] /\ G[b] = items[j]
        BY <3>2
      <4> HIDE DEF G, bad
      <4>3. /\ F[m] = Append(G, items[m])
            /\ F[m] \in Seq(S) /\ Len(F[m]) = Len(G) + 1
            /\ DOMAIN F[m] = 1..(Len(G) + 1)
            /\ \A k \in 1..Len(G) : F[m][k] = G[k]
            /\ F[m][Len(G) + 1] = items[m]
        <5>1. F[m] = Append(G, items[m])  BY <4>1 DEF G
        <5> QED  BY <5>1, <4>2, <3>3
      <4>4. \A k \in DOMAIN F[m] : \E j \in 1..m : F[m][k] = items[j] /\ items[j] \in keep
        <5> SUFFICES ASSUME NEW k \in DOMAIN F[m]
                     PROVE  \E j \in 1..m : F[m][k] = items[j] /\ items[j] \in keep
          OBVIOUS
        <5>1. CASE k = Len(G) + 1  BY <5>1, <4>3, <3>1, <3>5
        <5>2. CASE k \in 1..Len(G)
          <6>1. PICK j \in 1..(m - 1) : G[k] = items[j] /\ items[j] \in keep
            BY <4>2, <5>2
          <6>2. j \in 1..m  BY <3>1
          <6> QED  BY <6>1, <6>2, <4>3, <5>2
        <5> QED  BY <5>1, <5>2, <4>2, <4>3
      <4>5. \A j \in 1..m : items[j] \in keep => \E k \in DOMAIN F[m] : F[m][k] = items[j]
        <5> SUFFICES ASSUME NEW j \in 1..m, items[j] \in keep
                     PROVE  \E k \in DOMAIN F[m] : F[m][k] = items[j]
          OBVIOUS
        <5>1. CASE j = m
          <6>1. Len(G) + 1 \in DOMAIN F[m]  BY <4>2, <4>3
          <6> QED  BY <5>1, <6>1, <4>3
        <5>2. CASE j # m
          <6>1. j \in 1..(m - 1)  BY <5>2, <3>1
          <6>2. PICK k \in DOMAIN G : G[k] = items[j]  BY <6>1, <4>2
          <6>3. k \in 1..Len(G) /\ k \in 1..(Len(G) + 1)  BY <6>2, <4>2
          <6> QED  BY <6>2, <6>3, <4>3
        <5> QED  BY <5>1, <5>2
      <4>6. Len(F[m]) <= m  BY <4>2, <4>3, <3>1
      <4>7. \A a, b \in DOMAIN F[m] : a < b =>
              \E i, j \in 1..m : i < j /\ F[m][a] = items[i] /\ F[m][b] = items[j]
        <5> SUFFICES ASSUME NEW a \in DOMAIN F[m], NEW b \in DOMAIN F[m], a < b
                     PROVE  \E i, j \in 1..m : i < j /\ F[m][a] = items[i] /\ F[m][b] = items[j]
          OBVIOUS
        <5>1. a \in 1..Len(G) /\ F[m][a] = G[a]  BY <4>2, <4>3
        <5>2. CASE b \in 1..Len(G)
          <6>1. PICK i \in 1..(m - 1), j \in 1..(m - 1) : i < j /\ G[a] = items[i] /\ G[b] = items[j]
            BY <4>2, <5>1, <5>2
          <6>2. i \in 1..m /\ j \in 1..m /\ F[m][b] = G[b]  BY <3>1, <4>3, <5>2
          <6> QED  BY <5>1, <6>1, <6>2
        <5>3. CASE b = Len(G) + 1
          <6>1. PICK i \in 1..(m - 1) : G[a] = items[i]  BY <4>2, <5>1
          <6>2. i \in 1..m /\ i < m /\ m \in 1..m  BY <3>1
          <6> QED  BY <4>3, <5>1, <5>3, <6>1, <6>2
        <5> QED  BY <4>2, <4>3, <5>2, <5>3
      <4>8. Good(m)  BY <4>3, <4>4, <4>5, <4>6, <4>7
      <4> QED  BY <4>8 DEF bad
    <3> QED  BY <3>4, <3>5
  <2> QED  BY <2>3, <2>4
<1>4. Good(Len(items))  BY <1>2, <1>3
<1> DEFINE out == Selected(items, keep)
<1>5. out = F[Len(items)]  BY <1>1
<1> HIDE DEF out
<1>6. /\ out \in Seq(S)
      /\ Len(out) <= Len(items)
      /\ \A k \in DOMAIN out : \E j \in DOMAIN items : out[k] = items[j] /\ items[j] \in keep
      /\ \A j \in DOMAIN items : items[j] \in keep => \E k \in DOMAIN out : out[k] = items[j]
  BY <1>2, <1>4, <1>5
<1>7. \A a, b \in DOMAIN out : a < b =>
        \E i, j \in DOMAIN items : i < j /\ out[a] = items[i] /\ out[b] = items[j]
  <2>1. \A a, b \in DOMAIN F[Len(items)] : a < b =>
          \E i, j \in 1..Len(items) :
            i < j /\ F[Len(items)][a] = items[i] /\ F[Len(items)][b] = items[j]
    BY <1>4
  <2> HIDE DEF Good, bad
  <2> QED  BY <1>2, <1>5, <2>1
<1> QED  BY <1>6, <1>7 DEF out

\* Cleanup keeps exactly the packets that have not expired.
LEMMA KeptProperties ==
  ASSUME NEW S, NEW items \in Seq(S)
  PROVE  /\ Kept(items) \in Seq(S)
         /\ Len(Kept(items)) <= Len(items)
         /\ \A k \in DOMAIN Kept(items) :
              \E j \in DOMAIN items : Kept(items)[k] = items[j] /\ ~Expired(items[j])
         /\ \A j \in DOMAIN items :
              ~Expired(items[j]) => \E k \in DOMAIN Kept(items) : Kept(items)[k] = items[j]
<1> DEFINE keep == {p \in ToSet(items) : ~Expired(p)}
<1>1. \A j \in DOMAIN items : items[j] \in keep <=> ~Expired(items[j])
  BY DEF ToSet
<1>2. Kept(items) = Selected(items, keep)  BY DEF Kept
<1> HIDE DEF keep
<1> QED  BY <1>1, <1>2, SelectedProperties

\* Cleanup does not change the order of the packets it keeps.
LEMMA KeptOrder ==
  ASSUME NEW S, NEW items \in Seq(S)
  PROVE  \A a, b \in DOMAIN Kept(items) : a < b =>
           \E i, j \in DOMAIN items :
             i < j /\ Kept(items)[a] = items[i] /\ Kept(items)[b] = items[j]
<1> DEFINE keep == {p \in ToSet(items) : ~Expired(p)}
<1>1. Kept(items) = Selected(items, keep)  BY DEF Kept
<1> HIDE DEF keep
<1> QED  BY <1>1, SelectedProperties

\* A queue whose list is a sequence and whose count is the list's length.
Counted(S, q) ==
  /\ q \in [items : Seq(S), size : Nat, max : Nat]
  /\ q.size = Len(q.items)

\* A new list and its length make a counted queue of a counted queue.
LEMMA UpdateCounts ==
  ASSUME NEW S, NEW q, Counted(S, q), NEW list \in Seq(S), NEW n, n = Len(list)
  PROVE  Counted(S, [q EXCEPT !.items = list, !.size = n])
<1>1. n \in Nat  OBVIOUS
<1> DEFINE u == [q EXCEPT !.items = list, !.size = n]
           Q == [items : Seq(S), size : Nat, max : Nat]
<1>2. q \in Q  BY DEF Counted
<1>3. u.items = list /\ u.size = n  BY <1>2
<1>4. u \in Q  BY <1>1, <1>2
<1> QED  BY <1>1, <1>3, <1>4 DEF Counted

LEMMA CleanupCounts ==
  ASSUME NEW S, NEW q, Counted(S, q)
  PROVE  Counted(S, Cleanup(q)) /\ Cleanup(q).items = Kept(q.items)
<1>1. /\ q.items \in Seq(S) /\ Kept(q.items) \in Seq(S)
      /\ Len(q.items) \in Nat /\ Len(Kept(q.items)) \in Nat
      /\ Len(Kept(q.items)) <= Len(q.items)
  BY KeptProperties DEF Counted
<1>2. q.size - (Len(q.items) - Len(Kept(q.items))) = Len(Kept(q.items))
  BY <1>1 DEF Counted
<1>3. Cleanup(q) = [q EXCEPT !.items = Kept(q.items), !.size = Len(Kept(q.items))]
  BY <1>2 DEF Cleanup
<1>4. /\ Counted(S, [q EXCEPT !.items = Kept(q.items), !.size = Len(Kept(q.items))])
      /\ [q EXCEPT !.items = Kept(q.items), !.size = Len(Kept(q.items))].items = Kept(q.items)
  <2> DEFINE kept == Kept(q.items)
             n == Len(kept)
  <2>1. kept \in Seq(S) /\ n = Len(kept)  BY <1>1
  <2> HIDE DEF kept, n
  <2>2. Counted(S, [q EXCEPT !.items = kept, !.size = n])
    BY <2>1, UpdateCounts
  <2>3. [q EXCEPT !.items = kept, !.size = n].items = kept
    BY DEF Counted
  <2> QED  BY <2>2, <2>3 DEF kept, n
<1> QED  BY <1>3, <1>4

LEMMA EnqueueCounts ==
  ASSUME NEW S, NEW q, Counted(S, q), NEW p \in S
  PROVE  Counted(S, Enqueue(q, p)) /\ Counted(S, PushFront(q, p))
<1> DEFINE c == Cleanup(q)
<1>1. Counted(S, c)  BY CleanupCounts
<1> HIDE DEF c
<1>2. Append(c.items, p) \in Seq(S) /\ Len(Append(c.items, p)) = Len(c.items) + 1
  BY <1>1 DEF Counted
<1>3. <<p>> \o c.items \in Seq(S) /\ Len(<<p>> \o c.items) = Len(c.items) + 1
  BY <1>1 DEF Counted
<1>s. c.size = Len(c.items)  BY <1>1 DEF Counted
<1>4. Counted(S, [c EXCEPT !.items = Append(@, p), !.size = @ + 1])
  BY <1>1, <1>2, <1>s, UpdateCounts
<1>5. Counted(S, [c EXCEPT !.items = <<p>> \o @, !.size = @ + 1])
  BY <1>1, <1>3, <1>s, UpdateCounts
<1> QED  BY <1>1, <1>4, <1>5 DEF Enqueue, PushFront, c

LEMMA TakeAtCounts ==
  ASSUME NEW S, NEW q, Counted(S, q), NEW k \in DOMAIN q.items
  PROVE  Counted(S, TakeAt(q, k)) /\ q.items[k] \in S
<1>1. /\ q.items \in Seq(S) /\ Len(q.items) \in Nat /\ k \in 1..Len(q.items)
      /\ q.size = Len(q.items)
  BY DEF Counted
<1>2. /\ SubSeq(q.items, 1, k - 1) \in Seq(S)
      /\ Len(SubSeq(q.items, 1, k - 1)) = k - 1
      /\ SubSeq(q.items, k + 1, Len(q.items)) \in Seq(S)
      /\ Len(SubSeq(q.items, k + 1, Len(q.items))) = Len(q.items) - k
  <2>1. \A i \in 1..Len(q.items) : q.items[i] \in S  BY <1>1
  <2> QED  BY <1>1, <2>1, SubSeqProperties
<1>3. RemoveAt(q.items, k) \in Seq(S) /\ Len(RemoveAt(q.items, k)) = q.size - 1
  <2> DEFINE front == SubSeq(q.items, 1, k - 1)
             back == SubSeq(q.items, k + 1, Len(q.items))
  <2> HIDE DEF front, back
  <2>1. front \o back \in Seq(S) /\ Len(front \o back) = Len(front) + Len(back)
    BY <1>2, ConcatProperties DEF front, back
  <2>2. Len(front) + Len(back) = q.size - 1  BY <1>1, <1>2 DEF front, back
  <2> QED  BY <2>1, <2>2 DEF RemoveAt, front, back
<1>4. Counted(S, TakeAt(q, k))  BY <1>3, UpdateCounts DEF TakeAt
<1> QED  BY <1>1, <1>4

\* What follows the packet that leaves moves up by one.
LEMMA TakeAtItems ==
  ASSUME NEW S, NEW q, Counted(S, q), NEW k \in DOMAIN q.items
  PROVE  /\ DOMAIN TakeAt(q, k).items = 1..(Len(q.items) - 1)
         /\ \A i \in DOMAIN TakeAt(q, k).items :
              TakeAt(q, k).items[i] = IF i < k THEN q.items[i] ELSE q.items[i + 1]
<1> DEFINE n == Len(q.items)
           front == SubSeq(q.items, 1, k - 1)
           back == SubSeq(q.items, k + 1, n)
           list == RemoveAt(q.items, k)
<1>1. q.items \in Seq(S) /\ n \in Nat /\ k \in 1..n  BY DEF Counted
<1>2. /\ front \in Seq(S) /\ Len(front) = k - 1
      /\ \A i \in 1..(k - 1) : front[i] = q.items[i]
      /\ back \in Seq(S) /\ Len(back) = n - k
      /\ \A i \in 1..(n - k) : back[i] = q.items[k + i]
  BY <1>1
<1>3. list = front \o back  BY DEF RemoveAt
<1>4. TakeAt(q, k).items = list  BY DEF TakeAt, Counted
<1> HIDE DEF front, back
<1>5. /\ list \in Seq(S) /\ Len(list) = n - 1
      /\ \A i \in 1..(k - 1) : list[i] = front[i]
      /\ \A i \in k..(n - 1) : list[i] = back[i - (k - 1)]
  BY <1>1, <1>2, <1>3, ConcatProperties
<1> HIDE DEF list, n
<1>6. \A i \in 1..(n - 1) : list[i] = IF i < k THEN q.items[i] ELSE q.items[i + 1]
  <2> SUFFICES ASSUME NEW i \in 1..(n - 1)
               PROVE  list[i] = IF i < k THEN q.items[i] ELSE q.items[i + 1]
    OBVIOUS
  <2>1. CASE i < k  BY <1>1, <1>2, <1>5, <2>1
  <2>2. CASE ~(i < k)
    <3>1. PICK j \in 1..(n - k) : j = i - (k - 1)  BY <1>1, <2>2
    <3>2. k + j = i + 1 /\ i \in k..(n - 1)  BY <1>1, <2>2, <3>1
    <3> QED  BY <1>2, <1>5, <2>2, <3>1, <3>2
  <2> QED  BY <2>1, <2>2
<1>7. DOMAIN list = 1..(n - 1)  BY <1>5
<1> QED  BY <1>4, <1>6, <1>7 DEF n

\* Nothing is left after Cleanup if and only if every packet has expired; and
\* once nothing is left, nothing is after another Cleanup.
LEMMA EmptyIsExpired ==
  ASSUME NEW S, NEW q, Counted(S, q)
  PROVE  /\ IsEmpty(q) <=> \A k \in DOMAIN q.items : Expired(q.items[k])
         /\ IsEmpty(q) <=> IsEmpty(Cleanup(q))
<1> DEFINE c == Cleanup(q)
<1>1. /\ Counted(S, c) /\ c.items = Kept(q.items)
      /\ Counted(S, Cleanup(c)) /\ Cleanup(c).items = Kept(c.items)
  <2>1. Counted(S, c) /\ c.items = Kept(q.items)  BY CleanupCounts
  <2> HIDE DEF c
  <2> QED  BY <2>1, CleanupCounts
<1>2. q.items \in Seq(S) /\ c.items \in Seq(S)  BY <1>1 DEF Counted
<1>3. IsEmpty(q) <=> \A k \in DOMAIN q.items : Expired(q.items[k])
  <2>1. /\ Kept(q.items) \in Seq(S)
        /\ \A k \in DOMAIN Kept(q.items) :
             \E j \in DOMAIN q.items : Kept(q.items)[k] = q.items[j] /\ ~Expired(q.items[j])
        /\ \A j \in DOMAIN q.items :
             ~Expired(q.items[j]) =>
               \E k \in DOMAIN Kept(q.items) : Kept(q.items)[k] = q.items[j]
    BY <1>2, KeptProperties
  <2>2. IsEmpty(q) <=> Kept(q.items) = << >>  BY <1>1 DEF IsEmpty
  <2>3. Kept(q.items) = << >> <=> DOMAIN Kept(q.items) = {}  BY <2>1
  <2> QED  BY <2>1, <2>2, <2>3
<1>4. IsEmpty(c) <=> IsEmpty(q)
  <2>1. /\ Kept(c.items) \in Seq(S)
        /\ Len(Kept(c.items)) <= Len(c.items)
        /\ \A j \in DOMAIN c.items :
             ~Expired(c.items[j]) =>
               \E k \in DOMAIN Kept(c.items) : Kept(c.items)[k] = c.items[j]
    BY <1>2, KeptProperties
  <2>2. \A k \in DOMAIN c.items : ~Expired(c.items[k])
    BY <1>1, <1>2, KeptProperties
  <2>3. Kept(c.items) = << >> <=> c.items = << >>
    BY <1>2, <2>1, <2>2
  <2> QED  BY <1>1, <2>3 DEF IsEmpty
<1> QED  BY <1>3, <1>4

\* Packets do not get younger: what is expired stays so.
LEMMA AgedQueueCounts ==
  ASSUME NEW S, NEW q, Counted(S, q), \A p \in S : Older(p) \in S
  PROVE  /\ Counted(S, AgedQueue(q))
         /\ DOMAIN AgedQueue(q).items = DOMAIN q.items
         /\ \A k \in DOMAIN q.items : AgedQueue(q).items[k] = Older(q.items[k])
<1> DEFINE aged == [k \in DOMAIN q.items |-> Older(q.items[k])]
<1>1. /\ q.items \in Seq(S) /\ Len(q.items) \in Nat /\ DOMAIN q.items = 1..Len(q.items)
      /\ q \in [items : Seq(S), size : Nat, max : Nat] /\ q.size = Len(q.items)
  BY DEF Counted
<1>2. aged \in [1..Len(q.items) -> S]  BY <1>1
<1>3. aged \in Seq(S) /\ Len(aged) = Len(q.items)  BY <1>1, <1>2
<1>4. AgedQueue(q) = [q EXCEPT !.items = aged]  BY DEF AgedQueue
<1> HIDE DEF aged
<1>5. AgedQueue(q).items = aged  BY <1>4, <1>1
<1>6. Counted(S, AgedQueue(q))  BY <1>1, <1>3, <1>4 DEF Counted
<1> QED  BY <1>5, <1>6 DEF aged

-----------------------------------------------------------------------------
(* The first available packet.                                             *)

LEMMA FirstIsAvailable ==
  ASSUME NEW S, NEW q, Counted(S, q), NEW blocked, Available(q, blocked) # {}
  PROVE  /\ FirstAvailable(q, blocked) \in Available(q, blocked)
         /\ FirstAvailable(q, blocked) \in DOMAIN Cleanup(q).items
<1>1. Cleanup(q).items \in Seq(S)  BY CleanupCounts DEF Counted
<1>2. DOMAIN Cleanup(q).items \subseteq Nat  BY <1>1
<1>3. Available(q, blocked) \in SUBSET Nat
      /\ Available(q, blocked) \subseteq DOMAIN Cleanup(q).items
  BY <1>2 DEF Available
<1>4. \E k \in Available(q, blocked) : \A j \in Available(q, blocked) : k <= j
  BY <1>3, Least
<1> QED  BY <1>3, <1>4 DEF FirstAvailable

\* A packet is available when it has neither expired nor a blocked receiver.
LEMMA AvailableIsSendable ==
  ASSUME NEW S, NEW q, Counted(S, q), NEW blocked
  PROVE  Available(q, blocked) # {} <=>
           \E k \in DOMAIN q.items :
             /\ ~Expired(q.items[k])
             /\ q.items[k].mgt \/ q.items[k].to \notin blocked
<1>1. q.items \in Seq(S) /\ Cleanup(q).items = Kept(q.items)
  BY CleanupCounts DEF Counted
<1>2. /\ \A k \in DOMAIN Kept(q.items) :
           \E j \in DOMAIN q.items : Kept(q.items)[k] = q.items[j] /\ ~Expired(q.items[j])
      /\ \A j \in DOMAIN q.items :
           ~Expired(q.items[j]) =>
             \E k \in DOMAIN Kept(q.items) : Kept(q.items)[k] = q.items[j]
  BY <1>1, KeptProperties
<1> QED  BY <1>1, <1>2 DEF Available
=============================================================================
