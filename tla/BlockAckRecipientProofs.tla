---------------------- MODULE BlockAckRecipientProofs ----------------------
(***************************************************************************)
(* Theorems about BlockAckRecipient: types, that the recipient keeps what  *)
(* it acknowledged, and, for a flow whose sequence numbers do not come     *)
(* near half of their space, that its reordering buffer implements         *)
(* in-order delivery.                                                      *)
(***************************************************************************)
EXTENDS BlockAckRecipient, WellFoundedInduction, SequenceTheorems, TLAPS

LEMMA Constants ==
  /\ SeqSpace \in Nat \ {0} /\ FragSpace \in Nat \ {0} /\ MaxTries \in Nat \ {0}
  /\ MaxPacket \in Nat \ {0} /\ MaxGiveUps \in Nat /\ MaxTeardowns \in Nat
  /\ First \in 0..(SeqSpace - 1) /\ Packets = 1..MaxPacket
  BY ConstantsAssumption DEF Packets

-----------------------------------------------------------------------------
(* Minima, maxima and prefixes.                                            *)

\* A nonempty set of natural numbers has a minimum.
LEMMA Least ==
  ASSUME NEW T \in SUBSET Nat, T # {}
  PROVE  Min(T) \in T /\ \A n \in T : Min(T) <= n
<1> DEFINE R == {ss \in Nat \X Nat : ss[1] < ss[2]}
<1>1. IsWellFoundedOn(R, Nat)  BY NatLessThanWellFounded DEF OpToRel
<1>2. \E m \in T : \A n \in T : ~ (<<n, m>> \in R)
  <2> HIDE DEF R
  <2> QED  BY <1>1, WFMin
<1>3. PICK m \in T : \A n \in T : ~ (<<n, m>> \in R)
  BY <1>2
<1>4. ASSUME NEW n \in T  PROVE m <= n
  <2>1. <<n, m>> \in R <=> n < m  OBVIOUS
  <2> QED  BY <1>3, <2>1
<1> QED  BY <1>4 DEF Min

\* A nonempty set of numbers up to a bound has a maximum.
LEMMA Greatest ==
  ASSUME NEW L \in Nat, NEW T \in SUBSET (0..L), T # {}
  PROVE  Max(T) \in T /\ \A n \in T : Max(T) >= n
<1> DEFINE below == {L - n : n \in T}
<1>1. below \in SUBSET Nat /\ below # {}
  <2>1. \A n \in T : L - n \in Nat  OBVIOUS
  <2>2. PICK n \in T : TRUE  OBVIOUS
  <2>3. L - n \in below  BY <2>2
  <2> QED  BY <2>1, <2>3
<1>2. Min(below) \in below /\ \A n \in below : Min(below) <= n
  <2> HIDE DEF below
  <2> QED  BY <1>1, Least
<1>3. PICK m \in T : Min(below) = L - m  BY <1>2
<1>4. \A n \in T : L - m <= L - n  BY <1>2, <1>3
<1>5. \A n \in T : m >= n  BY <1>4
<1> QED  BY <1>5 DEF Max

\* The longest prefix of 1..L within a set ends where the set first fails.
LEMMA LongestPrefix ==
  ASSUME NEW L \in Nat, NEW good
  PROVE  \E n \in 0..L :
           /\ n = Max({k \in 0..L : \A i \in 1..k : i \in good})
           /\ \A i \in 1..n : i \in good
           /\ n < L => n + 1 \notin good
<1> DEFINE T == {k \in 0..L : \A i \in 1..k : i \in good}
           n == Max(T)
<1>1. 0 \in T  OBVIOUS
<1>2. n \in T /\ \A k \in T : n >= k
  <2>1. T \in SUBSET (0..L) /\ T # {}  BY <1>1
  <2> HIDE DEF T
  <2> QED  BY <2>1, Greatest
<1> HIDE DEF n
<1>3. n < L => n + 1 \notin good
  <2> SUFFICES ASSUME n < L, n + 1 \in good  PROVE FALSE
    OBVIOUS
  <2>1. n \in 0..L /\ \A i \in 1..n : i \in good  BY <1>2
  <2>2. n + 1 \in 0..L /\ \A i \in 1..(n + 1) : i \in good  BY <2>1
  <2>3. n + 1 \in T  BY <2>2
  <2> QED  BY <1>2, <2>1, <2>3
<1> QED  BY <1>2, <1>3 DEF n

\* A list cut after its first n packets.
LEMMA SplitAt ==
  ASSUME NEW S, NEW b \in Seq(S), NEW n \in 0..Len(b)
  PROVE  /\ SubSeq(b, 1, n) \in Seq(S) /\ Len(SubSeq(b, 1, n)) = n
         /\ \A i \in 1..n : SubSeq(b, 1, n)[i] = b[i]
         /\ SubSeq(b, n + 1, Len(b)) \in Seq(S)
         /\ Len(SubSeq(b, n + 1, Len(b))) = Len(b) - n
         /\ \A i \in 1..(Len(b) - n) : SubSeq(b, n + 1, Len(b))[i] = b[n + i]
  OBVIOUS

LEMMA SplitSet ==
  ASSUME NEW S, NEW b \in Seq(S), NEW n \in 0..Len(b)
  PROVE  ToSet(b) = ToSet(SubSeq(b, 1, n)) \cup ToSet(SubSeq(b, n + 1, Len(b)))
<1> DEFINE head == SubSeq(b, 1, n)
           tail == SubSeq(b, n + 1, Len(b))
           L == Len(b)
<1>1. /\ L \in Nat /\ DOMAIN b = 1..L /\ n \in 0..L
      /\ DOMAIN head = 1..n /\ DOMAIN tail = 1..(L - n)
      /\ \A i \in 1..n : head[i] = b[i]
      /\ \A i \in 1..(L - n) : tail[i] = b[n + i]
  BY SplitAt
<1> HIDE DEF head, tail, L
<1>2. ASSUME NEW i \in 1..L  PROVE b[i] \in ToSet(head) \cup ToSet(tail)
  <2>1. CASE i <= n  BY <1>1, <2>1 DEF ToSet
  <2>2. CASE ~(i <= n)
    <3>1. PICK k \in 1..(L - n) : i = n + k
      <4>1. i - n \in 1..(L - n) /\ i = n + (i - n)  BY <1>1, <2>2
      <4> QED  BY <4>1
    <3> QED  BY <1>1, <3>1 DEF ToSet
  <2> QED  BY <2>1, <2>2
<1>3. ToSet(head) \subseteq ToSet(b)
  BY <1>1 DEF ToSet
<1>4. ToSet(tail) \subseteq ToSet(b)
  <2>1. \A i \in 1..(L - n) : n + i \in 1..L  BY <1>1
  <2> QED  BY <1>1, <2>1 DEF ToSet
<1>5. ToSet(b) \subseteq ToSet(head) \cup ToSet(tail)
  BY <1>1, <1>2 DEF ToSet
<1> QED  BY <1>3, <1>4, <1>5 DEF head, tail, L

-----------------------------------------------------------------------------
(* PassUp.                                                                 *)

\* What MacRxMiddle has passed up after n packets, from what F says of fewer.
PassStep(up, packets, F, n) ==
  IF n = 0 THEN up
  ELSE IF F[n - 1] # << >> /\ Last(F[n - 1]) = packets[n] THEN F[n - 1]
  ELSE Append(F[n - 1], packets[n])

\* The recursion of PassUp defines a function.
LEMMA PassedExists ==
  ASSUME NEW up, NEW packets, NEW n \in Nat
  PROVE  \E F : F = [i \in 0..n |-> PassStep(up, packets, F, i)]
<1> DEFINE Has(k) == \E F : F = [i \in 0..k |-> PassStep(up, packets, F, i)]
           bad == {k \in Nat : ~Has(k)}
<1> SUFFICES ASSUME bad # {}  PROVE FALSE
  OBVIOUS
<1>1. PICK m \in bad : \A k \in bad : m <= k
  <2>1. bad \in SUBSET Nat  OBVIOUS
  <2> HIDE DEF bad
  <2> QED  BY <2>1, Least
<1>2. CASE m = 0
  <2> DEFINE F == [i \in 0..0 |-> up]
  <2>1. F = [i \in 0..0 |-> PassStep(up, packets, F, i)]  BY DEF PassStep
  <2> QED  BY <1>2, <2>1
<1>3. CASE m # 0
  <2>1. m - 1 \in Nat /\ m \in Nat /\ ~(m <= m - 1)  BY <1>3
  <2>2. Has(m - 1)  BY <1>1, <2>1
  <2>3. PICK G : G = [i \in 0..(m - 1) |-> PassStep(up, packets, G, i)]  BY <2>2
  <2> DEFINE F == [i \in 0..m |-> IF i = m THEN PassStep(up, packets, G, m) ELSE G[i]]
  <2>4. ASSUME NEW i \in 0..m  PROVE F[i] = PassStep(up, packets, F, i)
    <3>1. CASE i = m
      <4>1. F[m - 1] = G[m - 1]  BY <2>1
      <4>2. F[m] = PassStep(up, packets, G, m)  BY <2>1
      <4> HIDE DEF F
      <4> QED  BY <3>1, <4>1, <4>2, <1>3 DEF PassStep
    <3>2. CASE i # m
      <4>1. i \in 0..(m - 1)  BY <3>2, <2>1
      <4>2. F[i] = G[i] /\ G[i] = PassStep(up, packets, G, i)  BY <2>3, <3>2, <4>1
      <4>3. i # 0 => F[i - 1] = G[i - 1]  BY <2>1, <4>1
      <4> HIDE DEF F
      <4> QED  BY <4>2, <4>3 DEF PassStep
    <3> QED  BY <3>1, <3>2
  <2>5. F = [i \in 0..m |-> PassStep(up, packets, F, i)]
    <3>1. F = [i \in 0..m |-> F[i]]  OBVIOUS
    <3> HIDE DEF F
    <3> QED  BY <2>4, <3>1
  <2>6. Has(m)  BY <2>5
  <2> QED  BY <2>6
<1> QED  BY <1>2, <1>3

LEMMA PassUpIsLast ==
  ASSUME NEW S, NEW up \in Seq(S), NEW packets \in Seq(S)
  PROVE  \E F : /\ F = [i \in 0..Len(packets) |-> PassStep(up, packets, F, i)]
                /\ PassUp(up, packets) = F[Len(packets)]
<1> DEFINE f == CHOOSE F : F = [i \in 0..Len(packets) |-> PassStep(up, packets, F, i)]
<1>1. PassUp(up, packets) = f[Len(packets)]  BY DEF PassUp, PassStep
<1>2. f = [i \in 0..Len(packets) |-> PassStep(up, packets, f, i)]
  <2>1. Len(packets) \in Nat  OBVIOUS
  <2>2. \E F : F = [i \in 0..Len(packets) |-> PassStep(up, packets, F, i)]
    BY <2>1, PassedExists
  <2> QED  BY <2>2
<1> QED  BY <1>1, <1>2

\* The list s begins with the list up.
Begins(s, up) == Len(up) <= Len(s) /\ \A i \in 1..Len(up) : s[i] = up[i]

\* Of the packets n, none is lost: what is passed up are they and what was passed
\* up before, which stays in its place.
PassedGood(S, up, packets, s, n) ==
  /\ s \in Seq(S)
  /\ Begins(s, up)
  /\ \A k \in DOMAIN s : s[k] \in ToSet(up) \/ \E j \in 1..n : s[k] = packets[j]
  /\ \A j \in 1..n : \E k \in DOMAIN s : s[k] = packets[j]

LEMMA PassedStepGood ==
  ASSUME NEW S, NEW up \in Seq(S), NEW packets \in Seq(S), NEW F,
         NEW n \in 1..Len(packets), PassedGood(S, up, packets, F[n - 1], n - 1)
  PROVE  PassedGood(S, up, packets, PassStep(up, packets, F, n), n)
<1> DEFINE s == F[n - 1]
           p == packets[n]
           L == Len(s)
<1>1. /\ s \in Seq(S) /\ p \in S /\ L \in Nat /\ DOMAIN s = 1..L
      /\ n \in Nat /\ n # 0 /\ n \in 1..n
      /\ \A j \in 1..n : j = n \/ j \in 1..(n - 1)
      /\ \A j \in 1..(n - 1) : j \in 1..n
      /\ Len(up) \in Nat
  BY DEF PassedGood
<1>2. /\ Begins(s, up)
      /\ \A k \in DOMAIN s : s[k] \in ToSet(up) \/ \E j \in 1..(n - 1) : s[k] = packets[j]
      /\ \A j \in 1..(n - 1) : \E k \in DOMAIN s : s[k] = packets[j]
  BY DEF PassedGood
<1>3. PassStep(up, packets, F, n) = IF s # << >> /\ Last(s) = p THEN s ELSE Append(s, p)
  BY <1>1 DEF PassStep
<1> HIDE DEF s, p
<1>4. CASE s # << >> /\ Last(s) = p
  <2>1. L \in DOMAIN s /\ s[L] = p  BY <1>1, <1>4 DEF Last
  <2>2. \A j \in 1..n : \E k \in DOMAIN s : s[k] = packets[j]
    BY <1>1, <1>2, <2>1 DEF p
  <2>3. \A k \in DOMAIN s : s[k] \in ToSet(up) \/ \E j \in 1..n : s[k] = packets[j]
    BY <1>1, <1>2
  <2> QED  BY <1>1, <1>2, <1>3, <1>4, <2>2, <2>3 DEF PassedGood
<1>5. CASE ~(s # << >> /\ Last(s) = p)
  <2> DEFINE t == Append(s, p)
  <2>1. /\ t \in Seq(S) /\ Len(t) = L + 1 /\ DOMAIN t = 1..(L + 1)
        /\ \A k \in 1..L : t[k] = s[k]
        /\ t[L + 1] = p
    BY <1>1
  <2> HIDE DEF t, L
  <2>2. Begins(t, up)
    <3>1. Len(up) <= L /\ \A i \in 1..Len(up) : s[i] = up[i]
      BY <1>2 DEF Begins, L
    <3>2. \A i \in 1..Len(up) : i \in 1..L  BY <1>1, <3>1
    <3> QED  BY <1>1, <2>1, <3>1, <3>2 DEF Begins
  <2>3. ASSUME NEW k \in DOMAIN t
        PROVE  t[k] \in ToSet(up) \/ \E j \in 1..n : t[k] = packets[j]
    <3>1. CASE k = L + 1  BY <1>1, <2>1, <3>1 DEF p
    <3>2. CASE k \in 1..L  BY <1>1, <1>2, <2>1, <3>2
    <3> QED  BY <1>1, <2>1, <3>1, <3>2
  <2>4. ASSUME NEW j \in 1..n  PROVE \E k \in DOMAIN t : t[k] = packets[j]
    <3>1. CASE j = n
      <4>1. L + 1 \in DOMAIN t  BY <1>1, <2>1
      <4> QED  BY <2>1, <3>1, <4>1 DEF p
    <3>2. CASE j \in 1..(n - 1)
      <4>1. PICK k \in 1..L : s[k] = packets[j]  BY <1>1, <1>2, <3>2
      <4>2. k \in DOMAIN t  BY <1>1, <2>1
      <4> QED  BY <2>1, <4>1, <4>2
    <3> QED  BY <1>1, <3>1, <3>2
  <2>5. PassedGood(S, up, packets, t, n)
    BY <2>1, <2>2, <2>3, <2>4 DEF PassedGood
  <2>6. PassStep(up, packets, F, n) = t  BY <1>3, <1>5 DEF t
  <2> QED  BY <2>5, <2>6
<1> QED  BY <1>4, <1>5

LEMMA PassUpSteps ==
  ASSUME NEW S, NEW up \in Seq(S), NEW packets \in Seq(S)
  PROVE  \E F : /\ F = [i \in 0..Len(packets) |-> PassStep(up, packets, F, i)]
                /\ PassUp(up, packets) = F[Len(packets)]
                /\ \A n \in 0..Len(packets) : PassedGood(S, up, packets, F[n], n)
<1>1. PICK F : /\ F = [i \in 0..Len(packets) |-> PassStep(up, packets, F, i)]
               /\ PassUp(up, packets) = F[Len(packets)]
  BY PassUpIsLast
<1> DEFINE bad == {n \in 0..Len(packets) : ~PassedGood(S, up, packets, F[n], n)}
<1>2. ASSUME bad # {}  PROVE FALSE
  <2>1. PICK m \in bad : \A k \in bad : m <= k
    <3>1. bad \in SUBSET Nat  OBVIOUS
    <3> HIDE DEF bad
    <3> QED  BY <3>1, <1>2, Least
  <2>2. F[m] = PassStep(up, packets, F, m)  BY <1>1
  <2>3. CASE m = 0
    <3>1. F[0] = up  BY <2>2, <2>3 DEF PassStep
    <3>2. Begins(up, up)  BY DEF Begins
    <3>3. 1..0 = {} /\ \A k \in DOMAIN up : up[k] \in ToSet(up)  BY DEF ToSet
    <3>4. PassedGood(S, up, packets, up, 0)  BY <3>2, <3>3 DEF PassedGood
    <3> QED  BY <2>3, <3>1, <3>4
  <2>4. CASE m # 0
    <3>1. m - 1 \in 0..Len(packets) /\ m \in 1..Len(packets) /\ ~(m <= m - 1)
      BY <2>4
    <3>2. PassedGood(S, up, packets, F[m - 1], m - 1)  BY <2>1, <3>1
    <3>3. PassedGood(S, up, packets, F[m], m)
      BY <2>2, <3>1, <3>2, PassedStepGood
    <3> QED  BY <3>3
  <2> QED  BY <2>3, <2>4
<1> QED  BY <1>1, <1>2

\* Passing packets up adds them to what was passed up.
LEMMA PassUpAdds ==
  ASSUME NEW S, NEW up \in Seq(S), NEW packets \in Seq(S)
  PROVE  /\ PassUp(up, packets) \in Seq(S)
         /\ Begins(PassUp(up, packets), up)
         /\ ToSet(PassUp(up, packets)) = ToSet(up) \cup ToSet(packets)
<1> DEFINE s == PassUp(up, packets)
<1>1. PassedGood(S, up, packets, s, Len(packets))
  <2>1. Len(packets) \in 0..Len(packets)  OBVIOUS
  <2> QED  BY <2>1, PassUpSteps
<1> HIDE DEF s
<1>2. DOMAIN packets = 1..Len(packets) /\ DOMAIN up = 1..Len(up) /\ Len(up) \in Nat
  OBVIOUS
<1>3. s \in Seq(S) /\ DOMAIN s = 1..Len(s) /\ Len(s) \in Nat
  BY <1>1 DEF PassedGood
<1>4. ToSet(s) \subseteq ToSet(up) \cup ToSet(packets)
  BY <1>1, <1>2 DEF PassedGood, ToSet
<1>5. ToSet(packets) \subseteq ToSet(s)
  BY <1>1, <1>2 DEF PassedGood, ToSet
<1>6. ToSet(up) \subseteq ToSet(s)
  <2>1. \A i \in 1..Len(up) : i \in DOMAIN s /\ s[i] = up[i]
    BY <1>1, <1>2, <1>3 DEF PassedGood, Begins
  <2> QED  BY <1>2, <2>1 DEF ToSet
<1> QED  BY <1>1, <1>4, <1>5, <1>6 DEF PassedGood, s

Increasing(s) == \A i, j \in DOMAIN s : i < j => s[i] < s[j]

Sorted(s) == \A i, j \in DOMAIN s : i < j => s[i] <= s[j]

\* Nothing in t is below anything in s.
Follows(t, s) == \A i \in DOMAIN s, j \in DOMAIN t : s[i] <= t[j]

\* Sorted packets that follow what was passed up keep it increasing: of equal ones,
\* one goes up.
LEMMA PassUpOrder ==
  ASSUME NEW up \in Seq(Nat), NEW packets \in Seq(Nat),
         Increasing(up), Sorted(packets), Follows(packets, up)
  PROVE  Increasing(PassUp(up, packets))
<1>1. PICK F : /\ F = [i \in 0..Len(packets) |-> PassStep(up, packets, F, i)]
               /\ PassUp(up, packets) = F[Len(packets)]
               /\ \A n \in 0..Len(packets) : PassedGood(Nat, up, packets, F[n], n)
  BY PassUpSteps
<1> DEFINE bad == {n \in 0..Len(packets) : ~Increasing(F[n])}
<1>2. ASSUME bad # {}  PROVE FALSE
  <2>1. PICK m \in bad : \A k \in bad : m <= k
    <3>1. bad \in SUBSET Nat  OBVIOUS
    <3> HIDE DEF bad
    <3> QED  BY <3>1, <1>2, Least
  <2>2. F[m] = PassStep(up, packets, F, m)  BY <1>1
  <2>3. CASE m = 0
    <3>1. F[0] = up  BY <2>2, <2>3 DEF PassStep
    <3> QED  BY <2>3, <3>1
  <2>4. CASE m # 0
    <3> DEFINE s == F[m - 1]
               p == packets[m]
               L == Len(s)
    <3>1. /\ m - 1 \in 0..Len(packets) /\ m \in 1..Len(packets) /\ ~(m <= m - 1)
          /\ DOMAIN packets = 1..Len(packets) /\ p \in Nat
      BY <2>4
    <3>2. Increasing(s) /\ PassedGood(Nat, up, packets, s, m - 1)
      BY <1>1, <2>1, <3>1
    <3>3. F[m] = IF s # << >> /\ Last(s) = p THEN s ELSE Append(s, p)
      BY <2>2, <2>4 DEF PassStep
    <3>4. ~Increasing(F[m])  OBVIOUS
    <3>5. s \in Seq(Nat) /\ DOMAIN s = 1..L /\ L \in Nat  BY <3>2 DEF PassedGood
    <3>6. ASSUME NEW k \in 1..L  PROVE s[k] <= p
      <4>1. CASE s[k] \in ToSet(up)
        <5>1. PICK i \in DOMAIN up : s[k] = up[i]  BY <4>1 DEF ToSet
        <5> QED  BY <3>1, <5>1 DEF Follows
      <4>2. CASE \E j \in 1..(m - 1) : s[k] = packets[j]
        <5>1. PICK j \in 1..(m - 1) : s[k] = packets[j]  BY <4>2
        <5>2. j \in DOMAIN packets /\ m \in DOMAIN packets /\ j < m  BY <3>1
        <5> QED  BY <5>1, <5>2 DEF Sorted
      <4> QED  BY <3>2, <3>5, <4>1, <4>2 DEF PassedGood
    <3> HIDE DEF s, p, bad, L
    <3>7. s = << >> \/ Last(s) # p
      BY <3>2, <3>3, <3>4
    <3>8. ASSUME NEW k \in 1..L  PROVE s[k] < p
      <4>1. L \in 1..L /\ s[L] # p
        <5>1. L # 0 /\ s # << >>  BY <3>5, <3>8 DEF L
        <5>2. Last(s) = s[L]  BY DEF Last, L
        <5> QED  BY <3>5, <3>7, <5>1, <5>2
      <4>2. s[k] \in Nat /\ s[L] \in Nat /\ s[L] <= p  BY <3>5, <3>6, <4>1
      <4>3. CASE k = L  BY <3>1, <4>1, <4>2, <4>3
      <4>4. CASE k # L
        <5>1. k < L  BY <3>5, <4>4
        <5>2. s[k] < s[L]  BY <3>2, <3>5, <4>1, <5>1 DEF Increasing
        <5> QED  BY <3>1, <4>2, <5>2
      <4> QED  BY <4>3, <4>4
    <3> DEFINE t == Append(s, p)
    <3>9. F[m] = t  BY <3>3, <3>7
    <3>10. /\ DOMAIN t = 1..(L + 1) /\ t[L + 1] = p
           /\ \A k \in 1..L : t[k] = s[k]
      BY <3>1, <3>5 DEF L
    <3> HIDE DEF t
    <3>11. Increasing(t)
      <4> SUFFICES ASSUME NEW i \in 1..(L + 1), NEW j \in 1..(L + 1), i < j
                   PROVE  t[i] < t[j]
        BY <3>10 DEF Increasing
      <4>1. i \in 1..L  BY <3>5
      <4>2. CASE j = L + 1  BY <3>8, <3>10, <4>1, <4>2
      <4>3. CASE j \in 1..L  BY <3>2, <3>5, <3>10, <4>1, <4>3 DEF Increasing
      <4> QED  BY <3>5, <4>2, <4>3
    <3> QED  BY <3>4, <3>9, <3>11
  <2> QED  BY <2>3, <2>4
<1>3. Len(packets) \in 0..Len(packets)  OBVIOUS
<1> QED  BY <1>1, <1>2, <1>3

-----------------------------------------------------------------------------
(* The two hand-up functions: the first n packets of the buffer go up.     *)

\* The outcome of handing up the first n packets of r, start as given.
HandedUp(r, n, start) ==
  Reception(SubSeq(r.buffer, n + 1, Len(r.buffer)), start,
            PassUp(r.rx, SubSeq(r.buffer, 1, n)))

IsSmaller(r, seq, i) == Mapped(Number(r.buffer[i]), r.start) < Mapped(seq, r.start)

LEMMA SmallerResult ==
  ASSUME NEW r, r.buffer \in Seq(Packets), NEW seq
  PROVE  \E n \in 0..Len(r.buffer) :
           /\ RxCompleteBufferedPacketsWithSmallerSequence(r, seq) = HandedUp(r, n, r.start)
           /\ \A i \in 1..n : IsSmaller(r, seq, i)
           /\ n < Len(r.buffer) => ~IsSmaller(r, seq, n + 1)
<1> DEFINE L == Len(r.buffer)
           good == {i \in 1..L : IsSmaller(r, seq, i)}
<1>1. L \in Nat  OBVIOUS
<1>2. PICK n \in 0..L : /\ n = Max({k \in 0..L : \A i \in 1..k : i \in good})
                        /\ \A i \in 1..n : i \in good
                        /\ n < L => n + 1 \notin good
  <2> HIDE DEF good
  <2> QED  BY <1>1, LongestPrefix
<1>3. {k \in 0..L : \A i \in 1..k : i \in good}
        = {k \in 0..L : \A i \in 1..k : IsSmaller(r, seq, i)}
  BY <1>1
<1>4. RxCompleteBufferedPacketsWithSmallerSequence(r, seq) = HandedUp(r, n, r.start)
  BY <1>2, <1>3 DEF RxCompleteBufferedPacketsWithSmallerSequence, Prefix, HandedUp, IsSmaller
<1>5. n < L => ~IsSmaller(r, seq, n + 1)
  <2>1. n < L => n + 1 \in 1..L  BY <1>1
  <2> QED  BY <1>2, <2>1
<1>6. \A i \in 1..n : IsSmaller(r, seq, i)  BY <1>2
<1> HIDE DEF good
<1> QED  BY <1>4, <1>5, <1>6

IsExpected(r, i) == Number(r.buffer[i]) = (r.start + i - 1) % SeqSpace

LEMMA UntilFirstLostResult ==
  ASSUME NEW r, r.buffer \in Seq(Packets)
  PROVE  \E n \in 0..Len(r.buffer) :
           /\ RxCompleteBufferedPacketsUntilFirstLost(r)
                = HandedUp(r, n, (r.start + n) % SeqSpace)
           /\ \A i \in 1..n : IsExpected(r, i)
<1> DEFINE L == Len(r.buffer)
           good == {i \in 1..L : IsExpected(r, i)}
<1>1. L \in Nat  OBVIOUS
<1>2. PICK n \in 0..L : /\ n = Max({k \in 0..L : \A i \in 1..k : i \in good})
                        /\ \A i \in 1..n : i \in good
                        /\ n < L => n + 1 \notin good
  <2> HIDE DEF good
  <2> QED  BY <1>1, LongestPrefix
<1>3. {k \in 0..L : \A i \in 1..k : i \in good}
        = {k \in 0..L : \A i \in 1..k : IsExpected(r, i)}
  BY <1>1
<1>4. RxCompleteBufferedPacketsUntilFirstLost(r) = HandedUp(r, n, (r.start + n) % SeqSpace)
  BY <1>2, <1>3 DEF RxCompleteBufferedPacketsUntilFirstLost, Prefix, HandedUp, IsExpected
<1> QED  BY <1>2, <1>4

\* What the recipient holds and has passed up are packets.
Holds(r) ==
  /\ r.buffer \in Seq(Packets) /\ r.rx \in Seq(Packets)
  /\ r.start \in 0..(SeqSpace - 1)

\* Handing up moves packets from the buffer to what was passed up.
LEMMA HandedUpHolds ==
  ASSUME NEW r, Holds(r), NEW n \in 0..Len(r.buffer), NEW start \in 0..(SeqSpace - 1)
  PROVE  /\ Holds(HandedUp(r, n, start))
         /\ ToSet(HandedUp(r, n, start).buffer) \subseteq ToSet(r.buffer)
         /\ ToSet(HandedUp(r, n, start).buffer) \cup ToSet(HandedUp(r, n, start).rx)
              = ToSet(r.buffer) \cup ToSet(r.rx)
         /\ Begins(HandedUp(r, n, start).rx, r.rx)
<1> DEFINE b == r.buffer
           head == SubSeq(b, 1, n)
           tail == SubSeq(b, n + 1, Len(b))
           up == PassUp(r.rx, head)
<1>1. /\ HandedUp(r, n, start).buffer = tail
      /\ HandedUp(r, n, start).start = start
      /\ HandedUp(r, n, start).rx = up
  BY DEF HandedUp, Reception
<1>2. b \in Seq(Packets) /\ r.rx \in Seq(Packets) /\ n \in 0..Len(b)
  BY DEF Holds
<1> HIDE DEF b
<1>3. head \in Seq(Packets) /\ tail \in Seq(Packets) /\ ToSet(b) = ToSet(head) \cup ToSet(tail)
  BY <1>2, SplitAt, SplitSet
<1> HIDE DEF head, tail
<1>4. up \in Seq(Packets) /\ ToSet(up) = ToSet(r.rx) \cup ToSet(head) /\ Begins(up, r.rx)
  BY <1>2, <1>3, PassUpAdds
<1> HIDE DEF up
<1> QED  BY <1>1, <1>3, <1>4 DEF Holds, b

LEMMA ForwardedHolds ==
  ASSUME NEW r, Holds(r), NEW seq, NEW f \in Forwarded(r, seq)
  PROVE  /\ Holds(f)
         /\ ToSet(f.buffer) \subseteq ToSet(r.buffer)
         /\ ToSet(f.buffer) \cup ToSet(f.rx) = ToSet(r.buffer) \cup ToSet(r.rx)
<1>1. PICK n \in 0..Len(r.buffer) :
        RxCompleteBufferedPacketsWithSmallerSequence(r, seq) = HandedUp(r, n, r.start)
  BY SmallerResult DEF Holds
<1> DEFINE o == HandedUp(r, n, r.start)
<1>2. /\ Holds(o) /\ ToSet(o.buffer) \subseteq ToSet(r.buffer)
      /\ ToSet(o.buffer) \cup ToSet(o.rx) = ToSet(r.buffer) \cup ToSet(r.rx)
  BY HandedUpHolds DEF Holds
<1>3. f = RxCompleteBufferedPacketsUntilFirstLost(o)
  BY <1>1 DEF Forwarded
<1> HIDE DEF o
<1>4. PICK m \in 0..Len(o.buffer) : f = HandedUp(o, m, (o.start + m) % SeqSpace)
  BY <1>2, <1>3, UntilFirstLostResult DEF Holds
<1>5. (o.start + m) % SeqSpace \in 0..(SeqSpace - 1)
  <2>1. o.start + m \in Nat /\ SeqSpace \in Nat \ {0}
    BY <1>2, Constants DEF Holds
  <2> QED  BY <2>1
<1>6. PICK s \in 0..(SeqSpace - 1) : s = (o.start + m) % SeqSpace  BY <1>5
<1>7. /\ Holds(f) /\ ToSet(f.buffer) \subseteq ToSet(o.buffer)
      /\ ToSet(f.buffer) \cup ToSet(f.rx) = ToSet(o.buffer) \cup ToSet(o.rx)
  BY <1>2, <1>4, <1>6, HandedUpHolds
<1> QED  BY <1>2, <1>7

LEMMA Joined ==
  ASSUME NEW S, NEW s \in Seq(S), NEW t \in Seq(S)
  PROVE  /\ s \o t \in Seq(S) /\ Len(s \o t) = Len(s) + Len(t)
         /\ \A i \in 1..Len(s) : (s \o t)[i] = s[i]
         /\ \A i \in 1..Len(t) : (s \o t)[Len(s) + i] = t[i]
  OBVIOUS

\* Packet p put after the first n of b.
PutAfter(b, n, p) == SubSeq(b, 1, n) \o <<p>> \o SubSeq(b, n + 1, Len(b))

LEMMA PutAfterItems ==
  ASSUME NEW S, NEW b \in Seq(S), NEW n \in 0..Len(b), NEW p \in S
  PROVE  /\ PutAfter(b, n, p) \in Seq(S)
         /\ Len(PutAfter(b, n, p)) = Len(b) + 1
         /\ \A i \in 1..n : PutAfter(b, n, p)[i] = b[i]
         /\ PutAfter(b, n, p)[n + 1] = p
         /\ \A i \in (n + 1)..Len(b) : PutAfter(b, n, p)[i + 1] = b[i]
<1> DEFINE head == SubSeq(b, 1, n)
           tail == SubSeq(b, n + 1, Len(b))
           L == Len(b)
           one == head \o <<p>>
           all == one \o tail
<1>0. PutAfter(b, n, p) = all  BY DEF PutAfter
<1>1. /\ L \in Nat /\ n \in 0..L
      /\ head \in Seq(S) /\ Len(head) = n /\ \A i \in 1..n : head[i] = b[i]
      /\ tail \in Seq(S) /\ Len(tail) = L - n /\ \A i \in 1..(L - n) : tail[i] = b[n + i]
  BY SplitAt
<1> HIDE DEF head, tail, L
<1>2. /\ one \in Seq(S) /\ Len(one) = n + 1
      /\ \A i \in 1..n : one[i] = head[i]
      /\ one[n + 1] = p
  BY <1>1
<1> HIDE DEF one
<1>3. /\ all \in Seq(S) /\ Len(all) = Len(one) + Len(tail)
      /\ \A i \in 1..Len(one) : all[i] = one[i]
      /\ \A i \in 1..Len(tail) : all[Len(one) + i] = tail[i]
  <2>1. all \in Seq(S)  BY <1>1, <1>2, Joined
  <2>2. Len(all) = Len(one) + Len(tail)  BY <1>1, <1>2, Joined
  <2>3. \A i \in 1..Len(one) : all[i] = one[i]  BY <1>1, <1>2, Joined
  <2>4. \A i \in 1..Len(tail) : all[Len(one) + i] = tail[i]  BY <1>1, <1>2, Joined
  <2> QED  BY <2>1, <2>2, <2>3, <2>4
<1> HIDE DEF all
<1>4. \A i \in 1..n : all[i] = b[i]
  BY <1>1, <1>2, <1>3
<1>5. all[n + 1] = p
  BY <1>1, <1>2, <1>3
<1>6. ASSUME NEW i \in (n + 1)..L  PROVE all[i + 1] = b[i]
  <2>1. PICK k \in 1..(L - n) : k = i - n  BY <1>1
  <2>2. n + 1 + k = i + 1 /\ n + k = i
    BY <1>1, <2>1
  <2>3. all[n + 1 + k] = tail[k]  BY <1>1, <1>2, <1>3
  <2>4. tail[k] = b[n + k]  BY <1>1
  <2> QED  BY <2>2, <2>3, <2>4
<1>7. Len(all) = L + 1  BY <1>1, <1>2, <1>3
<1>8. /\ all \in Seq(S) /\ Len(all) = Len(b) + 1
      /\ \A i \in 1..n : all[i] = b[i]
      /\ all[n + 1] = p
      /\ \A i \in (n + 1)..Len(b) : all[i + 1] = b[i]
  BY <1>3, <1>4, <1>5, <1>6, <1>7 DEF L
<1> QED  BY <1>0, <1>8

\* The position at which Insert puts packet p.
LEMMA InsertPosition ==
  ASSUME NEW b \in Seq(Packets), NEW start, NEW p
  PROVE  \E n \in 0..Len(b) :
           /\ Insert(b, start, p) = PutAfter(b, n, p)
           /\ \A i \in 1..n : Mapped(Control(b[i]), start) < Mapped(Control(p), start)
           /\ n < Len(b) => ~(Mapped(Control(b[n + 1]), start) < Mapped(Control(p), start))
<1> DEFINE L == Len(b)
           Smaller(i) == Mapped(Control(b[i]), start) < Mapped(Control(p), start)
           good == {i \in 1..L : Smaller(i)}
<1>1. L \in Nat  OBVIOUS
<1>2. PICK n \in 0..L : /\ n = Max({k \in 0..L : \A i \in 1..k : i \in good})
                        /\ \A i \in 1..n : i \in good
                        /\ n < L => n + 1 \notin good
  <2> HIDE DEF good
  <2> QED  BY <1>1, LongestPrefix
<1>3. {k \in 0..L : \A i \in 1..k : i \in good} = {k \in 0..L : \A i \in 1..k : Smaller(i)}
  BY <1>1
<1>4. Insert(b, start, p) = InsertAt(b, n + 1, p)
  BY <1>2, <1>3 DEF Insert, Prefix
<1>5. PICK k : k = n + 1  OBVIOUS
<1>6. k - 1 = n  BY <1>5
<1>7. InsertAt(b, k, p) = PutAfter(b, n, p)
  <2>1. InsertAt(b, k, p) = SubSeq(b, 1, k - 1) \o <<p>> \o SubSeq(b, k, Len(b))
    BY DEF InsertAt
  <2> QED  BY <1>5, <1>6, <2>1, Zenon DEF PutAfter
<1>8. n < L => ~Smaller(n + 1)
  <2>1. n < L => n + 1 \in 1..L  BY <1>1
  <2> QED  BY <1>2, <2>1
<1>9. \A i \in 1..n : Smaller(i)  BY <1>2
<1> HIDE DEF good
<1> QED  BY <1>4, <1>5, <1>7, <1>8, <1>9

LEMMA InsertAdds ==
  ASSUME NEW b \in Seq(Packets), NEW start, NEW p \in Packets
  PROVE  /\ Insert(b, start, p) \in Seq(Packets)
         /\ ToSet(Insert(b, start, p)) = ToSet(b) \cup {p}
<1>1. PICK n \in 0..Len(b) :
        Insert(b, start, p) = PutAfter(b, n, p)
  BY InsertPosition
<1> DEFINE all == Insert(b, start, p)
           L == Len(b)
<1>2. /\ all \in Seq(Packets) /\ Len(all) = L + 1
      /\ \A i \in 1..n : all[i] = b[i]
      /\ all[n + 1] = p
      /\ \A i \in (n + 1)..L : all[i + 1] = b[i]
  <2>1. /\ PutAfter(b, n, p) \in Seq(Packets)
        /\ Len(PutAfter(b, n, p)) = Len(b) + 1
        /\ \A i \in 1..n : PutAfter(b, n, p)[i] = b[i]
        /\ PutAfter(b, n, p)[n + 1] = p
        /\ \A i \in (n + 1)..Len(b) : PutAfter(b, n, p)[i + 1] = b[i]
    <3>1. PutAfter(b, n, p) \in Seq(Packets)  BY PutAfterItems
    <3>2. Len(PutAfter(b, n, p)) = Len(b) + 1  BY PutAfterItems
    <3>3. \A i \in 1..n : PutAfter(b, n, p)[i] = b[i]  BY PutAfterItems
    <3>4. PutAfter(b, n, p)[n + 1] = p  BY PutAfterItems
    <3>5. \A i \in (n + 1)..Len(b) : PutAfter(b, n, p)[i + 1] = b[i]  BY PutAfterItems
    <3> QED  BY <3>1, <3>2, <3>3, <3>4, <3>5
  <2> QED  BY <1>1, <2>1
<1>3. L \in Nat /\ DOMAIN b = 1..L /\ n \in 0..L  OBVIOUS
<1> HIDE DEF all, L
<1>4. DOMAIN all = 1..(L + 1)  BY <1>2
<1>5. ASSUME NEW k \in 1..(L + 1)  PROVE all[k] \in ToSet(b) \cup {p}
  <2>1. CASE k <= n  BY <1>2, <1>3, <2>1 DEF ToSet
  <2>2. CASE k = n + 1  BY <1>2, <2>2
  <2>3. CASE k > n + 1
    <3>1. PICK i \in (n + 1)..L : k = i + 1
      <4>1. k - 1 \in (n + 1)..L /\ k = (k - 1) + 1  BY <1>3, <2>3
      <4> QED  BY <4>1
    <3>2. i \in 1..L  BY <1>3
    <3> QED  BY <1>2, <1>3, <3>1, <3>2 DEF ToSet
  <2> QED  BY <1>3, <2>1, <2>2, <2>3
<1>6. ASSUME NEW i \in 1..L  PROVE b[i] \in ToSet(all)
  <2>1. CASE i <= n
    <3>1. i \in 1..(L + 1) /\ i \in 1..n  BY <1>3, <2>1
    <3> QED  BY <1>2, <1>4, <3>1 DEF ToSet
  <2>2. CASE ~(i <= n)
    <3>1. i + 1 \in 1..(L + 1) /\ i \in (n + 1)..L  BY <1>3, <2>2
    <3> QED  BY <1>2, <1>4, <3>1 DEF ToSet
  <2> QED  BY <2>1, <2>2
<1>7. p \in ToSet(all)
  <2>1. n + 1 \in 1..(L + 1)  BY <1>3
  <2> QED  BY <1>2, <1>4, <2>1 DEF ToSet
<1>8. ToSet(all) = ToSet(b) \cup {p}
  <2>1. ToSet(all) \subseteq ToSet(b) \cup {p}
    BY <1>4, <1>5 DEF ToSet
  <2>2. ToSet(b) \subseteq ToSet(all)
    BY <1>3, <1>6 DEF ToSet
  <2> QED  BY <1>7, <2>1, <2>2
<1> QED  BY <1>2, <1>8 DEF all

-----------------------------------------------------------------------------
(* Types, and what was acknowledged.                                       *)

RecipientType ==
  /\ agreement \in BOOLEAN /\ timerOk \in BOOLEAN /\ delba \in BOOLEAN
  /\ inactivity \in {"off", "running", "expired"} /\ stale \in Nat
  /\ startingSeq \in 0..(SeqSpace - 1)
  /\ buffer \in Seq(Packets) /\ rx \in Seq(Packets)
  /\ cache \subseteq Packets
  /\ sendBlockAck \in 0..(MaxPacket + 1)

OriginatorType ==
  /\ established \in BOOLEAN
  /\ outstanding \subseteq Packets /\ resend \subseteq outstanding
  /\ gaveUp \subseteq Packets
  /\ next \in 1..(MaxPacket + 1)
  /\ current \in Frames /\ teardowns \in 0..MaxTeardowns

LEMMA TypeParts == TypeOK <=> RecipientType /\ OriginatorType
  BY DEF TypeOK, RecipientType, OriginatorType

LEMMA NumberType == \A p \in Nat : p >= 1 => Number(p) \in 0..(SeqSpace - 1)
<1> SUFFICES ASSUME NEW p \in Nat, p >= 1  PROVE Number(p) \in 0..(SeqSpace - 1)
  OBVIOUS
<1>1. First + p - 1 \in Nat /\ SeqSpace \in Nat \ {0}  BY Constants
<1> QED  BY <1>1 DEF Number

\* The hand-ups leave what is held and what was passed up together.
LEMMA HandUpKeeps ==
  ASSUME RecipientType, AcknowledgedIsKept, NEW stored \in Seq(Packets), NEW seq,
         NEW f \in Forwarded(Reception(stored, startingSeq, rx), seq),
         ToSet(buffer) \subseteq ToSet(stored)
  PROVE  /\ f.buffer \in Seq(Packets) /\ f.rx \in Seq(Packets)
         /\ f.start \in 0..(SeqSpace - 1)
         /\ ToSet(f.buffer) \cup ToSet(f.rx) = ToSet(stored) \cup ToSet(rx)
<1> DEFINE r == Reception(stored, startingSeq, rx)
<1>1. r.buffer = stored /\ r.rx = rx /\ r.start = startingSeq  BY DEF Reception
<1>2. Holds(r)  BY <1>1 DEF RecipientType, Holds
<1> HIDE DEF r
<1>3. f \in Forwarded(r, seq)  BY DEF r
<1> QED  BY <1>1, <1>2, <1>3, ForwardedHolds DEF Holds

LEMMA TimerReset ==
  ASSUME RecipientType, ResetBlockAckInactivityTimerIfNeeded
  PROVE  inactivity' \in {"off", "running", "expired"} /\ timerOk' \in BOOLEAN
  BY DEF RecipientType, ResetBlockAckInactivityTimerIfNeeded

LEMMA BlockAckDataKept ==
  ASSUME RecipientType, AcknowledgedIsKept, NEW p \in Packets, ReceiveBlockAckData(p)
  PROVE  RecipientType' /\ AcknowledgedIsKept'
<1>1. CASE agreement
  <2>1. /\ buffer' \in Seq(Packets) /\ ToSet(buffer') = ToSet(buffer) \cup {p}
    BY <1>1, InsertAdds DEF ReceiveBlockAckData, RecipientType
  <2>2. cache' = cache \cup {p}
        /\ UNCHANGED <<agreement, startingSeq, sendBlockAck, rx, stale, delba>>
    BY <1>1 DEF ReceiveBlockAckData
  <2>3. inactivity' \in {"off", "running", "expired"} /\ timerOk' \in BOOLEAN
    BY <1>1, TimerReset DEF ReceiveBlockAckData
  <2>4. RecipientType'  BY <2>1, <2>2, <2>3 DEF RecipientType
  <2>5. AcknowledgedIsKept'  BY <2>1, <2>2 DEF AcknowledgedIsKept
  <2> QED  BY <2>4, <2>5
<1>2. CASE ~agreement
  BY <1>2 DEF ReceiveBlockAckData, RecipientType, AcknowledgedIsKept
<1> QED  BY <1>1, <1>2 DEF RecipientType

LEMMA NormalDataKept ==
  ASSUME RecipientType, AcknowledgedIsKept, NEW p \in Packets, ReceiveNormalData(p)
  PROVE  RecipientType' /\ AcknowledgedIsKept'
<1>1. CASE agreement
  <2> DEFINE stored == Insert(buffer, startingSeq, p)
  <2>1. stored \in Seq(Packets) /\ ToSet(stored) = ToSet(buffer) \cup {p}
    BY InsertAdds DEF RecipientType
  <2>2. /\ ForwardUp(Reception(stored, startingSeq, rx), startingSeq)
        /\ cache' = cache \cup {p} /\ UNCHANGED <<agreement, sendBlockAck, timerVars>>
    BY <1>1 DEF ReceiveNormalData
  <2> HIDE DEF stored
  <2>3. PICK f \in Forwarded(Reception(stored, startingSeq, rx), startingSeq) :
               buffer' = f.buffer /\ startingSeq' = f.start /\ rx' = f.rx
    BY <2>2 DEF ForwardUp
  <2>4. /\ buffer' \in Seq(Packets) /\ rx' \in Seq(Packets)
        /\ startingSeq' \in 0..(SeqSpace - 1)
        /\ ToSet(buffer') \cup ToSet(rx') = ToSet(stored) \cup ToSet(rx)
    BY <2>1, <2>3, HandUpKeeps
  <2>5. RecipientType'  BY <2>2, <2>4 DEF RecipientType, timerVars
  <2>6. AcknowledgedIsKept'  BY <2>1, <2>2, <2>4 DEF AcknowledgedIsKept
  <2> QED  BY <2>5, <2>6
<1>2. CASE ~agreement
  <2>1. /\ rx' = PassUp(rx, <<p>>)
        /\ UNCHANGED <<buffer, startingSeq, cache, agreement, sendBlockAck, timerVars>>
    BY <1>2 DEF ReceiveNormalData
  <2>2. <<p>> \in Seq(Packets) /\ rx \in Seq(Packets)  BY DEF RecipientType
  <2>3. rx' \in Seq(Packets) /\ ToSet(rx) \subseteq ToSet(rx')
    <3>1. PICK up \in Seq(Packets) : up = rx  BY <2>2
    <3>2. PICK one \in Seq(Packets) : one = <<p>>  BY <2>2
    <3>3. PassUp(up, one) \in Seq(Packets)  BY PassUpAdds
    <3>4. ToSet(PassUp(up, one)) = ToSet(up) \cup ToSet(one)  BY PassUpAdds
    <3> QED  BY <2>1, <3>1, <3>2, <3>3, <3>4
  <2>4. RecipientType'  BY <2>1, <2>3 DEF RecipientType, timerVars
  <2>5. AcknowledgedIsKept'  BY <2>1, <2>3 DEF AcknowledgedIsKept
  <2> QED  BY <2>4, <2>5
<1> QED  BY <1>1, <1>2 DEF RecipientType

LEMMA RequestKept ==
  ASSUME RecipientType, AcknowledgedIsKept, NEW p \in 1..(MaxPacket + 1),
         ReceiveBlockAckRequest(p)
  PROVE  RecipientType' /\ AcknowledgedIsKept'
<1>1. UNCHANGED <<agreement, startingSeq, buffer, rx, stale, delba>> /\ cache' \subseteq cache
  BY DEF ReceiveBlockAckRequest
<1>2. inactivity' \in {"off", "running", "expired"} /\ timerOk' \in BOOLEAN
  BY TimerReset DEF ReceiveBlockAckRequest, RecipientType
<1>3. sendBlockAck' \in 0..(MaxPacket + 1)
  BY Constants DEF ReceiveBlockAckRequest, RecipientType
<1> QED  BY <1>1, <1>2, <1>3 DEF RecipientType, AcknowledgedIsKept

\* The end of an agreement: nothing stays acknowledged.
LEMMA DestroyKept ==
  ASSUME RecipientType, AcknowledgedIsKept, DestroyBlockAckAgreement,
         timerOk' \in BOOLEAN, delba' \in BOOLEAN, UNCHANGED <<sendBlockAck, stale>>
  PROVE  RecipientType' /\ AcknowledgedIsKept'
<1>1. CASE agreement
  <2>1. PICK f \in Forwarded(Now, startingSeq) : rx' = f.rx
    BY <1>1 DEF DestroyBlockAckAgreement
  <2>2. rx' \in Seq(Packets)
    BY <2>1, HandUpKeeps DEF Now, RecipientType
  <2>3. << >> \in Seq(Packets) /\ 0 \in 0..(SeqSpace - 1)  BY Constants
  <2> QED  BY <1>1, <2>2, <2>3 DEF DestroyBlockAckAgreement, RecipientType, AcknowledgedIsKept
<1>2. CASE ~agreement
  BY <1>2 DEF DestroyBlockAckAgreement, RecipientType, AcknowledgedIsKept
<1> QED  BY <1>1, <1>2 DEF RecipientType

LEMMA RecipientUnchanged ==
  ASSUME RecipientType, AcknowledgedIsKept, UNCHANGED recipientVars
  PROVE  RecipientType' /\ AcknowledgedIsKept'
  BY DEF RecipientType, AcknowledgedIsKept, recipientVars, timerVars

LEMMA FrameTypes ==
  /\ NoFrame \in Frames
  /\ \A p \in 1..(MaxPacket + 1) : Bar(p) \in Frames
  /\ \A p \in Packets, n \in 1..MaxTries : Data(p, n) \in Frames
  BY DEF Frames

LEMMA TearDownType ==
  ASSUME OriginatorType, TearDown, UNCHANGED <<next, current>>, teardowns' \in 0..MaxTeardowns
  PROVE  OriginatorType'
  BY DEF OriginatorType, TearDown

LEMMA StepKeeps ==
  ASSUME RecipientType, OriginatorType, AcknowledgedIsKept, [Next]_vars
  PROVE  RecipientType' /\ OriginatorType' /\ AcknowledgedIsKept'
<1> USE Constants
<1>1. ASSUME NEW p \in Packets, NEW got \in BOOLEAN, SendBlockAckData(p, got)
      PROVE  RecipientType' /\ OriginatorType' /\ AcknowledgedIsKept'
  <2>1. RecipientType' /\ AcknowledgedIsKept'
    BY <1>1, BlockAckDataKept, RecipientUnchanged DEF SendBlockAckData
  <2>2. OriginatorType'
    BY <1>1 DEF SendBlockAckData, OriginatorType
  <2> QED  BY <2>1, <2>2
<1>2. ASSUME NEW p \in Packets, NEW got \in BOOLEAN, NEW acked \in BOOLEAN,
             SendNormalData(p, got, acked)
      PROVE  RecipientType' /\ OriginatorType' /\ AcknowledgedIsKept'
  <2>1. RecipientType' /\ AcknowledgedIsKept'
    BY <1>2, NormalDataKept, RecipientUnchanged DEF SendNormalData
  <2>2. current' \in Frames
    <3>1. CASE current = NoFrame
      <4>1. current.tries + 1 \in 1..MaxTries  BY <3>1 DEF NoFrame
      <4> QED  BY <1>2, <4>1, FrameTypes DEF SendNormalData
    <3>2. CASE \E n \in 1..(MaxTries - 1) : current = Data(p, n)
      <4>1. PICK n \in 1..(MaxTries - 1) : current = Data(p, n)  BY <3>2
      <4>2. current.tries = n  BY <4>1 DEF Data
      <4>3. current.tries + 1 \in 1..MaxTries  BY <4>2
      <4> QED  BY <1>2, <4>3, FrameTypes DEF SendNormalData
    <3> QED  BY <1>2, <3>1, <3>2 DEF SendNormalData
  <2>3. next' \in 1..(MaxPacket + 1)
    BY <1>2 DEF SendNormalData, OriginatorType
  <2>4. OriginatorType'
    BY <1>2, <2>2, <2>3 DEF SendNormalData, OriginatorType
  <2> QED  BY <2>1, <2>4
<1>3. ASSUME NEW p \in 1..(MaxPacket + 1), NEW got \in BOOLEAN, SendBlockAckRequest(p, got)
      PROVE  RecipientType' /\ OriginatorType' /\ AcknowledgedIsKept'
  <2>1. RecipientType' /\ AcknowledgedIsKept'
    BY <1>3, RequestKept, RecipientUnchanged DEF SendBlockAckRequest
  <2>2. OriginatorType'
    BY <1>3, FrameTypes DEF SendBlockAckRequest, OriginatorType
  <2> QED  BY <2>1, <2>2
<1>4. ASSUME NEW heard \in BOOLEAN, SendBlockAckAfterBlockAckRequest(heard)
      PROVE  RecipientType' /\ OriginatorType' /\ AcknowledgedIsKept'
  <2>1. PICK f \in Forwarded(Now, Number(sendBlockAck)) :
               buffer' = f.buffer /\ startingSeq' = f.start /\ rx' = f.rx
    BY <1>4 DEF SendBlockAckAfterBlockAckRequest, ForwardUp
  <2>2. /\ buffer' \in Seq(Packets) /\ rx' \in Seq(Packets)
        /\ startingSeq' \in 0..(SeqSpace - 1)
        /\ ToSet(buffer') \cup ToSet(rx') = ToSet(buffer) \cup ToSet(rx)
    <3>1. buffer \in Seq(Packets)  BY DEF RecipientType
    <3> QED  BY <2>1, <3>1, HandUpKeeps DEF Now
  <2>3. sendBlockAck' = 0 /\ UNCHANGED <<agreement, cache, timerVars>>
    BY <1>4 DEF SendBlockAckAfterBlockAckRequest
  <2>4. RecipientType' /\ AcknowledgedIsKept'
    BY <2>2, <2>3 DEF RecipientType, AcknowledgedIsKept, timerVars
  <2>5. OriginatorType'
    BY <1>4, FrameTypes DEF SendBlockAckAfterBlockAckRequest, OriginatorType
  <2> QED  BY <2>4, <2>5
<1>5. ASSUME LifetimeEnds  PROVE RecipientType' /\ OriginatorType' /\ AcknowledgedIsKept'
  <2>1. Min(outstanding) \in Packets
    <3>1. outstanding \in SUBSET Nat /\ outstanding # {} /\ outstanding \subseteq Packets
      BY <1>5 DEF LifetimeEnds, OriginatorType
    <3> QED  BY <3>1, Least
  <2>2. RecipientType' /\ AcknowledgedIsKept'
    BY <1>5, RecipientUnchanged DEF LifetimeEnds
  <2>3. OriginatorType'
    BY <1>5, <2>1 DEF LifetimeEnds, OriginatorType
  <2> QED  BY <2>2, <2>3
<1>6. ASSUME FinalDataFailed  PROVE RecipientType' /\ OriginatorType' /\ AcknowledgedIsKept'
  <2>1. current.packet \in Packets  BY <1>6 DEF FinalDataFailed, Data
  <2>2. RecipientType' /\ AcknowledgedIsKept'
    BY <1>6, RecipientUnchanged DEF FinalDataFailed
  <2>3. OriginatorType'
    BY <1>6, <2>1, FrameTypes DEF FinalDataFailed, OriginatorType
  <2> QED  BY <2>2, <2>3
<1>7. ASSUME SetupBlockAck  PROVE RecipientType' /\ OriginatorType' /\ AcknowledgedIsKept'
  <2>1. CreateBlockAckAgreement(next) /\ next \in Nat /\ next >= 1
    BY <1>7 DEF SetupBlockAck, OriginatorType
  <2>2. Number(next) \in 0..(SeqSpace - 1) /\ << >> \in Seq(Packets)  BY <2>1, NumberType
  <2>3. RecipientType'
    <3>1. stale' \in Nat  BY <2>1 DEF CreateBlockAckAgreement, RecipientType
    <3>2. inactivity' \in {"off", "running", "expired"}
      BY <2>1 DEF CreateBlockAckAgreement, RecipientType
    <3> QED  BY <2>1, <2>2, <3>1, <3>2 DEF CreateBlockAckAgreement, RecipientType
  <2>4. AcknowledgedIsKept'
    BY <2>1 DEF CreateBlockAckAgreement, AcknowledgedIsKept
  <2>5. OriginatorType'
    BY <1>7 DEF SetupBlockAck, OriginatorType
  <2> QED  BY <2>3, <2>4, <2>5
<1>8. ASSUME NEW acked \in BOOLEAN, OriginatorDelba(acked)
      PROVE  RecipientType' /\ OriginatorType' /\ AcknowledgedIsKept'
  <2>1. RecipientType' /\ AcknowledgedIsKept'
    BY <1>8, DestroyKept DEF OriginatorDelba, RecipientType
  <2>2. teardowns' \in 0..MaxTeardowns
    BY <1>8 DEF OriginatorDelba, OriginatorType
  <2>3. OriginatorType'
    BY <1>8, <2>2, TearDownType DEF OriginatorDelba, OriginatorType
  <2> QED  BY <2>1, <2>3
<1>9. ASSUME NEW got \in BOOLEAN, NEW acked \in BOOLEAN, RecipientDelba(got, acked)
      PROVE  RecipientType' /\ OriginatorType' /\ AcknowledgedIsKept'
  <2>1. RecipientType' /\ AcknowledgedIsKept'
    <3>1. CASE got /\ acked
      BY <1>9, <3>1, DestroyKept DEF RecipientDelba, RecipientType
    <3>2. CASE ~(got /\ acked)
      BY <1>9, <3>2 DEF RecipientDelba, RecipientType, AcknowledgedIsKept
    <3> QED  BY <3>1, <3>2
  <2>2. OriginatorType'
    BY <1>9, TearDownType DEF RecipientDelba, OriginatorType
  <2> QED  BY <2>1, <2>2
<1>10. ASSUME BlockAckInactivityTimeout
       PROVE  RecipientType' /\ OriginatorType' /\ AcknowledgedIsKept'
  BY <1>10 DEF BlockAckInactivityTimeout, RecipientType, OriginatorType, AcknowledgedIsKept
<1>11. ASSUME OverwrittenTimeout
       PROVE  RecipientType' /\ OriginatorType' /\ AcknowledgedIsKept'
  BY <1>11 DEF OverwrittenTimeout, originatorVars, RecipientType, OriginatorType,
               AcknowledgedIsKept
<1>12. ASSUME UNCHANGED vars  PROVE RecipientType' /\ OriginatorType' /\ AcknowledgedIsKept'
  <2>1. UNCHANGED recipientVars /\ UNCHANGED originatorVars  BY <1>12 DEF vars
  <2>2. OriginatorType'  BY <2>1 DEF originatorVars, OriginatorType
  <2> QED  BY <2>1, <2>2, RecipientUnchanged
<1> QED
  BY <1>1, <1>2, <1>3, <1>4, <1>5, <1>6, <1>7, <1>8, <1>9, <1>10, <1>11, <1>12 DEF Next

LEMMA TypesAndKept == Spec => [](TypeOK /\ AcknowledgedIsKept)
<1>1. Init => RecipientType /\ OriginatorType /\ AcknowledgedIsKept
  <2> SUFFICES ASSUME Init  PROVE RecipientType /\ OriginatorType /\ AcknowledgedIsKept
    OBVIOUS
  <2>1. << >> \in Seq(Packets) /\ 0 \in 0..(SeqSpace - 1) /\ 1 \in 1..(MaxPacket + 1)
        /\ 0 \in 0..(MaxPacket + 1) /\ 0 \in 0..MaxTeardowns
    BY Constants
  <2> QED
    BY <2>1, FrameTypes DEF Init, RecipientType, OriginatorType, AcknowledgedIsKept
<1>2. RecipientType /\ OriginatorType /\ AcknowledgedIsKept /\ [Next]_vars
        => RecipientType' /\ OriginatorType' /\ AcknowledgedIsKept'
  BY StepKeeps
<1>3. RecipientType /\ OriginatorType /\ AcknowledgedIsKept => TypeOK /\ AcknowledgedIsKept
  BY TypeParts
<1> QED  BY <1>1, <1>2, <1>3, PTL DEF Spec

\* The variables of both ends keep their types: no starting sequence number leaves
\* its space, and no packet is named that was not sent.
THEOREM TypeCorrect == Spec => []TypeOK
  BY TypesAndKept, PTL

\* What the bitmap reports as received has gone up or waits in the buffer, while
\* the agreement stands (mac-low.cc, SendBlockAckAfterBlockAckRequest), whatever
\* the sequence numbers do.
THEOREM AcknowledgedKept == Spec => []AcknowledgedIsKept
  BY TypesAndKept, PTL

-----------------------------------------------------------------------------
(* Flows whose sequence numbers stay in the lower half of their space:     *)
(* Mapped keeps their order, for numbers and for controls.                 *)

NoWrap == First + MaxPacket < SeqSpace \div 2

Half == SeqSpace \div 2

LEMMA HalfOf == Half \in Nat /\ SeqSpace = Half + Half /\ (NoWrap => First + MaxPacket < Half)
<1>1. SeqSpace \in Nat \ {0} /\ SeqSpace % 2 = 0  BY ConstantsAssumption
<1> QED  BY <1>1 DEF Half, NoWrap

LEMMA NumberIs ==
  ASSUME NoWrap, NEW p \in 1..(MaxPacket + 1)
  PROVE  Number(p) = First + p - 1 /\ Number(p) \in First..(First + MaxPacket)
                    /\ Number(p) \in 0..(Half - 1)
<1>1. First + p - 1 \in 0..(SeqSpace - 1) /\ SeqSpace \in Nat \ {0}
  BY Constants, HalfOf
<1> QED  BY <1>1, Constants, HalfOf DEF Number

LEMMA Remainder == \A x \in Nat, s \in Nat : x < s => x % s = x
  OBVIOUS

\* Quotient and remainder.
LEMMA Division ==
  ASSUME NEW c \in Nat, NEW f \in Nat \ {0}
  PROVE  /\ c \div f \in Nat /\ c % f \in Nat /\ c \div f <= c
         /\ c = (c \div f) * f + (c % f)
<1>1. c \div f \in Nat /\ c % f \in Nat  OBVIOUS
<1>2. c = (c \div f) * f + (c % f)  OBVIOUS
<1>3. c \div f <= c  OBVIOUS
<1> QED  BY <1>1, <1>2, <1>3

LEMMA Distributes ==
  \A a \in Nat, b \in Nat, f \in Nat : (a + b) * f = a * f + b * f /\ a * f \in Nat
  OBVIOUS

\* From a start in the lower half, Mapped adds a constant to such a field.
LEMMA MappedIs ==
  ASSUME NEW start \in 0..(Half - 1), NEW ctl \in Nat, ctl \div FragSpace < Half
  PROVE  Mapped(ctl, start) = (Half - start) * FragSpace + ctl
<1>1. /\ FragSpace \in Nat \ {0} /\ SeqSpace \in Nat \ {0} /\ Half \in Nat
      /\ SeqSpace = Half + Half
  BY Constants, HalfOf
<1>2. PICK q \in Nat : q = ctl \div FragSpace  BY <1>1, Division
<1>3. PICK m \in Nat : m = ctl % FragSpace  BY <1>1, Division
<1>4. ctl = q * FragSpace + m  BY <1>1, <1>2, <1>3, Division
<1>5. (start + SeqSpace \div 2 - 1) % SeqSpace = start + Half - 1
  <2>1. start + Half - 1 \in Nat /\ start + Half - 1 < SeqSpace  BY <1>1
  <2>2. (start + Half - 1) % SeqSpace = start + Half - 1  BY <1>1, <2>1, Remainder
  <2> QED  BY <2>2 DEF Half
<1>6. (SeqSpace - (start + Half - 1 + 1) + q) % SeqSpace = Half - start + q
  <2>1. SeqSpace - (start + Half - 1 + 1) + q = Half - start + q  BY <1>1
  <2>2. Half - start + q \in Nat /\ Half - start + q < SeqSpace  BY <1>1, <1>2
  <2> QED  BY <1>1, <2>1, <2>2, Remainder
<1>7. Mapped(ctl, start) = (Half - start + q) * FragSpace + m
  BY <1>2, <1>3, <1>5, <1>6 DEF Mapped
<1>8. (Half - start + q) * FragSpace = (Half - start) * FragSpace + q * FragSpace
  BY <1>1, Distributes
<1>9. (Half - start) * FragSpace \in Nat /\ q * FragSpace \in Nat
  BY <1>1, Distributes
<1> QED  BY <1>4, <1>7, <1>8, <1>9

\* Sequence numbers keep their order.
LEMMA NumbersOrdered ==
  ASSUME NEW start \in 0..(Half - 1), NEW a \in 0..(Half - 1), NEW b \in 0..(Half - 1)
  PROVE  Mapped(a, start) < Mapped(b, start) <=> a < b
<1>1. FragSpace \in Nat \ {0} /\ Half \in Nat  BY Constants, HalfOf
<1>2. a \div FragSpace < Half /\ b \div FragSpace < Half
  <2>1. \A c \in Nat : c \div FragSpace \in Nat /\ c \div FragSpace <= c  BY <1>1, Division
  <2> QED  BY <1>1, <2>1
<1>3. PICK k \in Nat : k = (Half - start) * FragSpace  BY <1>1, Distributes
<1>4. \A c \in 0..(Half - 1) : c \div FragSpace < Half => Mapped(c, start) = k + c
  BY <1>1, <1>3, MappedIs
<1> QED  BY <1>1, <1>2, <1>4

\* So do sequence controls.
LEMMA ControlsOrdered ==
  ASSUME NoWrap, NEW start \in 0..(Half - 1),
         NEW p \in 1..(MaxPacket + 1), NEW q \in 1..(MaxPacket + 1)
  PROVE  Mapped(Control(p), start) < Mapped(Control(q), start) <=> p < q
<1>1. FragSpace \in Nat \ {0} /\ Half \in Nat /\ First \in Nat  BY Constants, HalfOf
<1>2. \A a \in 0..(Half - 1) : a * FragSpace \in Nat /\ (a * FragSpace) \div FragSpace < Half
  <2> SUFFICES ASSUME NEW a \in 0..(Half - 1)
               PROVE  a * FragSpace \in Nat /\ (a * FragSpace) \div FragSpace < Half
    OBVIOUS
  <2>1. \A f \in Nat \ {0} : (a * f) \div f = a  OBVIOUS
  <2>2. a * FragSpace \in Nat  BY <1>1, Distributes
  <2> QED  BY <1>1, <2>1, <2>2
<1>3. PICK k \in Nat : k = (Half - start) * FragSpace  BY <1>1, Distributes
<1>4. PICK a \in 0..(Half - 1) : a = Number(p) /\ a = First + p - 1  BY NumberIs
<1>5. PICK b \in 0..(Half - 1) : b = Number(q) /\ b = First + q - 1  BY NumberIs
<1>6. Mapped(Control(p), start) = k + a * FragSpace
  BY <1>2, <1>3, <1>4, MappedIs DEF Control
<1>7. Mapped(Control(q), start) = k + b * FragSpace
  BY <1>2, <1>3, <1>5, MappedIs DEF Control
<1>8. a * FragSpace < b * FragSpace <=> a < b
  <2>1. \A x \in Nat, y \in Nat, f \in Nat \ {0} : x < y => x * f < y * f  OBVIOUS
  <2>2. \A x \in Nat, y \in Nat, f \in Nat \ {0} : y <= x => y * f <= x * f  OBVIOUS
  <2>3. a * FragSpace \in Nat /\ b * FragSpace \in Nat  BY <1>2
  <2>4. a < b => a * FragSpace < b * FragSpace  BY <1>1, <2>1
  <2>5. b <= a => b * FragSpace <= a * FragSpace  BY <1>1, <2>2
  <2> QED  BY <2>3, <2>4, <2>5
<1>9. a * FragSpace \in Nat /\ b * FragSpace \in Nat  BY <1>2
<1>10. Mapped(Control(p), start) < Mapped(Control(q), start) <=> a < b
  BY <1>6, <1>7, <1>8, <1>9
<1> QED  BY <1>1, <1>4, <1>5, <1>10

-----------------------------------------------------------------------------
(* The buffer stays sorted, and what is handed up precedes what is kept.   *)

LEMMA PacketList ==
  ASSUME NEW s \in Seq(Packets)
  PROVE  /\ s \in Seq(Nat) /\ Len(s) \in Nat /\ DOMAIN s = 1..Len(s)
         /\ \A i \in 1..Len(s) : s[i] \in 1..MaxPacket /\ s[i] \in Packets
<1>1. Len(s) \in Nat /\ DOMAIN s = 1..Len(s)  OBVIOUS
<1>2. \A i \in 1..Len(s) : s[i] \in Packets  OBVIOUS
<1>3. Packets = 1..MaxPacket /\ 1..MaxPacket \subseteq Nat  BY DEF Packets
<1>4. s \in Seq(Nat)
  <2>1. \A i \in 1..Len(s) : s[i] \in Nat  BY <1>2, <1>3
  <2>2. s = [i \in 1..Len(s) |-> s[i]]  OBVIOUS
  <2> QED  BY <1>1, <2>1, <2>2
<1> QED  BY <1>1, <1>2, <1>3, <1>4

\* The order the recipient keeps: what went up is increasing, what waits is sorted,
\* and nothing that waits is older than what went up.
OrderKept(r) ==
  Increasing(r.rx) /\ Sorted(r.buffer) /\ Follows(r.buffer, r.rx)

LEMMA InsertSorted ==
  ASSUME NoWrap, NEW b \in Seq(Packets), Sorted(b), NEW start \in 0..(Half - 1),
         NEW p \in Packets
  PROVE  Sorted(Insert(b, start, p))
<1>1. PICK n \in 0..Len(b) :
        /\ Insert(b, start, p) = PutAfter(b, n, p)
        /\ \A i \in 1..n : Mapped(Control(b[i]), start) < Mapped(Control(p), start)
        /\ n < Len(b) => ~(Mapped(Control(b[n + 1]), start) < Mapped(Control(p), start))
  BY InsertPosition
<1> DEFINE L == Len(b)
<1>2. L \in Nat /\ DOMAIN b = 1..L /\ \A i \in 1..L : b[i] \in 1..MaxPacket
  BY PacketList
<1>3. p \in 1..MaxPacket /\ MaxPacket \in Nat /\ 1..MaxPacket \subseteq 1..(MaxPacket + 1)
  BY Constants
<1>4. \A q \in 1..MaxPacket : Mapped(Control(q), start) < Mapped(Control(p), start) <=> q < p
  BY <1>3, ControlsOrdered
<1> HIDE DEF L
<1>5. \A i \in 1..n : b[i] < p
  <2>1. \A i \in 1..n : i \in 1..L  BY <1>2 DEF L
  <2> QED  BY <1>1, <1>2, <1>4, <2>1
<1>6. ASSUME NEW i \in (n + 1)..L  PROVE p <= b[i]
  <2>1. n + 1 \in 1..L /\ i \in 1..L /\ n < Len(b)  BY <1>2 DEF L
  <2>2. ~(b[n + 1] < p)  BY <1>1, <1>2, <1>4, <2>1
  <2>3. b[n + 1] <= b[i]
    <3>1. CASE i = n + 1  BY <1>2, <2>1, <3>1
    <3>2. CASE i # n + 1
      <4>1. n + 1 < i  BY <1>2, <3>2
      <4> QED  BY <1>2, <2>1, <4>1 DEF Sorted
    <3> QED  BY <3>1, <3>2
  <2> QED  BY <1>2, <1>3, <2>1, <2>2, <2>3
<1> DEFINE all == PutAfter(b, n, p)
<1>7. /\ all \in Seq(Packets) /\ Len(all) = L + 1
      /\ \A i \in 1..n : all[i] = b[i]
      /\ all[n + 1] = p
      /\ \A i \in (n + 1)..L : all[i + 1] = b[i]
  <2>1. all \in Seq(Packets)  BY PutAfterItems
  <2>2. Len(all) = L + 1  BY PutAfterItems DEF L
  <2>3. \A i \in 1..n : all[i] = b[i]  BY PutAfterItems
  <2>4. all[n + 1] = p  BY PutAfterItems
  <2>5. \A i \in (n + 1)..L : all[i + 1] = b[i]  BY PutAfterItems DEF L
  <2> QED  BY <2>1, <2>2, <2>3, <2>4, <2>5
<1> HIDE DEF all
<1>8. DOMAIN all = 1..(L + 1)  BY <1>2, <1>7
<1>9. n \in 0..L  BY DEF L
<1>10. \A k \in (n + 2)..(L + 1) : k - 1 \in (n + 1)..L /\ all[k] = b[k - 1]
  <2> SUFFICES ASSUME NEW k \in (n + 2)..(L + 1)
               PROVE  k - 1 \in (n + 1)..L /\ all[k] = b[k - 1]
    OBVIOUS
  <2>1. PICK i \in (n + 1)..L : i = k - 1 /\ i + 1 = k  BY <1>2, <1>9
  <2> QED  BY <1>7, <2>1
<1>11. ASSUME NEW i \in 1..(L + 1), NEW j \in 1..(L + 1), i < j
       PROVE  all[i] <= all[j]
  <2>1. CASE i <= n /\ j <= n
    <3>1. i \in 1..n /\ j \in 1..n /\ i \in DOMAIN b /\ j \in DOMAIN b
      BY <1>2, <1>9, <2>1
    <3> QED  BY <1>7, <1>11, <3>1 DEF Sorted
  <2>2. CASE i <= n /\ j = n + 1
    <3>1. i \in 1..n /\ i \in 1..L  BY <1>2, <1>9, <2>2
    <3> QED  BY <1>2, <1>3, <1>5, <1>7, <2>2, <3>1
  <2>3. CASE i <= n /\ j > n + 1
    <3>1. i \in 1..n /\ i \in 1..L /\ j \in (n + 2)..(L + 1)  BY <1>2, <1>9, <2>3
    <3>2. j - 1 \in (n + 1)..L /\ j - 1 \in 1..L  BY <1>2, <1>9, <1>10, <3>1
    <3>3. b[i] < p /\ p <= b[j - 1]  BY <1>5, <1>6, <3>1, <3>2
    <3>4. all[i] = b[i] /\ all[j] = b[j - 1]  BY <1>7, <1>10, <3>1
    <3> QED  BY <1>2, <1>3, <3>1, <3>2, <3>3, <3>4
  <2>4. CASE i = n + 1
    <3>1. j \in (n + 2)..(L + 1)  BY <1>2, <1>9, <1>11, <2>4
    <3> QED  BY <1>6, <1>7, <1>10, <2>4, <3>1
  <2>5. CASE i > n + 1
    <3>1. i \in (n + 2)..(L + 1) /\ j \in (n + 2)..(L + 1)
      BY <1>2, <1>9, <1>11, <2>5
    <3>2. i - 1 \in 1..L /\ j - 1 \in 1..L /\ i - 1 < j - 1
      BY <1>2, <1>9, <1>10, <1>11, <3>1
    <3> QED  BY <1>2, <1>10, <3>1, <3>2 DEF Sorted
  <2> QED  BY <1>2, <1>9, <2>1, <2>2, <2>3, <2>4, <2>5
<1>12. Sorted(all)  BY <1>8, <1>11 DEF Sorted
<1> QED  BY <1>1, <1>12 DEF all

\* A packet not below what went up may be put anywhere in what waits.
LEMMA InsertFollows ==
  ASSUME NEW b \in Seq(Packets), NEW up \in Seq(Packets), Follows(b, up),
         NEW start, NEW p \in Packets, \A i \in DOMAIN up : up[i] <= p
  PROVE  Follows(Insert(b, start, p), up)
<1> SUFFICES ASSUME NEW i \in DOMAIN up, NEW j \in DOMAIN Insert(b, start, p)
             PROVE  up[i] <= Insert(b, start, p)[j]
  BY DEF Follows
<1>1. Insert(b, start, p)[j] \in ToSet(b) \cup {p}
  <2>1. Insert(b, start, p)[j] \in ToSet(Insert(b, start, p))  BY DEF ToSet
  <2> QED  BY <2>1, InsertAdds
<1>2. CASE Insert(b, start, p)[j] = p  BY <1>2
<1>3. CASE Insert(b, start, p)[j] \in ToSet(b)
  <2>1. PICK k \in DOMAIN b : Insert(b, start, p)[j] = b[k]  BY <1>3 DEF ToSet
  <2> QED  BY <2>1 DEF Follows
<1> QED  BY <1>1, <1>2, <1>3

LEMMA HandedUpOrdered ==
  ASSUME NEW r, Holds(r), OrderKept(r), NEW n \in 0..Len(r.buffer),
         NEW start \in 0..(SeqSpace - 1)
  PROVE  OrderKept(HandedUp(r, n, start))
<1> DEFINE b == r.buffer
           L == Len(b)
           head == SubSeq(b, 1, n)
           tail == SubSeq(b, n + 1, Len(b))
           up == PassUp(r.rx, head)
<1>1. HandedUp(r, n, start).buffer = tail /\ HandedUp(r, n, start).rx = up
  BY DEF HandedUp, Reception
<1>2. /\ b \in Seq(Packets) /\ r.rx \in Seq(Packets) /\ n \in 0..Len(b)
      /\ Sorted(b) /\ Increasing(r.rx) /\ Follows(b, r.rx)
  BY DEF Holds, OrderKept
<1> HIDE DEF b
<1>3. /\ L \in Nat /\ DOMAIN b = 1..L /\ n \in 0..L
      /\ head \in Seq(Packets) /\ tail \in Seq(Packets)
      /\ DOMAIN head = 1..n /\ DOMAIN tail = 1..(L - n)
      /\ \A i \in 1..n : head[i] = b[i]
      /\ \A i \in 1..(L - n) : tail[i] = b[n + i]
      /\ \A i \in 1..L : b[i] \in Nat
  <2>1. L \in Nat /\ DOMAIN b = 1..L /\ n \in 0..L  BY <1>2, PacketList
  <2>2. /\ head \in Seq(Packets) /\ Len(head) = n
        /\ \A i \in 1..n : head[i] = b[i]
    <3>1. head \in Seq(Packets)  BY <1>2, SplitAt
    <3>2. Len(head) = n  BY <1>2, SplitAt
    <3>3. \A i \in 1..n : head[i] = b[i]  BY <1>2, SplitAt
    <3> QED  BY <3>1, <3>2, <3>3
  <2>3. /\ tail \in Seq(Packets) /\ Len(tail) = L - n
        /\ \A i \in 1..(L - n) : tail[i] = b[n + i]
    <3>1. tail \in Seq(Packets)  BY <1>2, SplitAt
    <3>2. Len(tail) = L - n  BY <1>2, SplitAt
    <3>3. \A i \in 1..(L - n) : tail[i] = b[n + i]  BY <1>2, SplitAt
    <3> QED  BY <3>1, <3>2, <3>3
  <2>4. \A i \in 1..L : b[i] \in Nat  BY <1>2, PacketList
  <2> HIDE DEF head, tail, L
  <2>5. DOMAIN head = 1..n /\ DOMAIN tail = 1..(L - n)
    BY <2>1, <2>2, <2>3
  <2> QED  BY <2>1, <2>2, <2>3, <2>4, <2>5
<1> HIDE DEF head, tail, L
<1>4. \A i \in 1..n : i \in 1..L  BY <1>3
<1>5. \A i \in 1..(L - n) : n + i \in 1..L  BY <1>3
<1>6. Sorted(head)
  BY <1>2, <1>3, <1>4 DEF Sorted
<1>7. Sorted(tail)
  <2> SUFFICES ASSUME NEW i \in 1..(L - n), NEW j \in 1..(L - n), i < j
               PROVE  tail[i] <= tail[j]
    BY <1>3 DEF Sorted
  <2>1. n + i \in DOMAIN b /\ n + j \in DOMAIN b /\ n + i < n + j  BY <1>3, <1>5
  <2> QED  BY <1>2, <1>3, <2>1 DEF Sorted
<1>8. Follows(head, r.rx)
  BY <1>2, <1>3, <1>4 DEF Follows
<1>9. Increasing(up)
  <2>1. head \in Seq(Nat) /\ r.rx \in Seq(Nat)  BY <1>2, <1>3, PacketList
  <2> QED  BY <1>2, <1>6, <1>8, <2>1, PassUpOrder
<1>10. up \in Seq(Packets) /\ ToSet(up) = ToSet(r.rx) \cup ToSet(head)
  BY <1>2, <1>3, PassUpAdds
<1> HIDE DEF up
<1>11. Follows(tail, up)
  <2> SUFFICES ASSUME NEW i \in DOMAIN up, NEW j \in 1..(L - n)
               PROVE  up[i] <= tail[j]
    BY <1>3 DEF Follows
  <2>1. up[i] \in ToSet(r.rx) \cup ToSet(head)  BY <1>10 DEF ToSet
  <2>2. n + j \in DOMAIN b /\ tail[j] = b[n + j]  BY <1>3, <1>5
  <2>3. CASE up[i] \in ToSet(r.rx)
    <3>1. PICK k \in DOMAIN r.rx : up[i] = r.rx[k]  BY <2>3 DEF ToSet
    <3> QED  BY <1>2, <2>2, <3>1 DEF Follows
  <2>4. CASE up[i] \in ToSet(head)
    <3>1. PICK k \in 1..n : up[i] = b[k]  BY <1>3, <2>4 DEF ToSet
    <3>2. k \in DOMAIN b /\ k < n + j  BY <1>3, <1>4
    <3> QED  BY <1>2, <2>2, <3>1, <3>2 DEF Sorted
  <2> QED  BY <2>1, <2>3, <2>4
<1> QED  BY <1>1, <1>7, <1>9, <1>11 DEF OrderKept

LEMMA BeginsTransitive ==
  ASSUME NEW S, NEW s \in Seq(S), NEW t \in Seq(S), NEW u \in Seq(S),
         Begins(t, s), Begins(u, t)
  PROVE  Begins(u, s)
<1>1. Len(s) \in Nat /\ Len(t) \in Nat /\ Len(u) \in Nat  OBVIOUS
<1>2. \A i \in 1..Len(s) : i \in 1..Len(t)  BY <1>1 DEF Begins
<1> QED  BY <1>1, <1>2 DEF Begins

\* Every item of the outcome, by where it was.
LEMMA HandedUpItems ==
  ASSUME NEW r, Holds(r), NEW n \in 0..Len(r.buffer), NEW start \in Nat
  PROVE  /\ \A x \in ToSet(HandedUp(r, n, start).rx) :
              x \in ToSet(r.rx) \/ \E i \in 1..n : x = r.buffer[i]
         /\ \A x \in ToSet(HandedUp(r, n, start).buffer) :
              \E i \in (n + 1)..Len(r.buffer) : x = r.buffer[i]
<1> DEFINE b == r.buffer
           L == Len(b)
           head == SubSeq(b, 1, n)
           tail == SubSeq(b, n + 1, Len(b))
           up == PassUp(r.rx, head)
<1>1. HandedUp(r, n, start).buffer = tail /\ HandedUp(r, n, start).rx = up
  BY DEF HandedUp, Reception
<1>2. b \in Seq(Packets) /\ r.rx \in Seq(Packets) /\ n \in 0..Len(b) /\ L \in Nat
  BY DEF Holds
<1> HIDE DEF b
<1>3. head \in Seq(Packets)  BY <1>2, SplitAt
<1>4. Len(head) = n  BY <1>2, SplitAt
<1>5. \A i \in 1..n : head[i] = b[i]  BY <1>2, SplitAt
<1>6. tail \in Seq(Packets)  BY <1>2, SplitAt
<1>7. Len(tail) = L - n  BY <1>2, SplitAt
<1>8. \A i \in 1..(L - n) : tail[i] = b[n + i]  BY <1>2, SplitAt
<1> HIDE DEF head, tail, L
<1>9. DOMAIN head = 1..n /\ DOMAIN tail = 1..(L - n)
  BY <1>3, <1>4, <1>6, <1>7
<1>10. ToSet(up) = ToSet(r.rx) \cup ToSet(head)
  BY <1>2, <1>3, PassUpAdds
<1> HIDE DEF up
<1>11. \A x \in ToSet(up) : x \in ToSet(r.rx) \/ \E i \in 1..n : x = b[i]
  BY <1>5, <1>9, <1>10 DEF ToSet
<1>12. \A i \in 1..(L - n) : n + i \in (n + 1)..L
  BY <1>2 DEF L
<1>13. \A x \in ToSet(tail) : \E i \in (n + 1)..L : x = b[i]
  BY <1>8, <1>9, <1>12 DEF ToSet
<1> QED  BY <1>1, <1>11, <1>13 DEF b, L

\* A first phase: what is older than seq goes up, nothing older than it stays.
LEMMA OlderUp ==
  ASSUME NoWrap, NEW r, Holds(r), OrderKept(r), r.start \in 0..(Half - 1),
         NEW seq \in 0..(Half - 1)
  PROVE  \E n \in 0..Len(r.buffer) :
           /\ RxCompleteBufferedPacketsWithSmallerSequence(r, seq) = HandedUp(r, n, r.start)
           /\ \A x \in ToSet(HandedUp(r, n, r.start).rx) :
                x \in ToSet(r.rx) \/ First + x - 1 < seq
           /\ \A x \in ToSet(HandedUp(r, n, r.start).buffer) : seq <= First + x - 1
<1>0. r.start \in Nat  BY HalfOf
<1>1. PICK n \in 0..Len(r.buffer) :
        /\ RxCompleteBufferedPacketsWithSmallerSequence(r, seq) = HandedUp(r, n, r.start)
        /\ \A i \in 1..n : IsSmaller(r, seq, i)
        /\ n < Len(r.buffer) => ~IsSmaller(r, seq, n + 1)
  BY SmallerResult DEF Holds
<1>2. PICK b \in Seq(Packets) : b = r.buffer  BY DEF Holds
<1>3. PICK L \in Nat : L = Len(b) /\ DOMAIN b = 1..L /\ \A i \in 1..L : b[i] \in 1..MaxPacket
  BY PacketList
<1>4. /\ n \in 0..L /\ Sorted(b) /\ MaxPacket \in Nat /\ First \in Nat
      /\ 1..MaxPacket \subseteq 1..(MaxPacket + 1)
  BY <1>2, <1>3, Constants DEF OrderKept
<1>5. ASSUME NEW i \in 1..L  PROVE IsSmaller(r, seq, i) <=> First + b[i] - 1 < seq
  <2>1. b[i] \in 1..(MaxPacket + 1)  BY <1>3, <1>4
  <2>2. PICK a \in 0..(Half - 1) : a = Number(b[i]) /\ a = First + b[i] - 1
    BY <2>1, NumberIs
  <2>3. IsSmaller(r, seq, i) <=> Mapped(a, r.start) < Mapped(seq, r.start)
    BY <1>2, <2>2 DEF IsSmaller
  <2>4. Mapped(a, r.start) < Mapped(seq, r.start) <=> a < seq
    BY NumbersOrdered
  <2> QED  BY <2>2, <2>3, <2>4
<1>6. \A i \in 1..n : First + b[i] - 1 < seq
  <2>1. \A i \in 1..n : i \in 1..L  BY <1>3, <1>4
  <2> QED  BY <1>1, <1>5, <2>1
<1>7. ASSUME NEW i \in (n + 1)..L  PROVE seq <= First + b[i] - 1
  <2>1. PICK k \in 1..L : k = n + 1  BY <1>3, <1>4
  <2>2. n < Len(r.buffer) /\ i \in 1..L /\ (k = i \/ k < i)  BY <1>2, <1>3, <1>4, <2>1
  <2>3. ~(First + b[k] - 1 < seq)  BY <1>1, <1>5, <2>1, <2>2
  <2>4. b[k] <= b[i]
    <3>1. k \in DOMAIN b /\ i \in DOMAIN b /\ b[k] \in Nat  BY <1>3, <2>2
    <3>2. CASE k = i  BY <3>1, <3>2
    <3>3. CASE k < i  BY <1>4, <3>1, <3>3 DEF Sorted
    <3> QED  BY <2>2, <3>2, <3>3
  <2> QED  BY <1>3, <1>4, <2>2, <2>3, <2>4
<1>8. \A x \in ToSet(HandedUp(r, n, r.start).rx) : x \in ToSet(r.rx) \/ First + x - 1 < seq
  <2>1. \A x \in ToSet(HandedUp(r, n, r.start).rx) :
          x \in ToSet(r.rx) \/ \E i \in 1..n : x = r.buffer[i]
    BY <1>0, HandedUpItems
  <2> QED  BY <1>2, <1>6, <2>1
<1>9. \A x \in ToSet(HandedUp(r, n, r.start).buffer) : seq <= First + x - 1
  <2>1. \A x \in ToSet(HandedUp(r, n, r.start).buffer) :
          \E i \in (n + 1)..Len(r.buffer) : x = r.buffer[i]
    BY <1>0, HandedUpItems
  <2> QED  BY <1>2, <1>3, <1>7, <2>1
<1> QED  BY <1>1, <1>8, <1>9

\* A second phase: the packets from the start on, without a gap, go up; the start
\* passes them and no packet that is missing.
LEMMA CompleteUp ==
  ASSUME NoWrap, NEW r, Holds(r), NEW bound \in 1..(MaxPacket + 1),
         r.start \in First..(First + bound - 1),
         \A x \in ToSet(r.buffer) : x < bound
  PROVE  \E m \in 0..Len(r.buffer), start \in First..(First + bound - 1) :
           /\ RxCompleteBufferedPacketsUntilFirstLost(r) = HandedUp(r, m, start)
           /\ \A x \in ToSet(HandedUp(r, m, start).rx) :
                x \in ToSet(r.rx) \/ First + x - 1 < start
           /\ \A y \in Nat \ ToSet(r.buffer) :
                r.start <= First + y - 1 => start <= First + y - 1
<1>1. PICK m \in 0..Len(r.buffer) :
        /\ RxCompleteBufferedPacketsUntilFirstLost(r) = HandedUp(r, m, (r.start + m) % SeqSpace)
        /\ \A i \in 1..m : IsExpected(r, i)
  BY UntilFirstLostResult DEF Holds
<1>2. PICK b \in Seq(Packets) : b = r.buffer  BY DEF Holds
<1>3. PICK L \in Nat : L = Len(b) /\ DOMAIN b = 1..L /\ \A i \in 1..L : b[i] \in 1..MaxPacket
  BY PacketList
<1>4. /\ m \in 0..L /\ MaxPacket \in Nat /\ First \in Nat /\ Half \in Nat
      /\ SeqSpace = Half + Half /\ First + MaxPacket < Half
      /\ 1..MaxPacket \subseteq 1..(MaxPacket + 1)
  BY <1>2, <1>3, Constants, HalfOf
<1>5. PICK s \in First..(First + bound - 1) : s = r.start  OBVIOUS
<1>6. s \in 0..(Half - 1)  BY <1>4
<1>7. ASSUME NEW i \in 1..m  PROVE (s + i - 1) % SeqSpace = First + b[i] - 1
  <2>1. b[i] \in 1..(MaxPacket + 1)  BY <1>3, <1>4
  <2>2. Number(b[i]) = First + b[i] - 1  BY <2>1, NumberIs
  <2> QED  BY <1>1, <1>2, <1>5, <2>2 DEF IsExpected
<1>8. m <= Half - s
  <2> SUFFICES ASSUME m > Half - s  PROVE FALSE
    BY <1>4, <1>6
  <2>1. PICK i \in 1..m : i = Half - s + 1  BY <1>4, <1>6
  <2>2. s + i - 1 = Half /\ Half < SeqSpace  BY <1>4, <1>6, <2>1
  <2>3. (s + i - 1) % SeqSpace = Half  BY <1>4, <2>2, Remainder
  <2>4. First + b[i] - 1 < Half  BY <1>3, <1>4
  <2> QED  BY <1>4, <1>7, <2>3, <2>4
<1>9. ASSUME NEW i \in 1..m  PROVE s + i - 1 = First + b[i] - 1
  <2>1. PICK t \in Nat : t = s + i - 1 /\ t < SeqSpace
    <3>1. s + i - 1 \in Nat /\ s + i - 1 < SeqSpace  BY <1>4, <1>6, <1>8
    <3> QED  BY <3>1
  <2>2. t % SeqSpace = t
    <3>1. SeqSpace \in Nat /\ t < SeqSpace  BY <1>4, <2>1
    <3> QED  BY <3>1, Remainder
  <2>3. t % SeqSpace = First + b[i] - 1  BY <1>7, <2>1
  <2> QED  BY <2>1, <2>2, <2>3
<1>10. (r.start + m) % SeqSpace = s + m
  <2>1. s + m \in Nat /\ s + m < SeqSpace  BY <1>4, <1>6, <1>8
  <2> QED  BY <1>4, <1>5, <2>1, Remainder
<1>11. s + m \in First..(First + bound - 1)
  <2>1. CASE m = 0  BY <1>4, <2>1
  <2>2. CASE m # 0
    <3>1. m \in 1..m /\ m \in 1..L  BY <1>4, <2>2
    <3>2. s + m - 1 = First + b[m] - 1  BY <1>9, <3>1
    <3>3. b[m] < bound  BY <1>2, <1>3, <3>1 DEF ToSet
    <3> QED  BY <1>3, <1>4, <3>1, <3>2, <3>3
  <2> QED  BY <2>1, <2>2
<1>12. PICK start \in First..(First + bound - 1) : start = s + m  BY <1>11
<1>13. \A x \in ToSet(HandedUp(r, m, start).rx) : x \in ToSet(r.rx) \/ First + x - 1 < start
  <2>1. \A i \in 1..m : First + b[i] - 1 < start
    <3> SUFFICES ASSUME NEW i \in 1..m  PROVE First + b[i] - 1 < start
      OBVIOUS
    <3>1. s + i - 1 = First + b[i] - 1  BY <1>9
    <3>2. s + i - 1 < s + m  BY <1>4, <1>6
    <3> QED  BY <1>12, <3>1, <3>2
  <2>2. \A x \in ToSet(HandedUp(r, m, start).rx) :
          x \in ToSet(r.rx) \/ \E i \in 1..m : x = r.buffer[i]
    <3>1. start \in Nat  BY <1>4
    <3> QED  BY <3>1, HandedUpItems
  <2> QED  BY <1>2, <2>1, <2>2
<1>14. ASSUME NEW y \in Nat \ ToSet(r.buffer), r.start <= First + y - 1
       PROVE  start <= First + y - 1
  <2> SUFFICES ASSUME First + y - 1 < start  PROVE FALSE
    BY <1>4
  <2>1. PICK i \in 1..m : i = First + y - s  BY <1>4, <1>5, <1>12, <1>14
  <2>2. b[i] = y
    <3>1. i \in 1..L  BY <1>3, <1>4
    <3>2. s + i - 1 = First + b[i] - 1 /\ b[i] \in Nat  BY <1>3, <1>9, <3>1
    <3> QED  BY <1>4, <1>6, <2>1, <3>2
  <2>3. b[i] \in ToSet(r.buffer)  BY <1>2, <1>3, <1>4 DEF ToSet
  <2> QED  BY <2>2, <2>3
<1> QED  BY <1>1, <1>10, <1>12, <1>13, <1>14

\* Both phases: the order is kept; no packet that is missing is passed by.
LEMMA ForwardedOrder ==
  ASSUME NoWrap, NEW r, Holds(r), OrderKept(r), NEW bound \in 1..(MaxPacket + 1),
         r.start \in First..(First + bound - 1),
         \A x \in ToSet(r.buffer) : x < bound,
         NEW seq \in 0..(Half - 1), NEW f \in Forwarded(r, seq)
  PROVE  /\ Holds(f) /\ OrderKept(f) /\ Begins(f.rx, r.rx)
         /\ f.start \in First..(First + bound - 1)
         /\ \A x \in ToSet(f.buffer) : seq <= First + x - 1
         /\ \A y \in Nat \ ToSet(r.buffer) :
              /\ r.start <= First + y - 1 /\ seq <= First + y - 1
              /\ \A x \in ToSet(r.rx) : x < y
              => f.start <= First + y - 1 /\ \A x \in ToSet(f.rx) : x < y
<1>1. MaxPacket \in Nat /\ First \in Nat /\ Half \in Nat /\ First + MaxPacket < Half
      /\ SeqSpace = Half + Half
  BY Constants, HalfOf
<1>2. r.start \in 0..(Half - 1) /\ r.start \in 0..(SeqSpace - 1)  BY <1>1
<1>3. PICK n \in 0..Len(r.buffer) :
        /\ RxCompleteBufferedPacketsWithSmallerSequence(r, seq) = HandedUp(r, n, r.start)
        /\ \A x \in ToSet(HandedUp(r, n, r.start).rx) :
             x \in ToSet(r.rx) \/ First + x - 1 < seq
        /\ \A x \in ToSet(HandedUp(r, n, r.start).buffer) : seq <= First + x - 1
  BY <1>2, OlderUp
<1> DEFINE o == HandedUp(r, n, r.start)
<1>4. /\ Holds(o) /\ ToSet(o.buffer) \subseteq ToSet(r.buffer) /\ Begins(o.rx, r.rx)
      /\ OrderKept(o)
  BY <1>2, HandedUpHolds, HandedUpOrdered
<1>5. o.start = r.start  BY DEF HandedUp, Reception
<1>6. f = RxCompleteBufferedPacketsUntilFirstLost(o)  BY <1>3 DEF Forwarded
<1>7. /\ \A x \in ToSet(o.rx) : x \in ToSet(r.rx) \/ First + x - 1 < seq
      /\ \A x \in ToSet(o.buffer) : seq <= First + x - 1
  BY <1>3
<1> HIDE DEF o
<1>8. PICK m \in 0..Len(o.buffer), start \in First..(First + bound - 1) :
        /\ f = HandedUp(o, m, start)
        /\ \A x \in ToSet(HandedUp(o, m, start).rx) :
             x \in ToSet(o.rx) \/ First + x - 1 < start
        /\ \A y \in Nat \ ToSet(o.buffer) :
             o.start <= First + y - 1 => start <= First + y - 1
  <2>1. \A x \in ToSet(o.buffer) : x < bound  BY <1>4
  <2> QED  BY <1>4, <1>5, <1>6, <2>1, CompleteUp
<1>9. start \in 0..(SeqSpace - 1)  BY <1>1
<1>10. /\ Holds(f) /\ ToSet(f.buffer) \subseteq ToSet(o.buffer) /\ Begins(f.rx, o.rx)
       /\ OrderKept(f)
  BY <1>4, <1>8, <1>9, HandedUpHolds, HandedUpOrdered
<1>11. f.start = start  BY <1>8 DEF HandedUp, Reception
<1>12. Begins(f.rx, r.rx)
  BY <1>4, <1>10, BeginsTransitive DEF Holds
<1>13. \A x \in ToSet(f.buffer) : seq <= First + x - 1  BY <1>7, <1>10
<1>14. ASSUME NEW y \in Nat \ ToSet(r.buffer),
              r.start <= First + y - 1, seq <= First + y - 1,
              \A x \in ToSet(r.rx) : x < y
       PROVE  f.start <= First + y - 1 /\ \A x \in ToSet(f.rx) : x < y
  <2>1. start <= First + y - 1  BY <1>4, <1>5, <1>8, <1>14
  <2>2. ASSUME NEW x \in ToSet(f.rx)  PROVE x < y
    <3>1. x \in 1..MaxPacket
      <4>1. f.rx \in Seq(Packets)  BY <1>10 DEF Holds
      <4> QED  BY <4>1, PacketList DEF ToSet
    <3>2. x \in ToSet(r.rx) \/ First + x - 1 < seq \/ First + x - 1 < start
      BY <1>7, <1>8
    <3> QED  BY <1>1, <1>14, <2>1, <3>1, <3>2
  <2> QED  BY <1>11, <2>1, <2>2
<1> QED  BY <1>10, <1>11, <1>12, <1>13, <1>14

-----------------------------------------------------------------------------
(* Steps of in-order delivery.                                             *)

InOrderStep == [InOrder!Next]_(InOrder!vars)

LEMMA BeginsIsPrefix ==
  ASSUME NEW s \in Seq(Packets), NEW t \in Seq(Packets), Begins(t, s)
  PROVE  IsPrefix(s, t)
<1>1. Len(s) \in Nat /\ Len(t) \in Nat /\ Len(s) <= Len(t) /\ \A i \in 1..Len(s) : t[i] = s[i]
  BY DEF Begins
<1> DEFINE a == SubSeq(s, 1, Len(s))
           b == SubSeq(t, 1, Len(s))
<1>2. a \in Seq(Packets) /\ Len(a) = Len(s) /\ \A i \in 1..Len(s) : a[i] = s[i]
  OBVIOUS
<1>3. b \in Seq(Packets) /\ Len(b) = Len(s) /\ \A i \in 1..Len(s) : b[i] = t[i]
  BY <1>1
<1> HIDE DEF a, b
<1>4. a = b
  <2>1. \A i \in 1..Len(s) : a[i] = b[i]  BY <1>1, <1>2, <1>3
  <2>2. a = [i \in 1..Len(s) |-> a[i]]  BY <1>2
  <2>3. b = [i \in 1..Len(s) |-> b[i]]  BY <1>3
  <2> QED  BY <2>1, <2>2, <2>3
<1> QED  BY <1>1, <1>4 DEF IsPrefix, a, b

\* An increasing list that begins with another and names no other packet is that one.
LEMMA NothingAdded ==
  ASSUME NEW s \in Seq(Packets), NEW t \in Seq(Packets), Begins(t, s), Increasing(t),
         ToSet(t) = ToSet(s)
  PROVE  t = s
<1>1. /\ Len(s) \in Nat /\ Len(t) \in Nat /\ Len(s) <= Len(t)
      /\ \A i \in 1..Len(s) : t[i] = s[i]
      /\ DOMAIN s = 1..Len(s) /\ DOMAIN t = 1..Len(t)
      /\ \A i \in 1..Len(t) : t[i] \in 1..MaxPacket
  BY PacketList DEF Begins
<1>2. Len(t) = Len(s)
  <2>0. Len(s) \in Nat /\ Len(t) \in Nat /\ Len(s) <= Len(t)  BY <1>1
  <2> SUFFICES ASSUME Len(s) < Len(t)  PROVE FALSE
    BY <2>0
  <2>1. Len(t) \in 1..Len(t)  BY <1>1
  <2>2. t[Len(t)] \in ToSet(s)  BY <1>1, <2>1 DEF ToSet
  <2>3. PICK i \in 1..Len(s) : t[Len(t)] = s[i]  BY <1>1, <2>2 DEF ToSet
  <2>4. i \in 1..Len(t) /\ i < Len(t) /\ t[i] = t[Len(t)]  BY <1>1, <2>3
  <2>5. t[i] < t[Len(t)]  BY <1>1, <2>1, <2>4 DEF Increasing
  <2> QED  BY <1>1, <2>1, <2>4, <2>5
<1>3. t = [i \in 1..Len(t) |-> t[i]]  OBVIOUS
<1>4. s = [i \in 1..Len(s) |-> s[i]]  OBVIOUS
<1> QED  BY <1>1, <1>2, <1>3, <1>4

\* Packets that moved from a pool to what went up, none of them newer than one that
\* is kept, are the oldest of those that had not gone up.
LEMMA OldestHanded ==
  ASSUME NEW pool \in SUBSET Packets, NEW kept \in SUBSET Packets,
         NEW old \in SUBSET Packets, NEW up \in SUBSET Packets,
         kept \subseteq pool, old \subseteq up, kept \cup up = pool \cup old,
         \A x \in up, y \in kept : x <= y
  PROVE  /\ up \ old \in InOrder!Oldest(pool \ old)
         /\ kept \ up = (pool \ old) \ (up \ old)
         /\ up = old \cup (up \ old)
<1> DEFINE handed == up \ old
           fresh == pool \ old
<1>1. CASE handed = {}  BY <1>1 DEF InOrder!Oldest
<1>2. CASE handed # {}
  <2>1. PICK p \in handed : \A x \in handed : p >= x
    <3>1. handed \in SUBSET (0..MaxPacket) /\ MaxPacket \in Nat
      BY Constants DEF Packets
    <3> HIDE DEF handed
    <3> QED  BY <1>2, <3>1, Greatest
  <2>2. p \in fresh  OBVIOUS
  <2>3. handed = {q \in fresh : q <= p}
    <3>1. ASSUME NEW q \in handed  PROVE q \in fresh /\ q <= p
      BY <2>1 DEF Packets
    <3>2. ASSUME NEW q \in fresh, q <= p  PROVE q \in handed
      <4>1. CASE q \in up  BY <4>1
      <4>2. CASE q \notin up
        <5>1. q \in kept  BY <4>2
        <5>2. p <= q  BY <5>1
        <5>3. p = q  BY <3>2, <5>2 DEF Packets
        <5> QED  BY <5>3
      <4> QED  BY <4>1, <4>2
    <3> QED  BY <3>1, <3>2
  <2>4. handed \in InOrder!Oldest(fresh)
    <3> HIDE DEF handed, fresh
    <3> QED  BY <2>2, <2>3 DEF InOrder!Oldest
  <2> QED  BY <2>4
<1> QED  BY <1>1, <1>2

\* What a list of packets kept beside a list gone up means for their sets.
LEMMA FollowsSets ==
  ASSUME NEW kept \in Seq(Packets), NEW up \in Seq(Packets), Follows(kept, up)
  PROVE  \A x \in ToSet(up), y \in ToSet(kept) : x <= y
  BY DEF Follows, ToSet

LEMMA BeginsSets ==
  ASSUME NEW s \in Seq(Packets), NEW t \in Seq(Packets), Begins(t, s)
  PROVE  ToSet(s) \subseteq ToSet(t)
<1>1. /\ Len(s) \in Nat /\ Len(t) \in Nat /\ DOMAIN s = 1..Len(s) /\ DOMAIN t = 1..Len(t)
  OBVIOUS
<1>2. \A i \in 1..Len(s) : i \in 1..Len(t) /\ t[i] = s[i]
  BY <1>1 DEF Begins
<1> QED  BY <1>1, <1>2 DEF ToSet

LEMMA PacketSet == \A s \in Seq(Packets) : ToSet(s) \in SUBSET Packets
  BY DEF ToSet

-----------------------------------------------------------------------------
(* The recipient's handlers.                                               *)

Ordered == Increasing(rx) /\ Sorted(buffer) /\ Follows(buffer, rx)

\* The recipient's state for an originator that has sent the packets below bound; the
\* cache has every buffered packet, but for those a request made it forget.
Within(bound) ==
  /\ \A p \in ToSet(buffer) : p < bound /\ (p \in cache \/ p < sendBlockAck)
  /\ agreement => startingSeq \in First..(First + bound - 1)
  /\ ~agreement => buffer = << >> /\ cache = {}
  /\ \A p \in cache \cup ToSet(rx) : p < bound

\* What the hand-ups make of a sorted buffer.
LEMMA ForwardedFrom ==
  ASSUME NoWrap, RecipientType, Increasing(rx),
         NEW stored \in Seq(Packets), Sorted(stored), Follows(stored, rx),
         NEW bound \in 1..(MaxPacket + 1),
         startingSeq \in First..(First + bound - 1),
         \A x \in ToSet(stored) : x < bound,
         NEW seq \in 0..(Half - 1),
         NEW f \in Forwarded(Reception(stored, startingSeq, rx), seq)
  PROVE  /\ f.buffer \in Seq(Packets) /\ f.rx \in Seq(Packets)
         /\ Increasing(f.rx) /\ Sorted(f.buffer) /\ Follows(f.buffer, f.rx)
         /\ Begins(f.rx, rx)
         /\ ToSet(f.buffer) \subseteq ToSet(stored)
         /\ ToSet(f.buffer) \cup ToSet(f.rx) = ToSet(stored) \cup ToSet(rx)
         /\ f.start \in First..(First + bound - 1)
         /\ \A x \in ToSet(f.buffer) : seq <= First + x - 1
         /\ \A y \in Nat \ ToSet(stored) :
              /\ startingSeq <= First + y - 1 /\ seq <= First + y - 1
              /\ \A x \in ToSet(rx) : x < y
              => f.start <= First + y - 1 /\ \A x \in ToSet(f.rx) : x < y
<1>1. PICK r : r = Reception(stored, startingSeq, rx)  OBVIOUS
<1>2. r.buffer = stored /\ r.rx = rx /\ r.start = startingSeq  BY <1>1 DEF Reception
<1>3. Holds(r) /\ OrderKept(r)
  BY <1>2 DEF RecipientType, Holds, OrderKept
<1>4. f \in Forwarded(r, seq)  BY <1>1
<1>5. r.start \in First..(First + bound - 1) /\ \A x \in ToSet(r.buffer) : x < bound
  BY <1>2
<1>6. /\ Holds(f) /\ OrderKept(f) /\ Begins(f.rx, r.rx)
      /\ f.start \in First..(First + bound - 1)
      /\ \A x \in ToSet(f.buffer) : seq <= First + x - 1
  BY <1>3, <1>4, <1>5, ForwardedOrder
<1>7. \A y \in Nat \ ToSet(r.buffer) :
              /\ r.start <= First + y - 1 /\ seq <= First + y - 1
              /\ \A x \in ToSet(r.rx) : x < y
              => f.start <= First + y - 1 /\ \A x \in ToSet(f.rx) : x < y
  BY <1>3, <1>4, <1>5, ForwardedOrder
<1>8. /\ ToSet(f.buffer) \subseteq ToSet(r.buffer)
      /\ ToSet(f.buffer) \cup ToSet(f.rx) = ToSet(r.buffer) \cup ToSet(r.rx)
  BY <1>3, <1>4, ForwardedHolds
<1>9. \A y \in Nat \ ToSet(stored) :
              /\ startingSeq <= First + y - 1 /\ seq <= First + y - 1
              /\ \A x \in ToSet(rx) : x < y
              => f.start <= First + y - 1 /\ \A x \in ToSet(f.rx) : x < y
  BY <1>2, <1>7
<1>10. /\ f.buffer \in Seq(Packets) /\ f.rx \in Seq(Packets)
       /\ Increasing(f.rx) /\ Sorted(f.buffer) /\ Follows(f.buffer, f.rx)
  BY <1>6 DEF Holds, OrderKept
<1>11. /\ Begins(f.rx, rx) /\ ToSet(f.buffer) \subseteq ToSet(stored)
       /\ ToSet(f.buffer) \cup ToSet(f.rx) = ToSet(stored) \cup ToSet(rx)
  BY <1>2, <1>6, <1>8
<1>12. f.start \in First..(First + bound - 1) /\ \A x \in ToSet(f.buffer) : seq <= First + x - 1
  BY <1>6
<1> QED  BY <1>9, <1>10, <1>11, <1>12

\* What arrives (a packet newer than all that went up, or nothing) joins the
\* stored packets, and some of the oldest go up.
LEMMA ReceiveStep ==
  ASSUME agreement, agreement', rx \in Seq(Packets), rx' \in Seq(Packets),
         buffer' \in Seq(Packets),
         Increasing(rx'), Begins(rx', rx), Follows(buffer', rx'),
         NEW pool \in SUBSET Packets,
         NEW arrived \in {{}} \cup {{p} : p \in {q \in Packets : InOrder!Newer(q)}},
         pool \ ToSet(rx) = (ToSet(buffer) \ ToSet(rx)) \cup arrived,
         ToSet(buffer') \subseteq pool,
         ToSet(buffer') \cup ToSet(rx') = pool \cup ToSet(rx)
  PROVE  InOrderStep
<1> DEFINE handed == ToSet(rx') \ ToSet(rx)
<1>1. /\ ToSet(rx) \in SUBSET Packets /\ ToSet(rx') \in SUBSET Packets
      /\ ToSet(buffer') \in SUBSET Packets
  BY PacketSet
<1>2. PICK old \in SUBSET Packets, up \in SUBSET Packets, kept \in SUBSET Packets :
        old = ToSet(rx) /\ up = ToSet(rx') /\ kept = ToSet(buffer')
  BY <1>1
<1>3. old \subseteq up  BY <1>2, BeginsSets
<1>4. \A x \in up, y \in kept : x <= y
  BY <1>2, FollowsSets
<1>5. /\ up \ old \in InOrder!Oldest(pool \ old)
      /\ kept \ up = (pool \ old) \ (up \ old)
      /\ up = old \cup (up \ old)
  BY <1>2, <1>3, <1>4, OldestHanded
<1>6. IsPrefix(rx, rx')  BY BeginsIsPrefix
<1>7. InOrder!HandUp(handed)
  <2>1. InOrder!IsPrefix(rx, rx')  BY <1>6 DEF IsPrefix, InOrder!IsPrefix
  <2>2. InOrder!ToSet(rx) = ToSet(rx) /\ InOrder!ToSet(rx') = ToSet(rx')
    BY DEF ToSet, InOrder!ToSet
  <2>3. ToSet(rx') = ToSet(rx) \cup handed  BY <1>2, <1>5
  <2>4. InOrder!Increasing(rx')  BY DEF InOrder!Increasing, Increasing
  <2> HIDE DEF handed
  <2> QED  BY <2>1, <2>2, <2>3, <2>4 DEF InOrder!HandUp
<1>8. handed \in InOrder!Oldest((ToSet(buffer) \ ToSet(rx)) \cup arrived)
  BY <1>2, <1>5
<1>9. ToSet(buffer') \ ToSet(rx') = ((ToSet(buffer) \ ToSet(rx)) \cup arrived) \ handed
  BY <1>2, <1>5
<1> HIDE DEF handed
<1>10. (ToSet(buffer) \ ToSet(rx))' = ToSet(buffer') \ ToSet(rx')
  BY DEF ToSet
<1>11. InOrder!Receive
  BY <1>7, <1>8, <1>9, <1>10 DEF InOrder!Receive
<1> QED  BY <1>11 DEF InOrderStep, InOrder!Next

LEMMA BlockAckDataOrdered ==
  ASSUME NoWrap, RecipientType, RecipientType', Ordered, NEW bound \in 1..(MaxPacket + 1),
         Within(bound), NEW p \in Packets, p < bound,
         agreement => \A x \in ToSet(rx) : x < p,
         ReceiveBlockAckData(p)
  PROVE  Ordered' /\ Within(bound)' /\ InOrderStep
<1>1. CASE agreement
  <2>1. /\ buffer' = Insert(buffer, startingSeq, p) /\ cache' = cache \cup {p}
        /\ UNCHANGED <<agreement, startingSeq, sendBlockAck, rx>>
    BY <1>1 DEF ReceiveBlockAckData
  <2>2. startingSeq \in 0..(Half - 1)
    BY <1>1, Constants, HalfOf DEF Within
  <2>3. buffer \in Seq(Packets) /\ rx \in Seq(Packets) /\ buffer' \in Seq(Packets)
    BY DEF RecipientType
  <2>4. Sorted(buffer')  BY <2>1, <2>2, <2>3, InsertSorted DEF Ordered
  <2>5. \A i \in DOMAIN rx : rx[i] < p  BY <1>1 DEF ToSet
  <2>6. Follows(buffer', rx')
    <3>1. \A i \in DOMAIN rx : rx[i] <= p
      <4>1. \A i \in DOMAIN rx : rx[i] \in Nat  BY <2>3, PacketList
      <4> QED  BY <2>5, <4>1 DEF Packets
    <3>2. Follows(Insert(buffer, startingSeq, p), rx)
      BY <2>3, <3>1, InsertFollows DEF Ordered
    <3> QED  BY <2>1, <3>2
  <2>7. Ordered'
    <3>1. Increasing(rx')  BY <2>1 DEF Ordered
    <3> QED  BY <2>4, <2>6, <3>1 DEF Ordered, Increasing, Sorted, Follows
  <2>8. ToSet(buffer') = ToSet(buffer) \cup {p}
    BY <2>1, <2>3, InsertAdds
  <2>9. Within(bound)'
    <3>1. ToSet(buffer)' = ToSet(buffer') /\ ToSet(rx)' = ToSet(rx)
      BY <2>1 DEF ToSet
    <3> QED  BY <1>1, <2>1, <2>8, <3>1 DEF Within
  <2>10. InOrderStep
    <3> DEFINE pool == ToSet(buffer) \cup {p}
    <3>1. pool \in SUBSET Packets  BY <2>3, PacketSet
    <3>2. p \notin ToSet(rx)
      BY <1>1 DEF Packets
    <3>3. {p} \in {{}} \cup {{q} : q \in {q \in Packets : InOrder!Newer(q)}}
      BY <2>5 DEF InOrder!Newer
    <3>4. pool \ ToSet(rx) = (ToSet(buffer) \ ToSet(rx)) \cup {p}  BY <3>2
    <3>5. /\ ToSet(buffer') \subseteq pool
          /\ ToSet(buffer') \cup ToSet(rx') = pool \cup ToSet(rx)
      BY <2>1, <2>8
    <3>6. Increasing(rx') /\ Begins(rx', rx)
      BY <2>1, <2>3 DEF Ordered, Begins
    <3>7. agreement' /\ rx' \in Seq(Packets)  BY <1>1, <2>1, <2>3
    <3> HIDE DEF pool
    <3> QED  BY <1>1, <2>3, <2>6, <3>1, <3>3, <3>4, <3>5, <3>6, <3>7, ReceiveStep
  <2> QED  BY <2>7, <2>9, <2>10
<1>2. CASE ~agreement
  <2>1. UNCHANGED <<buffer, cache, agreement, startingSeq, sendBlockAck, rx>>
    BY <1>2 DEF ReceiveBlockAckData
  <2>2. Ordered' /\ Within(bound)'
    BY <2>1 DEF Ordered, Within
  <2>3. InOrderStep
    BY <2>1 DEF InOrderStep, InOrder!vars
  <2> QED  BY <2>2, <2>3
<1> QED  BY <1>1, <1>2

\* A hand-up of what is stored after at most one packet arrived.
LEMMA ForwardStep ==
  ASSUME NoWrap, RecipientType, RecipientType', Ordered, NEW bound \in 1..(MaxPacket + 1),
         Within(bound), agreement, UNCHANGED agreement,
         NEW stored \in Seq(Packets), Sorted(stored), Follows(stored, rx),
         \A x \in cache' : x < bound, NEW seq \in 0..(Half - 1),
         \A x \in ToSet(stored) :
           x < bound /\ (x \in cache' \/ x < sendBlockAck' \/ ~(seq <= First + x - 1)),
         NEW arrived \in {{}} \cup {{p} : p \in {q \in Packets : InOrder!Newer(q)}},
         ToSet(stored) \ ToSet(rx) = (ToSet(buffer) \ ToSet(rx)) \cup arrived,
         ForwardUp(Reception(stored, startingSeq, rx), seq)
  PROVE  /\ Ordered' /\ Within(bound)' /\ InOrderStep
         /\ \A x \in ToSet(buffer') : seq <= First + x - 1
         /\ \A y \in Nat \ ToSet(stored) :
              /\ startingSeq <= First + y - 1 /\ seq <= First + y - 1
              /\ \A x \in ToSet(rx) : x < y
              => startingSeq' <= First + y - 1 /\ \A x \in ToSet(rx') : x < y
<1>1. PICK f \in Forwarded(Reception(stored, startingSeq, rx), seq) :
             buffer' = f.buffer /\ startingSeq' = f.start /\ rx' = f.rx
  BY DEF ForwardUp
<1>2. /\ Increasing(rx) /\ startingSeq \in First..(First + bound - 1)
      /\ \A x \in ToSet(stored) : x < bound
  BY DEF Ordered, Within
<1>3. /\ Increasing(f.rx) /\ Sorted(f.buffer) /\ Follows(f.buffer, f.rx)
      /\ Begins(f.rx, rx)
  BY <1>2, ForwardedFrom
<1>4. /\ f.buffer \in Seq(Packets) /\ f.rx \in Seq(Packets)
      /\ ToSet(f.buffer) \subseteq ToSet(stored)
      /\ ToSet(f.buffer) \cup ToSet(f.rx) = ToSet(stored) \cup ToSet(rx)
      /\ f.start \in First..(First + bound - 1)
  BY <1>2, ForwardedFrom
<1>5. \A x \in ToSet(f.buffer) : seq <= First + x - 1
  BY <1>2, ForwardedFrom
<1>6. \A y \in Nat \ ToSet(stored) :
              /\ startingSeq <= First + y - 1 /\ seq <= First + y - 1
              /\ \A x \in ToSet(rx) : x < y
              => f.start <= First + y - 1 /\ \A x \in ToSet(f.rx) : x < y
  BY <1>2, ForwardedFrom
<1>7. Ordered'
  BY <1>1, <1>3 DEF Ordered, Increasing, Sorted, Follows
<1>8. Within(bound)'
  <2>1. ToSet(buffer)' = ToSet(buffer') /\ ToSet(rx)' = ToSet(rx')  BY DEF ToSet
  <2>2. \A x \in ToSet(buffer') : x < bound /\ (x \in cache' \/ x < sendBlockAck')
    BY <1>1, <1>4, <1>5
  <2>3. startingSeq' \in First..(First + bound - 1)  BY <1>1, <1>4
  <2>4. \A x \in cache' \cup ToSet(rx') : x < bound
    BY <1>1, <1>2, <1>4 DEF Within
  <2>5. agreement'  OBVIOUS
  <2> QED  BY <2>1, <2>2, <2>3, <2>4, <2>5 DEF Within
<1>9. InOrderStep
  <2>1. /\ rx \in Seq(Packets) /\ rx' \in Seq(Packets) /\ buffer' \in Seq(Packets)
        /\ agreement'
    BY <1>1, <1>4 DEF RecipientType
  <2>2. Increasing(rx') /\ Begins(rx', rx) /\ Follows(buffer', rx')
    BY <1>1, <1>3
  <2>3. PICK pool \in SUBSET Packets : pool = ToSet(stored)  BY PacketSet
  <2>4. /\ pool \ ToSet(rx) = (ToSet(buffer) \ ToSet(rx)) \cup arrived
        /\ ToSet(buffer') \subseteq pool
        /\ ToSet(buffer') \cup ToSet(rx') = pool \cup ToSet(rx)
    BY <1>1, <1>4, <2>3
  <2> QED  BY <2>1, <2>2, <2>4, ReceiveStep
<1>10. \A x \in ToSet(buffer') : seq <= First + x - 1
  BY <1>1, <1>5
<1>11. \A y \in Nat \ ToSet(stored) :
              /\ startingSeq <= First + y - 1 /\ seq <= First + y - 1
              /\ \A x \in ToSet(rx) : x < y
              => startingSeq' <= First + y - 1 /\ \A x \in ToSet(rx') : x < y
  BY <1>1, <1>6
<1> QED  BY <1>7, <1>8, <1>9, <1>10, <1>11

\* A packet passed up as it arrives, not older than what went up.
LEMMA PassUpOne ==
  ASSUME NEW up \in Seq(Packets), Increasing(up), NEW p \in Packets,
         \A x \in ToSet(up) : x <= p
  PROVE  /\ PassUp(up, <<p>>) \in Seq(Packets) /\ Begins(PassUp(up, <<p>>), up)
         /\ ToSet(PassUp(up, <<p>>)) = ToSet(up) \cup {p}
         /\ Increasing(PassUp(up, <<p>>))
<1>1. PICK one \in Seq(Packets) : one = <<p>>
  <2>1. <<p>> \in Seq(Packets)  OBVIOUS
  <2> QED  BY <2>1, Zenon
<1>2. DOMAIN one = {1} /\ one[1] = p  BY <1>1
<1>3. ToSet(one) = {p}  BY <1>2 DEF ToSet
<1>4. Sorted(one)
  <2>1. ~(1 < 1)  OBVIOUS
  <2> QED  BY <1>2, <2>1 DEF Sorted
<1>5. Follows(one, up)  BY <1>2 DEF Follows, ToSet
<1>6. up \in Seq(Nat) /\ one \in Seq(Nat)  BY PacketList
<1>7. Increasing(PassUp(up, one))  BY <1>4, <1>5, <1>6, PassUpOrder
<1>8. PassUp(up, one) \in Seq(Packets)  BY PassUpAdds
<1>9. Begins(PassUp(up, one), up)  BY PassUpAdds
<1>10. ToSet(PassUp(up, one)) = ToSet(up) \cup ToSet(one)  BY PassUpAdds
<1> QED  BY <1>1, <1>3, <1>7, <1>8, <1>9, <1>10

LEMMA NormalDataOrdered ==
  ASSUME NoWrap, RecipientType, RecipientType', Ordered, NEW bound \in 1..(MaxPacket + 1),
         Within(bound), NEW p \in Packets, p < bound,
         \A x \in ToSet(rx) : x <= p, ReceiveNormalData(p)
  PROVE  Ordered' /\ Within(bound)' /\ InOrderStep
<1>0. /\ buffer \in Seq(Packets) /\ rx \in Seq(Packets) /\ rx' \in Seq(Packets)
      /\ buffer' \in Seq(Packets)
  BY DEF RecipientType
<1>1. p \notin ToSet(rx) => InOrder!Newer(p)
  <2> SUFFICES ASSUME p \notin ToSet(rx), NEW i \in DOMAIN rx  PROVE rx[i] < p
    BY DEF InOrder!Newer
  <2>1. rx[i] \in ToSet(rx) /\ rx[i] # p  BY DEF ToSet
  <2>2. rx[i] \in Nat  BY <1>0, PacketList
  <2>3. rx[i] <= p  BY <2>1
  <2> QED  BY <2>1, <2>2, <2>3 DEF Packets
<1>2. CASE agreement
  <2>1. PICK stored \in Seq(Packets) : stored = Insert(buffer, startingSeq, p)
    BY <1>0, InsertAdds
  <2>2. /\ ForwardUp(Reception(stored, startingSeq, rx), startingSeq)
        /\ cache' = cache \cup {p} /\ UNCHANGED <<agreement, sendBlockAck>>
    BY <1>2, <2>1 DEF ReceiveNormalData
  <2>3. startingSeq \in 0..(Half - 1)
    BY <1>2, Constants, HalfOf DEF Within
  <2>4. ToSet(stored) = ToSet(buffer) \cup {p}  BY <1>0, <2>1, InsertAdds
  <2>5. Sorted(stored)  BY <1>0, <2>1, <2>3, InsertSorted DEF Ordered
  <2>6. \A i \in DOMAIN rx : rx[i] <= p  BY DEF ToSet
  <2>7. Follows(stored, rx)
    BY <1>0, <2>1, <2>6, InsertFollows DEF Ordered
  <2>8. /\ \A x \in ToSet(stored) : x < bound /\ (x \in cache' \/ x < sendBlockAck')
        /\ \A x \in cache' : x < bound
    BY <2>2, <2>4 DEF Within
  <2>9. PICK arrived \in {{}} \cup {{q} : q \in {q \in Packets : InOrder!Newer(q)}} :
          ToSet(stored) \ ToSet(rx) = (ToSet(buffer) \ ToSet(rx)) \cup arrived
    <3>1. CASE p \in ToSet(rx)
      <4>1. {} \in {{}} \cup {{q} : q \in {q \in Packets : InOrder!Newer(q)}}  OBVIOUS
      <4>2. ToSet(stored) \ ToSet(rx) = (ToSet(buffer) \ ToSet(rx)) \cup {}
        BY <2>4, <3>1
      <4> QED  BY <4>1, <4>2
    <3>2. CASE p \notin ToSet(rx)
      <4>1. {p} \in {{}} \cup {{q} : q \in {q \in Packets : InOrder!Newer(q)}}
        BY <1>1, <3>2
      <4>2. ToSet(stored) \ ToSet(rx) = (ToSet(buffer) \ ToSet(rx)) \cup {p}
        BY <2>4, <3>2
      <4> QED  BY <4>1, <4>2
    <3> QED  BY <3>1, <3>2
  <2> QED  BY <1>2, <2>2, <2>3, <2>5, <2>7, <2>8, <2>9, ForwardStep
<1>3. CASE ~agreement
  <2>1. /\ rx' = PassUp(rx, <<p>>)
        /\ UNCHANGED <<buffer, startingSeq, cache, agreement, sendBlockAck, timerVars>>
    BY <1>3 DEF ReceiveNormalData
  <2>2. buffer = << >> /\ cache = {}  BY <1>3 DEF Within
  <2>3. Begins(rx', rx) /\ ToSet(rx') = ToSet(rx) \cup {p} /\ Increasing(rx')
    BY <1>0, <2>1, PassUpOne DEF Ordered
  <2>4. ToSet(buffer)' = {} /\ ToSet(buffer) = {} /\ ToSet(rx)' = ToSet(rx')
    BY <2>1, <2>2 DEF ToSet
  <2>5. Ordered'
    <3>1. buffer' = << >>  BY <2>1, <2>2
    <3>2. DOMAIN buffer' = {}  BY <3>1
    <3> QED  BY <2>3, <3>2 DEF Ordered, Increasing, Sorted, Follows
  <2>6. Within(bound)'
    BY <1>3, <2>1, <2>2, <2>3, <2>4 DEF Within
  <2>7. (ToSet(buffer) \ ToSet(rx))' = {} /\ ToSet(buffer) \ ToSet(rx) = {}
    BY <2>4
  <2>8. ASSUME p \in ToSet(rx)  PROVE InOrderStep
    <3>1. ToSet(rx') = ToSet(rx)  BY <2>3, <2>8
    <3>2. rx' = rx  BY <1>0, <2>3, <3>1, NothingAdded
    <3> QED  BY <2>1, <2>7, <3>2 DEF InOrderStep, InOrder!vars
  <2>9. ASSUME p \notin ToSet(rx)  PROVE InOrderStep
    <3>1. IsPrefix(rx, rx')  BY <1>0, <2>3, BeginsIsPrefix
    <3>2. InOrder!IsPrefix(rx, rx')  BY <3>1 DEF IsPrefix, InOrder!IsPrefix
    <3>3. InOrder!ToSet(rx) = ToSet(rx) /\ InOrder!ToSet(rx') = ToSet(rx')
      BY DEF ToSet, InOrder!ToSet
    <3>4. InOrder!Increasing(rx')  BY <2>3 DEF InOrder!Increasing, Increasing
    <3>5. InOrder!HandUp({p})  BY <2>3, <3>2, <3>3, <3>4 DEF InOrder!HandUp
    <3>6. InOrder!Pass
      BY <1>1, <1>3, <2>1, <2>7, <2>9, <3>5 DEF InOrder!Pass
    <3> QED  BY <3>6 DEF InOrderStep, InOrder!Next
  <2> QED  BY <2>5, <2>6, <2>8, <2>9
<1> QED  BY <1>2, <1>3

\* The end of an agreement: what is complete goes up, the rest is dropped.
LEMMA DestroyOrdered ==
  ASSUME NoWrap, RecipientType, RecipientType', Ordered, NEW bound \in 1..(MaxPacket + 1),
         Within(bound), DestroyBlockAckAgreement
  PROVE  Ordered' /\ Within(bound)' /\ InOrderStep /\ ~agreement'
<1>0. /\ buffer \in Seq(Packets) /\ rx \in Seq(Packets) /\ rx' \in Seq(Packets)
  BY DEF RecipientType
<1>1. CASE agreement
  <2>1. /\ agreement' = FALSE /\ buffer' = << >> /\ cache' = {}
        /\ rx' \in {f.rx : f \in Forwarded(Now, startingSeq)}
    BY <1>1 DEF DestroyBlockAckAgreement
  <2>2. PICK f \in Forwarded(Reception(buffer, startingSeq, rx), startingSeq) : rx' = f.rx
    BY <2>1 DEF Now
  <2>3. startingSeq \in First..(First + bound - 1) /\ startingSeq \in 0..(Half - 1)
    BY <1>1, Constants, HalfOf DEF Within
  <2>4. Increasing(rx) /\ Sorted(buffer) /\ Follows(buffer, rx)  BY DEF Ordered
  <2>5. \A x \in ToSet(buffer) : x < bound  BY DEF Within
  <2>6. Increasing(f.rx) /\ Follows(f.buffer, f.rx) /\ Begins(f.rx, rx)
    BY <1>0, <2>3, <2>4, <2>5, ForwardedFrom
  <2>7. /\ f.buffer \in Seq(Packets)
        /\ ToSet(f.buffer) \subseteq ToSet(buffer)
        /\ ToSet(f.buffer) \cup ToSet(f.rx) = ToSet(buffer) \cup ToSet(rx)
    BY <1>0, <2>3, <2>4, <2>5, ForwardedFrom
  <2>8. ToSet(buffer)' = {} /\ DOMAIN buffer' = {} /\ ToSet(rx)' = ToSet(rx')
    BY <2>1 DEF ToSet
  <2>9. Ordered'
    BY <2>2, <2>6, <2>8 DEF Ordered, Increasing, Sorted, Follows
  <2>10. Within(bound)'
    <3>1. \A x \in ToSet(rx') : x < bound  BY <2>2, <2>5, <2>7 DEF Within
    <3> QED  BY <2>1, <2>8, <3>1 DEF Within
  <2>11. InOrderStep
    <3> DEFINE handed == ToSet(rx') \ ToSet(rx)
    <3>1. PICK pool \in SUBSET Packets, old \in SUBSET Packets, up \in SUBSET Packets,
               kept \in SUBSET Packets :
            /\ pool = ToSet(buffer) /\ old = ToSet(rx) /\ up = ToSet(rx')
            /\ kept = ToSet(f.buffer)
      BY <1>0, <2>7, PacketSet
    <3>2. old \subseteq up  BY <1>0, <2>2, <2>6, <3>1, BeginsSets
    <3>3. \A x \in up, y \in kept : x <= y
      BY <1>0, <2>2, <2>6, <2>7, <3>1, FollowsSets
    <3>4. kept \subseteq pool /\ kept \cup up = pool \cup old  BY <2>2, <2>7, <3>1
    <3>5. up \ old \in InOrder!Oldest(pool \ old) /\ up = old \cup (up \ old)
      BY <3>2, <3>3, <3>4, OldestHanded
    <3>6. IsPrefix(rx, rx')  BY <1>0, <2>2, <2>6, BeginsIsPrefix
    <3>7. InOrder!IsPrefix(rx, rx')  BY <3>6 DEF IsPrefix, InOrder!IsPrefix
    <3>8. InOrder!ToSet(rx) = ToSet(rx) /\ InOrder!ToSet(rx') = ToSet(rx')
      BY DEF ToSet, InOrder!ToSet
    <3>9. InOrder!Increasing(rx')  BY <2>2, <2>6 DEF InOrder!Increasing, Increasing
    <3>10. ToSet(rx') = ToSet(rx) \cup handed  BY <3>1, <3>5
    <3>11. handed \in InOrder!Oldest(ToSet(buffer) \ ToSet(rx))  BY <3>1, <3>5
    <3> HIDE DEF handed
    <3>12. InOrder!HandUp(handed)
      BY <3>7, <3>8, <3>9, <3>10 DEF InOrder!HandUp
    <3>13. (ToSet(buffer) \ ToSet(rx))' = {}  BY <2>8
    <3>14. InOrder!Close
      BY <1>1, <2>1, <3>11, <3>12, <3>13 DEF InOrder!Close
    <3> QED  BY <3>14 DEF InOrderStep, InOrder!Next
  <2> QED  BY <2>1, <2>9, <2>10, <2>11
<1>2. CASE ~agreement
  <2>1. UNCHANGED <<buffer, cache, agreement, startingSeq, rx>>
    BY <1>2 DEF DestroyBlockAckAgreement
  <2>2. Ordered' /\ Within(bound)' /\ ~agreement'
    <3>1. buffer = << >> /\ cache = {}  BY <1>2 DEF Within
    <3>2. ToSet(buffer') = {} /\ ToSet(buffer)' = ToSet(buffer')  BY <2>1, <3>1 DEF ToSet
    <3> QED  BY <1>2, <2>1, <3>2 DEF Ordered, Within
  <2>3. InOrderStep
    BY <2>1 DEF InOrderStep, InOrder!vars
  <2> QED  BY <2>2, <2>3
<1> QED  BY <1>1, <1>2

-----------------------------------------------------------------------------
(* Both ends of the agreement.                                             *)

\* The recipient has seen nothing that was not sent.
Agreed == Within(next) /\ \A p \in outstanding : p < next

\* Packet p can still be taken in: the start has not passed it, nor has what went up.
Missing(p) == startingSeq <= First + p - 1 /\ \A x \in ToSet(rx) : x < p

\* What the originator still awaits, the recipient still takes.
Awaited ==
  /\ ~established => outstanding = {}
  /\ current.type = "data" => outstanding = {} /\ current.packet = next - 1
  /\ current.type = "bar" => \A p \in outstanding : current.packet <= p
  /\ sendBlockAck # 0 => agreement /\ current = Bar(sendBlockAck)
  /\ resend \cap cache = {}
  /\ agreement => \A p \in outstanding \ cache : Missing(p)

Consistent ==
  /\ RecipientType /\ OriginatorType /\ AcknowledgedIsKept
  /\ Ordered /\ Agreed /\ Awaited

OlderStep ==
  sendBlockAck # 0 /\ sendBlockAck' = 0 =>
    \A i \in DOMAIN buffer' : buffer'[i] >= sendBlockAck

\* What each step shows.
StepGood == Ordered' /\ Agreed' /\ Awaited' /\ InOrderStep /\ OlderStep

LEMMA WithinMore ==
  ASSUME NEW b \in Nat, NEW c \in Nat, b <= c, Within(b), RecipientType
  PROVE  Within(c)
<1>1. First \in Nat  BY Constants
<1>2. agreement => startingSeq \in First..(First + c - 1)
  BY <1>1 DEF Within
<1>3. cache \cup ToSet(rx) \cup ToSet(buffer) \subseteq Nat
  <2>1. cache \subseteq Packets /\ ToSet(rx) \subseteq Packets /\ ToSet(buffer) \subseteq Packets
    BY PacketSet DEF RecipientType
  <2>2. Packets \subseteq Nat  BY DEF Packets
  <2> QED  BY <2>1, <2>2
<1>4. \A p \in cache \cup ToSet(rx) \cup ToSet(buffer) : p < c
  BY <1>3 DEF Within
<1> QED  BY <1>2, <1>4 DEF Within

LEMMA Unmoved ==
  ASSUME Ordered, NEW b, Within(b),
         UNCHANGED <<agreement, startingSeq, buffer, cache, sendBlockAck, rx>>
  PROVE  Ordered' /\ Within(b)' /\ InOrderStep /\ \A p : Missing(p)' <=> Missing(p)
<1>1. Ordered' /\ Within(b)'  BY DEF Ordered, Within
<1>2. InOrderStep  BY DEF InOrderStep, InOrder!vars
<1>3. \A p : Missing(p)' <=> Missing(p)  BY DEF Missing
<1> QED  BY <1>1, <1>2, <1>3

\* A packet not sent before is missing.
LEMMA NextMissing ==
  ASSUME RecipientType, NEW n \in 1..(MaxPacket + 1), Within(n), agreement
  PROVE  Missing(n) /\ n \notin cache
<1>1. First \in Nat  BY Constants
<1>2. startingSeq <= First + n - 1  BY <1>1 DEF Within
<1>3. \A x \in cache \cup ToSet(rx) : x < n  BY DEF Within
<1>4. n \notin cache  BY <1>3
<1> QED  BY <1>2, <1>3, <1>4 DEF Missing

LEMMA DataGood ==
  ASSUME NoWrap, Consistent, RecipientType', OriginatorType',
         NEW p \in Packets, NEW got \in BOOLEAN, SendBlockAckData(p, got)
  PROVE  StepGood
<1>1. /\ next \in 1..(MaxPacket + 1) /\ next' \in 1..(MaxPacket + 1)
      /\ Within(next) /\ Ordered /\ RecipientType
      /\ current = NoFrame /\ sendBlockAck = 0 /\ established
      /\ next' = IF p = next THEN next + 1 ELSE next
      /\ outstanding' = outstanding \cup {p} /\ resend' = resend \ {p}
      /\ UNCHANGED <<established, current>>
      /\ p = next \/ p \in resend
      /\ resend \subseteq outstanding /\ outstanding \subseteq Packets
      /\ \A q \in outstanding : q < next
  BY DEF Consistent, SendBlockAckData, Idle, Agreed, OriginatorType
<1>2. p < next' /\ \A q \in outstanding' : q < next'
  BY <1>1 DEF Packets
<1>3. agreement => Missing(p) /\ p \notin cache
  <2> SUFFICES ASSUME agreement  PROVE Missing(p) /\ p \notin cache
    OBVIOUS
  <2>1. CASE p = next  BY <1>1, <2>1, NextMissing
  <2>2. CASE p \in resend
    <3>1. p \in outstanding \ cache  BY <1>1, <2>2 DEF Consistent, Awaited
    <3> QED  BY <3>1 DEF Consistent, Awaited
  <2> QED  BY <1>1, <2>1, <2>2
<1>4. PICK bound \in 1..(MaxPacket + 1) : bound = next'  BY <1>1
<1>5. Within(bound)
  <2>1. next \in Nat /\ bound \in Nat /\ next <= bound  BY <1>1, <1>4
  <2> QED  BY <1>1, <2>1, WithinMore
<1>6. Ordered' /\ Within(bound)' /\ InOrderStep
  <2>1. CASE got
    <3>1. ReceiveBlockAckData(p)  BY <2>1 DEF SendBlockAckData
    <3>2. agreement => \A x \in ToSet(rx) : x < p  BY <1>3 DEF Missing
    <3> QED  BY <1>1, <1>2, <1>4, <1>5, <3>1, <3>2, BlockAckDataOrdered
  <2>2. CASE ~got
    <3>1. UNCHANGED <<agreement, startingSeq, buffer, cache, sendBlockAck, rx>>
      BY <2>2 DEF SendBlockAckData, recipientVars
    <3> QED  BY <1>1, <1>5, <3>1, Unmoved
  <2> QED  BY <2>1, <2>2
<1>7. /\ UNCHANGED <<agreement, startingSeq, sendBlockAck, rx>>
      /\ cache' = cache \/ cache' = cache \cup {p}
  BY DEF SendBlockAckData, ReceiveBlockAckData, recipientVars
<1>8. Agreed'
  BY <1>2, <1>4, <1>6 DEF Agreed, Within
<1>9. Awaited'
  <2>1. resend' \cap cache' = {}
    <3>1. resend \cap cache = {}  BY DEF Consistent, Awaited
    <3> QED  BY <1>1, <1>7, <3>1
  <2>2. ASSUME agreement', NEW q \in outstanding' \ cache'  PROVE Missing(q)'
    <3>1. Missing(q)' <=> Missing(q)  BY <1>7 DEF Missing
    <3>2. agreement  BY <1>7, <2>2
    <3>3. CASE q = p  BY <1>3, <3>1, <3>2, <3>3
    <3>4. CASE q # p
      <4>1. q \in outstanding \ cache  BY <1>1, <1>7, <3>4
      <4> QED  BY <3>1, <3>2, <4>1 DEF Consistent, Awaited
    <3> QED  BY <3>3, <3>4
  <2>3. current'.type = "none" /\ sendBlockAck' = 0 /\ established'
    BY <1>1, <1>7 DEF NoFrame
  <2> QED  BY <2>1, <2>2, <2>3 DEF Awaited
<1>10. OlderStep  BY <1>1 DEF OlderStep
<1> QED  BY <1>6, <1>8, <1>9, <1>10 DEF StepGood

LEMMA NormalGood ==
  ASSUME NoWrap, Consistent, RecipientType', OriginatorType',
         NEW p \in Packets, NEW got \in BOOLEAN, NEW acked \in BOOLEAN,
         SendNormalData(p, got, acked)
  PROVE  StepGood
<1>1. /\ next \in 1..(MaxPacket + 1) /\ next' \in 1..(MaxPacket + 1)
      /\ Within(next) /\ Ordered /\ RecipientType
      /\ sendBlockAck = 0 /\ resend \subseteq outstanding
      /\ current' = IF got /\ acked THEN NoFrame ELSE Data(p, current.tries + 1)
      /\ UNCHANGED <<established, outstanding, resend>>
  BY DEF Consistent, SendNormalData, Agreed, OriginatorType
<1>2. outstanding = {} /\ p = next' - 1 /\ next <= next' /\ next <= p + 1
  <2>1. CASE current = NoFrame /\ outstanding = {} /\ p = next /\ next' = next + 1
    BY <1>1, <2>1
  <2>2. CASE current \in {Data(p, n) : n \in 1..(MaxTries - 1)} /\ UNCHANGED next
    <3>1. current.type = "data" /\ current.packet = p  BY <2>2 DEF Data
    <3>2. outstanding = {} /\ p = next - 1
      BY <3>1 DEF Consistent, Awaited
    <3> QED  BY <1>1, <2>2, <3>2
  <2> QED  BY <2>1, <2>2 DEF SendNormalData
<1>3. p < next' /\ p \in Nat
  <2>1. p \in Nat  BY DEF Packets
  <2>2. PICK n \in 1..(MaxPacket + 1) : n = next'  BY <1>1
  <2>3. p = n - 1  BY <1>2, <2>2
  <2>4. p < n  BY <2>1, <2>3
  <2> QED  BY <2>1, <2>2, <2>4
<1>4. PICK bound \in 1..(MaxPacket + 1) : bound = next'  BY <1>1
<1>5. Within(bound)
  <2>1. next \in Nat /\ bound \in Nat /\ next <= bound  BY <1>1, <1>2, <1>4
  <2> QED  BY <1>1, <2>1, WithinMore
<1>6. \A x \in ToSet(rx) : x <= p
  <2>1. \A x \in ToSet(rx) : x < next /\ x \in Nat
    <3>1. ToSet(rx) \subseteq Packets  BY <1>1, PacketSet DEF RecipientType
    <3>2. \A x \in ToSet(rx) : x < next  BY <1>1 DEF Within
    <3> QED  BY <3>1, <3>2 DEF Packets
  <2> QED  BY <1>1, <1>2, <1>3, <2>1
<1>7. Ordered' /\ Within(bound)' /\ InOrderStep
  <2>1. CASE got
    <3>1. ReceiveNormalData(p)  BY <2>1 DEF SendNormalData
    <3> QED  BY <1>1, <1>3, <1>4, <1>5, <1>6, <3>1, NormalDataOrdered
  <2>2. CASE ~got
    <3>1. UNCHANGED <<agreement, startingSeq, buffer, cache, sendBlockAck, rx>>
      BY <2>2 DEF SendNormalData, recipientVars
    <3> QED  BY <1>1, <1>5, <3>1, Unmoved
  <2> QED  BY <2>1, <2>2
<1>8. outstanding' = {} /\ resend' = {} /\ UNCHANGED sendBlockAck
  BY <1>1, <1>2 DEF SendNormalData, ReceiveNormalData, recipientVars
<1>9. Agreed'  BY <1>4, <1>7, <1>8 DEF Agreed, Within
<1>10. Awaited'
  <2>1. current'.type = "data" => current'.packet = next' - 1
    BY <1>1, <1>2 DEF Data, NoFrame
  <2>2. current'.type # "bar"  BY <1>1 DEF Data, NoFrame
  <2> QED  BY <1>1, <1>8, <2>1, <2>2 DEF Awaited
<1>11. OlderStep  BY <1>1 DEF OlderStep
<1> QED  BY <1>7, <1>9, <1>10, <1>11 DEF StepGood

LEMMA RequestGood ==
  ASSUME NoWrap, Consistent, RecipientType', OriginatorType',
         NEW p \in 1..(MaxPacket + 1), NEW got \in BOOLEAN, SendBlockAckRequest(p, got)
  PROVE  StepGood
<1>1. /\ sendBlockAck = 0 /\ current' = Bar(p)
      /\ UNCHANGED <<established, next, outstanding, resend>>
      /\ Ordered /\ Within(next) /\ outstanding \subseteq Packets
  BY DEF SendBlockAckRequest, Consistent, Agreed, OriginatorType
<1>2. /\ UNCHANGED <<agreement, startingSeq, buffer, rx>>
      /\ \/ UNCHANGED <<cache, sendBlockAck>>
         \/ cache' = {q \in cache : q >= p} /\ sendBlockAck' = p
  BY DEF SendBlockAckRequest, ReceiveBlockAckRequest, recipientVars
<1>3. sendBlockAck' = 0 \/ (sendBlockAck' = p /\ agreement)
  BY <1>1 DEF SendBlockAckRequest, ReceiveBlockAckRequest, recipientVars
<1>4. \A q \in outstanding : p <= q
  <2>1. CASE outstanding # {} /\ p = Min(outstanding)
    <3>1. outstanding \in SUBSET Nat  BY <1>1 DEF Packets
    <3> QED  BY <2>1, <3>1, Least
  <2>2. CASE current = Bar(p)
    <3>1. current.type = "bar" /\ current.packet = p  BY <2>2 DEF Bar
    <3> QED  BY <3>1 DEF Consistent, Awaited
  <2> QED  BY <2>1, <2>2 DEF SendBlockAckRequest
<1>5. Ordered' /\ InOrderStep /\ \A q : Missing(q)' <=> Missing(q)
  BY <1>1, <1>2 DEF Ordered, InOrderStep, InOrder!vars, Missing
<1>6. Agreed'
  <2>1. ToSet(buffer)' = ToSet(buffer) /\ ToSet(rx)' = ToSet(rx)  BY <1>2
  <2>2. ASSUME NEW q \in ToSet(buffer)  PROVE q \in cache' \/ q < sendBlockAck'
    <3>1. q \in Nat
      <4>1. ToSet(buffer) \subseteq Packets  BY PacketSet DEF Consistent, RecipientType
      <4> QED  BY <4>1 DEF Packets
    <3>2. q \in cache  BY <1>1, <3>1 DEF Within
    <3> QED  BY <1>2, <3>1, <3>2
  <2>3. Within(next)'  BY <1>1, <1>2, <2>1, <2>2 DEF Within
  <2> QED  BY <1>1, <2>3 DEF Consistent, Agreed
<1>7. current'.type = "bar" /\ current'.packet = p  BY <1>1 DEF Bar
<1>8. Awaited'
  <2>1. outstanding \ cache' \subseteq outstanding \ cache
    <3>1. \A q \in outstanding : q >= p
      <4>1. p \in Nat /\ outstanding \subseteq Nat  BY <1>1 DEF Packets
      <4> QED  BY <1>4, <4>1
    <3> QED  BY <1>2, <3>1
  <2> QED  BY <1>1, <1>2, <1>3, <1>4, <1>5, <1>7, <2>1 DEF Consistent, Awaited
<1>9. OlderStep  BY <1>1 DEF OlderStep
<1> QED  BY <1>5, <1>6, <1>8, <1>9 DEF StepGood

LEMMA BlockAckGood ==
  ASSUME NoWrap, Consistent, RecipientType', OriginatorType',
         NEW heard \in BOOLEAN, SendBlockAckAfterBlockAckRequest(heard)
  PROVE  StepGood
<1>1. /\ sendBlockAck # 0 /\ sendBlockAck' = 0
      /\ ForwardUp(Now, Number(sendBlockAck))
      /\ UNCHANGED <<agreement, cache, established, next>>
      /\ \/ outstanding' = outstanding \ cache /\ resend' = outstanding \ cache /\ current' = NoFrame
         \/ UNCHANGED <<outstanding, resend, current>>
  BY DEF SendBlockAckAfterBlockAckRequest
<1>2. /\ agreement /\ current = Bar(sendBlockAck) /\ resend \cap cache = {}
      /\ \A q \in outstanding \ cache : Missing(q)
      /\ ~established => outstanding = {}
  BY <1>1 DEF Consistent, Awaited
<1>3. /\ RecipientType /\ Ordered /\ Within(next) /\ next \in 1..(MaxPacket + 1)
      /\ \A q \in outstanding : q < next
      /\ outstanding \subseteq Packets
  BY DEF Consistent, Agreed, OriginatorType
<1>4. PICK s \in 1..(MaxPacket + 1) : s = sendBlockAck
  BY <1>1, <1>3 DEF RecipientType
<1>5. PICK seq \in 0..(Half - 1) : seq = Number(s) /\ seq = First + s - 1
  BY NumberIs
<1>6. \A q \in outstanding : s <= q
  <2>1. current.type = "bar" /\ current.packet = s  BY <1>2, <1>4 DEF Bar
  <2> QED  BY <2>1 DEF Consistent, Awaited
<1>7. PICK stored \in Seq(Packets) : stored = buffer  BY <1>3 DEF RecipientType
<1>8. /\ Sorted(stored) /\ Follows(stored, rx) /\ ToSet(stored) \subseteq Packets
      /\ \A x \in ToSet(stored) : x < next /\ (x \in cache \/ x < s)
      /\ \A x \in cache : x < next
  BY <1>3, <1>4, <1>7, PacketSet DEF Ordered, Within
<1>9. PICK bound \in 1..(MaxPacket + 1) : bound = next  BY <1>3
<1>10. PICK arrived \in {{}} \cup {{p} : p \in {q \in Packets : InOrder!Newer(q)}} :
         arrived = {}
  OBVIOUS
<1>11. ToSet(stored) \ ToSet(rx) = (ToSet(buffer) \ ToSet(rx)) \cup arrived
  BY <1>7, <1>10
<1>12. ForwardUp(Reception(stored, startingSeq, rx), seq)
  BY <1>1, <1>4, <1>5, <1>7 DEF Now
<1>13. /\ Within(bound) /\ \A x \in cache' : x < bound
       /\ \A x \in ToSet(stored) :
            x < bound /\ (x \in cache' \/ x < sendBlockAck' \/ ~(seq <= First + x - 1))
  <2>1. ASSUME NEW x \in ToSet(stored), x < s  PROVE ~(seq <= First + x - 1)
    BY <1>5, <1>8, <2>1, Constants DEF Packets
  <2> QED  BY <1>1, <1>3, <1>8, <1>9, <2>1
<1>14. UNCHANGED agreement  BY <1>1
<1>15. Ordered' /\ Within(bound)' /\ InOrderStep /\ \A x \in ToSet(buffer') : seq <= First + x - 1
  BY <1>2, <1>3, <1>8, <1>11, <1>12, <1>13, <1>14, ForwardStep
<1>16. \A y \in Nat \ ToSet(stored) :
              /\ startingSeq <= First + y - 1 /\ seq <= First + y - 1
              /\ \A x \in ToSet(rx) : x < y
              => startingSeq' <= First + y - 1 /\ \A x \in ToSet(rx') : x < y
  BY <1>2, <1>3, <1>8, <1>11, <1>12, <1>13, <1>14, ForwardStep
<1>17. First \in Nat /\ Packets \subseteq Nat  BY Constants DEF Packets
<1>18. ASSUME NEW q \in outstanding \ cache  PROVE Missing(q)'
  <2>1. q \in Nat /\ s <= q  BY <1>3, <1>6, <1>17
  <2>6. q \notin ToSet(stored)  BY <1>8, <2>1
  <2>2. startingSeq <= First + q - 1 /\ \A x \in ToSet(rx) : x < q
    BY <1>2 DEF Missing
  <2>3. seq <= First + q - 1  BY <1>5, <1>17, <2>1
  <2>4. startingSeq' <= First + q - 1 /\ \A x \in ToSet(rx') : x < q
    BY <1>16, <2>1, <2>2, <2>3, <2>6
  <2>5. ToSet(rx)' = ToSet(rx')  BY DEF ToSet
  <2> QED  BY <2>4, <2>5 DEF Missing
<1>19. Agreed'
  <2>1. Within(next)'  BY <1>1, <1>9, <1>15 DEF Within
  <2>2. \A q \in outstanding' : q < next'  BY <1>1, <1>3
  <2> QED  BY <2>1, <2>2 DEF Agreed
<1>20. Awaited'
  <2>1. outstanding' \ cache' \subseteq outstanding \ cache /\ resend' \cap cache' = {}
    BY <1>1, <1>2
  <2>2. /\ ~established' => outstanding' = {}
        /\ current'.type = "data" => outstanding' = {} /\ current'.packet = next' - 1
        /\ current'.type = "bar" => \A p \in outstanding' : current'.packet <= p
    <3>1. CASE current' = NoFrame /\ outstanding' = outstanding \ cache
      BY <1>1, <1>2, <3>1 DEF NoFrame
    <3>2. CASE UNCHANGED <<outstanding, resend, current>>
      BY <1>1, <3>2 DEF Consistent, Awaited
    <3> QED  BY <1>1, <3>1, <3>2
  <2> QED  BY <1>1, <1>18, <2>1, <2>2 DEF Awaited
<1>21. OlderStep
  <2> SUFFICES ASSUME NEW i \in DOMAIN buffer'  PROVE buffer'[i] >= sendBlockAck
    BY DEF OlderStep
  <2>1. PICK kept \in Seq(Packets) : kept = buffer'  BY DEF RecipientType
  <2>2. i \in DOMAIN kept /\ kept[i] \in 1..MaxPacket /\ kept[i] \in ToSet(buffer')
    BY <2>1, PacketList DEF ToSet
  <2>3. PICK x \in 1..MaxPacket : x = kept[i]  BY <2>2
  <2>4. seq <= First + x - 1  BY <1>15, <2>2, <2>3
  <2>5. s <= x  BY <1>5, <1>17, <2>4
  <2> QED  BY <1>4, <2>1, <2>3, <2>5
<1> QED  BY <1>15, <1>19, <1>20, <1>21 DEF StepGood

\* The steps of the originator alone.
LEMMA OriginatorGood ==
  ASSUME NoWrap, Consistent, RecipientType', OriginatorType',
         \/ LifetimeEnds \/ FinalDataFailed \/ BlockAckInactivityTimeout
         \/ OverwrittenTimeout \/ UNCHANGED vars
  PROVE  StepGood
<1>1. /\ UNCHANGED <<agreement, startingSeq, buffer, cache, rx, sendBlockAck,
                     established, next>>
      /\ outstanding' \subseteq outstanding /\ resend' \subseteq resend
      /\ \/ current' = current
         \/ current' = NoFrame /\ sendBlockAck = 0
      /\ sendBlockAck' = sendBlockAck
  BY DEF LifetimeEnds, FinalDataFailed, BlockAckInactivityTimeout, OverwrittenTimeout, Idle,
         vars, recipientVars, originatorVars, timerVars
<1>2. Ordered /\ Within(next)  BY DEF Consistent, Agreed
<1>3. Ordered' /\ InOrderStep /\ \A q : Missing(q)' <=> Missing(q)
  BY <1>1, <1>2, Unmoved
<1>4. Agreed'  BY <1>1 DEF Consistent, Agreed, Within
<1>5. Awaited'
  <2>1. /\ ~established' => outstanding' = {}
        /\ resend' \cap cache' = {}
        /\ agreement' => \A p \in outstanding' \ cache' : Missing(p)'
    BY <1>1, <1>3 DEF Consistent, Awaited
  <2>2. sendBlockAck' # 0 => agreement' /\ current' = Bar(sendBlockAck')
    BY <1>1 DEF Consistent, Awaited
  <2>3. /\ current'.type = "data" => outstanding' = {} /\ current'.packet = next' - 1
        /\ current'.type = "bar" => \A p \in outstanding' : current'.packet <= p
    BY <1>1 DEF Consistent, Awaited, NoFrame
  <2> QED  BY <2>1, <2>2, <2>3 DEF Awaited
<1>6. OlderStep  BY <1>1 DEF OlderStep
<1> QED  BY <1>3, <1>4, <1>5, <1>6 DEF StepGood

LEMMA SetupGood ==
  ASSUME NoWrap, Consistent, RecipientType', OriginatorType', SetupBlockAck
  PROVE  StepGood
<1>1. /\ current = NoFrame /\ sendBlockAck = 0 /\ ~established /\ next \in Packets
      /\ agreement' = TRUE /\ established' = TRUE
      /\ UNCHANGED <<sendBlockAck, rx, next, outstanding, resend, current>>
      /\ IF agreement THEN UNCHANGED <<startingSeq, buffer, cache>>
         ELSE startingSeq' = Number(next) /\ buffer' = << >> /\ cache' = {}
  BY DEF SetupBlockAck, Idle, CreateBlockAckAgreement
<1>2. /\ Ordered /\ Within(next) /\ outstanding = {} /\ resend = {}
      /\ RecipientType /\ agreement \in BOOLEAN
  BY <1>1 DEF Consistent, Agreed, Awaited, OriginatorType, RecipientType
<1>3. CASE agreement
  <2>1. UNCHANGED <<agreement, startingSeq, buffer, cache, sendBlockAck, rx>>
    BY <1>1, <1>2, <1>3
  <2>2. Ordered' /\ InOrderStep  BY <1>2, <2>1, Unmoved
  <2>3. Agreed'  BY <1>1, <1>2, <2>1 DEF Agreed, Within
  <2> QED  BY <1>1, <1>2, <2>2, <2>3 DEF StepGood, Awaited, OlderStep, NoFrame
<1>4. CASE ~agreement
  <2>1. buffer = << >> /\ buffer' = << >> /\ cache' = {}
    BY <1>1, <1>2, <1>4 DEF Within
  <2>2. UNCHANGED buffer  BY <2>1
  <2>3. Ordered'  BY <1>1, <1>2, <2>2 DEF Ordered
  <2>4. startingSeq' = First + next - 1
    <3>1. next \in 1..(MaxPacket + 1)  BY <1>1, Constants DEF Packets
    <3> QED  BY <1>1, <1>4, <3>1, NumberIs
  <2>5. startingSeq' \in First..(First + next - 1)
    BY <1>1, <2>4, Constants DEF Packets
  <2>6. Agreed'
    <3>1. \A p \in ToSet(rx) : p < next  BY <1>2 DEF Within
    <3>2. ToSet(buffer') = {} /\ ToSet(buffer)' = ToSet(buffer') /\ ToSet(rx)' = ToSet(rx)
      BY <1>1, <2>1 DEF ToSet
    <3> QED  BY <1>1, <1>2, <2>1, <2>5, <3>1, <3>2 DEF Agreed, Within
  <2>7. InOrder!Open
    BY <1>1, <1>4, <2>2 DEF InOrder!Open
  <2>8. InOrderStep  BY <2>7 DEF InOrderStep, InOrder!Next
  <2> QED  BY <1>1, <1>2, <2>3, <2>6, <2>8 DEF StepGood, Awaited, OlderStep, NoFrame
<1> QED  BY <1>3, <1>4

LEMMA OriginatorDelbaGood ==
  ASSUME NoWrap, Consistent, RecipientType', OriginatorType',
         NEW acked \in BOOLEAN, OriginatorDelba(acked)
  PROVE  StepGood
<1>1. /\ current = NoFrame /\ sendBlockAck = 0 /\ DestroyBlockAckAgreement
      /\ UNCHANGED <<sendBlockAck, next, current>>
      /\ \/ outstanding' = {} /\ resend' = {}
         \/ UNCHANGED <<established, outstanding, resend>>
  BY DEF OriginatorDelba, Idle, TearDown
<1>2. /\ Ordered /\ Within(next) /\ RecipientType /\ next \in 1..(MaxPacket + 1)
      /\ ~established => outstanding = {}
      /\ resend \cap cache = {} /\ \A q \in outstanding : q < next
  BY DEF Consistent, Agreed, Awaited, OriginatorType
<1>3. PICK bound \in 1..(MaxPacket + 1) : bound = next  BY <1>2
<1>4. Ordered' /\ Within(bound)' /\ InOrderStep /\ ~agreement'
  BY <1>1, <1>2, <1>3, DestroyOrdered
<1>5. Agreed'  BY <1>1, <1>2, <1>3, <1>4 DEF Agreed, Within
<1>6. cache' = {}  BY <1>4 DEF Within
<1>7. Awaited'  BY <1>1, <1>2, <1>4, <1>6 DEF Awaited, NoFrame
<1> QED  BY <1>1, <1>4, <1>5, <1>7 DEF StepGood, OlderStep

LEMMA RecipientDelbaGood ==
  ASSUME NoWrap, Consistent, RecipientType', OriginatorType',
         NEW got \in BOOLEAN, NEW acked \in BOOLEAN, RecipientDelba(got, acked)
  PROVE  StepGood
<1>1. /\ sendBlockAck = 0
      /\ UNCHANGED <<sendBlockAck, next, current>>
      /\ \/ outstanding' = {} /\ resend' = {}
         \/ UNCHANGED <<established, outstanding, resend>>
      /\ \/ outstanding' = {} /\ resend' = {} /\ DestroyBlockAckAgreement
         \/ UNCHANGED <<agreement, startingSeq, buffer, cache, sendBlockAck, rx>>
  BY DEF RecipientDelba, TearDown
<1>2. /\ Ordered /\ Within(next) /\ RecipientType /\ next \in 1..(MaxPacket + 1)
      /\ ~established => outstanding = {}
      /\ resend \cap cache = {} /\ \A q \in outstanding : q < next
  BY DEF Consistent, Agreed, Awaited, OriginatorType
<1>3. PICK bound \in 1..(MaxPacket + 1) : bound = next  BY <1>2
<1>4. /\ Ordered' /\ Within(bound)' /\ InOrderStep
      /\ outstanding' = {} \/ \A q : Missing(q)' <=> Missing(q)
  <2>1. CASE outstanding' = {} /\ DestroyBlockAckAgreement
    BY <1>2, <1>3, <2>1, DestroyOrdered
  <2>2. CASE UNCHANGED <<agreement, startingSeq, buffer, cache, sendBlockAck, rx>>
    BY <1>2, <1>3, <2>2, Unmoved
  <2> QED  BY <1>1, <2>1, <2>2
<1>5. Agreed'  BY <1>1, <1>2, <1>3, <1>4 DEF Agreed, Within
<1>6. /\ current.type = "data" => outstanding = {} /\ current.packet = next - 1
      /\ current.type = "bar" => \A p \in outstanding : current.packet <= p
      /\ agreement => \A p \in outstanding \ cache : Missing(p)
  BY DEF Consistent, Awaited
<1>7. Awaited'
  <2>1. CASE outstanding' = {} /\ resend' = {}
    BY <1>1, <1>6, <2>1 DEF Awaited
  <2>2. CASE /\ UNCHANGED <<established, outstanding, resend>>
             /\ UNCHANGED <<agreement, startingSeq, buffer, cache, rx>>
    BY <1>1, <1>2, <1>4, <1>6, <2>2 DEF Awaited
  <2> QED  BY <1>1, <2>1, <2>2
<1> QED  BY <1>1, <1>4, <1>5, <1>7 DEF StepGood, OlderStep

LEMMA EveryStepGood ==
  ASSUME NoWrap, Consistent, [Next]_vars
  PROVE  Consistent' /\ InOrderStep /\ OlderStep
<1>1. RecipientType' /\ OriginatorType' /\ AcknowledgedIsKept'
  BY StepKeeps DEF Consistent
<1>2. StepGood
  BY <1>1, DataGood, NormalGood, RequestGood, BlockAckGood, OriginatorGood, SetupGood,
     OriginatorDelbaGood, RecipientDelbaGood DEF Next
<1> QED  BY <1>1, <1>2 DEF StepGood, Consistent

LEMMA InitConsistent == Init => Consistent /\ InOrder!Init
<1> SUFFICES ASSUME Init  PROVE Consistent /\ InOrder!Init
  OBVIOUS
<1>1. RecipientType /\ OriginatorType /\ AcknowledgedIsKept
  <2>1. << >> \in Seq(Packets) /\ 0 \in 0..(SeqSpace - 1) /\ 1 \in 1..(MaxPacket + 1)
        /\ 0 \in 0..(MaxPacket + 1) /\ 0 \in 0..MaxTeardowns
    BY Constants
  <2> QED
    BY <2>1, FrameTypes DEF Init, RecipientType, OriginatorType, AcknowledgedIsKept
<1>2. DOMAIN buffer = {} /\ DOMAIN rx = {} /\ ToSet(buffer) = {} /\ ToSet(rx) = {}
  BY DEF Init, ToSet
<1>3. Ordered  BY <1>2 DEF Ordered, Increasing, Sorted, Follows
<1>4. Agreed  BY <1>2 DEF Init, Agreed, Within
<1>5. Awaited  BY DEF Init, Awaited, NoFrame
<1>6. InOrder!Init  BY <1>2 DEF Init, InOrder!Init
<1> QED  BY <1>1, <1>3, <1>4, <1>5, <1>6 DEF Consistent

\* For a flow whose sequence numbers stay in the lower half of their space, the
\* recipient implements in-order delivery (mac-low.cc, the two
\* RxCompleteBufferedPackets functions): whatever is lost, repeated, given up or
\* torn down, packets go up in the order they were first sent, none twice, none
\* before an older one the buffer holds, and none taken in is dropped while the
\* agreement stands.
THEOREM ImplementsInOrderDelivery ==
  ASSUME NoWrap  PROVE Spec => DeliversInOrder
<1>1. Init => Consistent /\ InOrder!Init  BY InitConsistent
<1>2. Consistent /\ [Next]_vars => Consistent' /\ [InOrder!Next]_(InOrder!vars)
  BY EveryStepGood DEF InOrderStep
<1> QED  BY <1>1, <1>2, PTL DEF Spec, DeliversInOrder, InOrder!Spec

\* For such a flow, nothing older than a block ack request's start waits once the
\* request was answered (mac-low.cc, RxCompleteBufferedPacketsWithSmallerSequence).
THEOREM OlderForwarded ==
  ASSUME NoWrap  PROVE Spec => OlderThanRequestForwarded
<1>1. Init => Consistent  BY InitConsistent
<1>2. Consistent /\ [Next]_vars => Consistent'  BY EveryStepGood
<1>3. Consistent /\ [Next]_vars => [OlderStep]_vars  BY EveryStepGood
<1> QED  BY <1>1, <1>2, <1>3, PTL DEF Spec, OlderThanRequestForwarded, OlderStep
=============================================================================
