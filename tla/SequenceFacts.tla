--------------------------- MODULE SequenceFacts ---------------------------
(* What the deque operations of the queues return, for any sequence. *)
EXTENDS Naturals, Sequences, Deques, TLAPS, SequenceTheorems, WellFoundedInduction

(* The order of Nat as a set of pairs, the form WFMin takes it in. *)
LessThan == {ss \in Nat \X Nat : ss[1] < ss[2]}

(* Every nonempty set of positions has a smallest one. *)
LEMMA LessThanWellFounded == IsWellFoundedOn(LessThan, Nat)
<1>1. OpToRel(<, Nat) = LessThan
  BY Zenon DEF OpToRel, LessThan
<1>2. QED
  BY <1>1, NatLessThanWellFounded

(* Min returns a smallest element of a nonempty set of numbers. *)
LEMMA SmallestOf ==
    ASSUME NEW I, I \subseteq Nat, I # {}
    PROVE  SX!Min(I) \in I /\ \A i \in I : SX!Min(I) <= i
<1>1. PICK k \in I : \A i \in I : <<i, k>> \notin LessThan
  BY WFMin, LessThanWellFounded
<1>2. ASSUME NEW i \in I PROVE k <= i
  <2>1. i \in Nat /\ k \in Nat
    OBVIOUS
  <2>2. <<i, k>> \in Nat \X Nat /\ (i < k => <<i, k>> \in LessThan)
    BY <2>1 DEF LessThan
  <2>3. QED
    BY <2>1, <2>2, <1>1
<1>3. QED
  BY <1>2 DEF SX!Min

(* deque.remove looks for the first entry equal to its argument; here: the  *)
(* index SelectInSeq returns is a position that holds e.                    *)
LEMMA FirstOccurrence ==
    ASSUME NEW S, NEW s \in Seq(S), NEW e, \E i \in 1..Len(s) : s[i] = e
    PROVE  LET k == SX!SelectInSeq(s, LAMBDA v : v = e)
           IN  k \in 1..Len(s) /\ s[k] = e
<1> DEFINE I == {i \in 1..Len(s) : s[i] = e}
<1>1. I # {} /\ I \subseteq Nat
  OBVIOUS
<1>2. SX!Min(I) \in I
  BY <1>1, SmallestOf
<1>3. SX!SelectInSeq(s, LAMBDA v : v = e) = SX!Min(I)
  BY <1>1 DEF SX!SelectInSeq
<1>4. QED
  BY <1>2, <1>3

(* Removing position k keeps what is before it and shifts what is after. *)
LEMMA RemoveOne ==
    ASSUME NEW S, NEW s \in Seq(S), NEW k \in 1..Len(s)
    PROVE  LET r == SX!RemoveAt(s, k)
           IN  /\ r \in Seq(S)
               /\ Len(r) = Len(s) - 1
               /\ \A i \in 1..Len(r) : r[i] = IF i < k THEN s[i] ELSE s[i + 1]
<1> DEFINE a == SubSeq(s, 1, k - 1)
           b == SubSeq(s, k + 1, Len(s))
<1>1. Len(s) \in Nat /\ k \in Nat /\ 1 <= k /\ k <= Len(s)
  OBVIOUS
<1>2. /\ a \in Seq(S)
      /\ Len(a) = k - 1
      /\ \A i \in 1..k - 1 : a[i] = s[i]
  BY <1>1
<1>3. /\ b \in Seq(S)
      /\ Len(b) = Len(s) - k
      /\ \A i \in 1..Len(s) - k : b[i] = s[k + i]
  BY <1>1
<1>4. /\ a \o b \in Seq(S)
      /\ Len(a \o b) = Len(a) + Len(b)
      /\ \A i \in 1..Len(a) + Len(b) :
            (a \o b)[i] = IF i <= Len(a) THEN a[i] ELSE b[i - Len(a)]
  BY <1>2, <1>3, ConcatProperties
<1>5. SX!RemoveAt(s, k) = a \o b
  BY DEF SX!RemoveAt
<1> HIDE DEF a, b
<1>6. Len(a \o b) = Len(s) - 1
  BY <1>1, <1>2, <1>3, <1>4
<1>7. ASSUME NEW i \in 1..Len(s) - 1
      PROVE  (a \o b)[i] = IF i < k THEN s[i] ELSE s[i + 1]
  <2>1. i \in Nat /\ 1 <= i /\ i <= Len(s) - 1 /\ i \in 1..Len(a) + Len(b)
    BY <1>1, <1>2, <1>3
  <2>2. CASE i < k
    BY <2>1, <2>2, <1>1, <1>2, <1>4
  <2>3. CASE ~(i < k)
    <3>1. i - Len(a) \in 1..Len(s) - k /\ k + (i - Len(a)) = i + 1 /\ ~(i <= Len(a))
      BY <2>1, <2>3, <1>1, <1>2
    <3>2. (a \o b)[i] = b[i - Len(a)] /\ b[i - Len(a)] = s[i + 1]
      BY <3>1, <2>1, <1>3, <1>4
    <3>3. QED
      BY <3>2, <2>3
  <2>4. QED
    BY <2>2, <2>3
<1>8. QED
  BY <1>4, <1>5, <1>6, <1>7

(* _queue.remove(item) either finds nothing or takes out one entry equal to *)
(* item and leaves the others in their order.                               *)
LEMMA RemoveFirstProperties ==
    ASSUME NEW S, NEW s \in Seq(S), NEW e
    PROVE  LET r == SX!RemoveFirst(s, e)
           IN  \/ r = s /\ \A i \in 1..Len(s) : s[i] # e
               \/ /\ r \in Seq(S)
                  /\ Len(r) = Len(s) - 1
                  /\ \E k \in 1..Len(s) :
                       /\ s[k] = e
                       /\ \A i \in 1..Len(r) :
                             r[i] = IF i < k THEN s[i] ELSE s[i + 1]
<1>1. CASE \E i \in 1..Len(s) : s[i] = e
  <2> DEFINE k == SX!SelectInSeq(s, LAMBDA v : v = e)
  <2>1. k \in 1..Len(s) /\ s[k] = e
    BY <1>1, FirstOccurrence
  <2>2. SX!RemoveFirst(s, e) = SX!RemoveAt(s, k)
    BY <1>1 DEF SX!RemoveFirst
  <2> HIDE DEF k
  <2> DEFINE r == SX!RemoveAt(s, k)
  <2>3. /\ r \in Seq(S)
        /\ Len(r) = Len(s) - 1
        /\ \A i \in 1..Len(r) : r[i] = IF i < k THEN s[i] ELSE s[i + 1]
    BY <2>1, RemoveOne
  <2> HIDE DEF r
  <2>4. SX!RemoveFirst(s, e) = r
    BY <2>2 DEF r
  <2>5. QED
    BY <2>1, <2>3, <2>4
<1>2. CASE ~\E i \in 1..Len(s) : s[i] = e
  BY <1>2 DEF SX!RemoveFirst
<1>3. QED
  BY <1>1, <1>2

(* deque.insert(k, e) keeps what is before position k and shifts the rest. *)
LEMMA InsertOne ==
    ASSUME NEW S, NEW s \in Seq(S), NEW e \in S, NEW k \in 1..Len(s)
    PROVE  LET r == SX!InsertAt(s, k, e)
           IN  /\ r \in Seq(S)
               /\ Len(r) = Len(s) + 1
               /\ \A i \in 1..Len(r) :
                     r[i] = IF i < k THEN s[i] ELSE IF i = k THEN e ELSE s[i - 1]
<1> DEFINE a == SubSeq(s, 1, k - 1)
           c == a \o <<e>>
           b == SubSeq(s, k, Len(s))
<1>1. Len(s) \in Nat /\ k \in Nat /\ 1 <= k /\ k <= Len(s)
  OBVIOUS
<1>2. a \in Seq(S) /\ Len(a) = k - 1 /\ \A i \in 1..k - 1 : a[i] = s[i]
  BY <1>1
<1>3. b \in Seq(S) /\ Len(b) = Len(s) - k + 1
      /\ \A i \in 1..Len(s) - k + 1 : b[i] = s[k + i - 1]
  BY <1>1
<1>4. <<e>> \in Seq(S) /\ Len(<<e>>) = 1 /\ <<e>>[1] = e
  OBVIOUS
<1>5. /\ c \in Seq(S) /\ Len(c) = Len(a) + Len(<<e>>)
      /\ \A i \in 1..Len(a) + Len(<<e>>) :
            c[i] = IF i <= Len(a) THEN a[i] ELSE <<e>>[i - Len(a)]
  BY <1>2, <1>4, ConcatProperties
<1>7. /\ c \o b \in Seq(S) /\ Len(c \o b) = Len(c) + Len(b)
      /\ \A i \in 1..Len(c) + Len(b) :
            (c \o b)[i] = IF i <= Len(c) THEN c[i] ELSE b[i - Len(c)]
  BY <1>3, <1>5, ConcatProperties
<1> HIDE DEF a, b, c
<1>6. Len(c) = k /\ \A i \in 1..k : c[i] = IF i < k THEN s[i] ELSE e
  <2>1. Len(c) = k
    BY <1>1, <1>2, <1>4, <1>5
  <2>2. ASSUME NEW i \in 1..k PROVE c[i] = IF i < k THEN s[i] ELSE e
    <3>1. i \in Nat /\ 1 <= i /\ i <= k /\ i \in 1..Len(a) + Len(<<e>>)
      BY <1>1, <1>2, <1>4
    <3>2. CASE i < k
      BY <3>1, <3>2, <1>1, <1>2, <1>5
    <3>3. CASE i = k
      <4>1. ~(i <= Len(a)) /\ i - Len(a) = 1
        BY <3>1, <3>3, <1>1, <1>2
      <4>2. QED
        BY <4>1, <3>1, <3>3, <1>4, <1>5
    <3>4. QED
      BY <3>1, <3>2, <3>3, <1>1
  <2>3. QED
    BY <2>1, <2>2
<1>8. SX!InsertAt(s, k, e) = c \o b
  BY DEF SX!InsertAt, a, b, c
<1>9. Len(c \o b) = Len(s) + 1
  BY <1>1, <1>3, <1>6, <1>7
<1>10. ASSUME NEW i \in 1..Len(s) + 1
       PROVE  (c \o b)[i] = IF i < k THEN s[i] ELSE IF i = k THEN e ELSE s[i - 1]
  <2>1. i \in Nat /\ 1 <= i /\ i <= Len(s) + 1 /\ i \in 1..Len(c) + Len(b)
    BY <1>1, <1>7, <1>9
  <2>2. CASE i <= k
    BY <2>1, <2>2, <1>1, <1>6, <1>7
  <2>3. CASE k < i
    <3>1. i - k \in 1..Len(s) - k + 1 /\ k + (i - k) - 1 = i - 1 /\ ~(i <= k)
      BY <2>1, <2>3, <1>1
    <3>2. (c \o b)[i] = b[i - k] /\ b[i - k] = s[i - 1]
      BY <3>1, <2>1, <1>3, <1>6, <1>7
    <3>3. QED
      BY <3>2, <2>3, <1>1, <2>1
  <2>4. QED
    BY <2>1, <2>2, <2>3, <1>1
<1>11. QED
  BY <1>7, <1>8, <1>9, <1>10

=============================================================================
