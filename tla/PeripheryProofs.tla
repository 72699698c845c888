-------------------------- MODULE PeripheryProofs --------------------------
(***************************************************************************)
(* Proofs about the listeners, the decision managers and the code          *)
(* executors, each for its own specification, and about their composition: *)
(* for any messages, keys, cache and picture sizes; all intervals and any  *)
(* number of waits, replies and reminders; any number of executions,       *)
(* calls, cancellations and failures of the server.                        *)
(***************************************************************************)
EXTENDS Periphery, SequenceFacts, FiniteSetTheorems

(* The elements of a sequence are its range as a function.                  *)
LEMMA ToSetIsRange == ASSUME NEW s PROVE ToSet(s) = Range(s)
  BY DEF ToSet, Range

(* Concatenation adds the elements of the second sequence. *)
LEMMA ToSetConcat ==
    ASSUME NEW S, NEW s \in Seq(S), NEW t \in Seq(S)
    PROVE  ToSet(s \o t) = ToSet(s) \cup ToSet(t)
  BY RangeConcatenation, ToSetIsRange

(* Append adds one element. *)
LEMMA ToSetAppend ==
    ASSUME NEW S, NEW s \in Seq(S), NEW e \in S
    PROVE  ToSet(Append(s, e)) = ToSet(s) \cup {e}
<1>1. ToSet(<<e>>) = {e} /\ <<e>> \in Seq(S)
  BY DEF ToSet
<1>2. Append(s, e) = s \o <<e>>
  BY AppendIsConcat
<1>3. ToSet(s \o <<e>>) = ToSet(s) \cup ToSet(<<e>>)
  BY <1>1, ToSetConcat
<1>4. QED
  BY <1>1, <1>2, <1>3

(* popleft takes away no element but the first. *)
LEMMA ToSetTail ==
    ASSUME NEW S, NEW s \in Seq(S), s # <<>>
    PROVE  ToSet(s) = {Head(s)} \cup ToSet(Tail(s))
<1>1. /\ Tail(s) \in Seq(S) /\ Len(Tail(s)) = Len(s) - 1 /\ Len(s) \in Nat \ {0}
      /\ \A i \in 1..Len(Tail(s)) : Tail(s)[i] = s[i + 1]
      /\ Head(s) = s[1]
  BY HeadTailProperties, EmptySeq
<1>2. DOMAIN s = 1..Len(s) /\ DOMAIN Tail(s) = 1..Len(Tail(s))
  BY <1>1
<1>3. ASSUME NEW x \in ToSet(s) PROVE x \in {Head(s)} \cup ToSet(Tail(s))
  <2> PICK i \in 1..Len(s) : x = s[i]
    BY <1>2, <1>3 DEF ToSet
  <2>1. i = 1 \/ (i - 1 \in 1..Len(Tail(s)) /\ (i - 1) + 1 = i)
    BY <1>1
  <2>2. QED
    BY <1>1, <1>2, <2>1 DEF ToSet
<1>4. ASSUME NEW x \in {Head(s)} \cup ToSet(Tail(s)) PROVE x \in ToSet(s)
  <2>1. CASE x = Head(s)
    BY <1>1, <1>2, <2>1 DEF ToSet
  <2>2. CASE x \in ToSet(Tail(s))
    <3> PICK i \in 1..Len(Tail(s)) : x = Tail(s)[i]
      BY <1>2, <2>2 DEF ToSet
    <3>1. i + 1 \in 1..Len(s)
      BY <1>1
    <3>2. QED
      BY <1>1, <1>2, <3>1 DEF ToSet
  <2>3. QED
    BY <1>4, <2>1, <2>2
<1>5. QED
  BY <1>3, <1>4

(* A sequence has finitely many elements. *)
LEMMA ToSetFinite ==
    ASSUME NEW S, NEW s \in Seq(S)
    PROVE  ToSet(s) \subseteq S /\ IsFiniteSet(ToSet(s))
<1>1. Len(s) \in Nat /\ s \in [1..Len(s) -> S] /\ DOMAIN s = 1..Len(s)
  BY LenProperties
<1>2. s \in Surjection(1..Len(s), ToSet(s))
  BY <1>1 DEF Surjection, ToSet
<1>3. IsFiniteSet(1..Len(s))
  BY <1>1, FS_Interval
<1>4. IsFiniteSet(ToSet(s))
  BY <1>2, <1>3, FS_Surjection
<1>5. QED
  BY <1>1, <1>4 DEF ToSet

(* A finite set can be put in an order, which has just its elements.        *)
LEMMA SetToSeqOf ==
    ASSUME NEW S, IsFiniteSet(S)
    PROVE  SetToSeq(S) \in Seq(S) /\ ToSet(SetToSeq(S)) = S
<1> DEFINE n == Cardinality(S)  f == SetToSeq(S)
<1>1. n \in Nat /\ ExistsBijection(1..n, S)
  BY FS_CardinalityType
<1>2. PICK g \in Bijection(1..n, S) : TRUE
  BY <1>1 DEF ExistsBijection
<1>3. g \in [1..n -> S] /\ IsInjective(g)
  BY <1>2 DEF Bijection, Injection, IsInjective
<1>4. f \in [1..n -> S] /\ IsInjective(f)
  BY <1>3 DEF SetToSeq
<1> HIDE DEF f
<1>5. f \in Injection(1..n, S)
  BY <1>4 DEF Injection, IsInjective
<1>6. IsFiniteSet(1..n) /\ Cardinality(1..n) = n
  BY <1>1, FS_Interval
<1>7. f \in Surjection(1..n, S)
  BY <1>5, <1>6, FS_Injection
<1>8. f \in Seq(S)
  BY <1>1, <1>4
<1>9. ToSet(f) = S
  BY <1>4, <1>7 DEF Surjection, ToSet
<1>10. QED
  BY <1>8, <1>9 DEF f

-----------------------------------------------------------------------------
(* The listeners. An id in a filter is a key with what sets it apart: the   *)
(* message itself and the number of a poll, or a date.                      *)
Ids == {Key(m) : m \in Message} \X (SUBSET Message) \X Nat

(* The id of a message on this date, if it has no other.                    *)
DayId(m) == <<Key(m), {}, day>>

(* The listeners' variables have their types. *)
ListenersTypes ==
    /\ kind \in {"webhook", "ntwork", "uiautomation", "ocr"}
    /\ entry \in {"background", "listening", "alone"}
    /\ running \in BOOLEAN
    /\ poller \in {"off", "started", "on", "ended"}
    /\ loop \in {"off", "connecting", "on", "getting", "ended"}
    /\ hook \in {"off", "on", "leaving"}
    /\ day \in 0..MaxDays /\ late \in Nat
    /\ arrived \in Seq(Message) /\ queue \in Seq(Message)
    /\ previous \subseteq Message
    /\ cache \in Seq(Ids)
    /\ kind # "ocr" => Len(cache) <= MaxCache
    /\ handled \in [Message -> 0..MaxHandled]
    /\ reported \in [Message -> Nat]

(* After its one late message the listening loop finds _running unset; the  *)
(* webhook has no such loop.                                                *)
LateInv ==
    /\ late > 0 => ~running /\ loop \in {"on", "ended"}
    /\ kind = "webhook" => loop # "getting"

(* OCR forgets nothing: what it handled is in its memory.                   *)
OcrInv == kind = "ocr" => \A m \in Message : handled[m] > 0 => DayId(m) \in ToSet(cache)

(* Why a message may have been reported: by the listening loop, with its id *)
(* pushed out or new at every poll, or at most once on every date: once     *)
(* less if it is not remembered today.                                      *)
Explained(m) ==
    \/ loop \in {"on", "getting", "ended"} /\ kind # "webhook"
    \/ Key(m) \in evicted
    \/ kind = "uiautomation" /\ m \notin Timed
    \/ kind = "ntwork" /\ reported[m] <= 1 /\ handled[m] = 1
    \/ /\ kind # "ntwork" /\ reported[m] <= day + 1
       /\ DayId(m) \in ToSet(cache) \/ reported[m] <= day

ExplainedInv == \A m \in Message : reported[m] > 0 => Explained(m)

ListenersInv == ListenersTypes /\ LateInv /\ OcrInv /\ ExplainedInv /\ KnownWasReported

(* Remembering a message makes its id known and drops at most the oldest,   *)
(* whose key is then among the evicted.                                     *)
LEMMA RememberKeeps ==
    ASSUME ListenersTypes, kind # "ocr", NEW m \in Message, handled[m] < MaxHandled, Remember(m)
    PROVE  /\ cache' \in Seq(Ids) /\ Len(cache') <= MaxCache
           /\ handled' \in [Message -> 0..MaxHandled]
           /\ ToSet(cache') \subseteq ToSet(cache) \cup {Id(m)}
           /\ \A id \in ToSet(cache) \cup {Id(m)} : id \in ToSet(cache') \/ id[1] \in evicted'
           /\ evicted \subseteq evicted'
<1> DEFINE c == Append(cache, Id(m))
<1>0. MaxHandled \in Nat /\ MaxCache \in Nat /\ cache \in Seq(Ids) /\ Len(cache) <= MaxCache
  BY ListenersAssumption DEF ListenersTypes
<1>1. handled[m] \in Nat /\ handled[m] + 1 \in 0..MaxHandled
  BY <1>0 DEF ListenersTypes
<1>2. Id(m) \in Ids
  <2>1. day \in Nat
    BY ListenersAssumption DEF ListenersTypes
  <2>2. <<Key(m), {m}, handled[m]>> \in Ids /\ <<Key(m), {}, day>> \in Ids
    BY <1>1, <2>1 DEF Ids
  <2>3. QED
    BY <2>2 DEF Id
<1>3. c \in Seq(Ids) /\ c # <<>> /\ Len(c) = Len(cache) + 1 /\ ToSet(c) = ToSet(cache) \cup {Id(m)}
  BY <1>0, <1>2, AppendProperties, ToSetAppend
<1>4. Len(cache) \in Nat
  BY <1>0, LenProperties
<1>5. handled' \in [Message -> 0..MaxHandled]
  BY <1>1 DEF Remember, ListenersTypes
<1> HIDE DEF c
<1>6. CASE Overflows
  <2>1. cache' = Tail(c) /\ evicted' = evicted \cup {Head(c)[1]}
    BY <1>6 DEF Remember, c
  <2>2. ToSet(c) = {Head(c)} \cup ToSet(Tail(c))
    BY <1>3, ToSetTail
  <2>3. Tail(c) \in Seq(Ids) /\ Len(Tail(c)) = Len(c) - 1
    BY <1>3, HeadTailProperties
  <2>4. \A id \in ToSet(cache) \cup {Id(m)} : id \in ToSet(cache') \/ id[1] \in evicted'
    BY <1>3, <2>1, <2>2
  <2>5. QED
    BY <1>0, <1>3, <1>4, <1>5, <2>1, <2>2, <2>3, <2>4
<1>7. CASE ~Overflows
  <2>1. cache' = c /\ evicted' = evicted /\ Len(cache) < MaxCache
    BY <1>0, <1>4, <1>7 DEF Remember, c, Overflows
  <2>2. QED
    BY <1>0, <1>3, <1>4, <1>5, <2>1
<1>8. QED
  BY <1>6, <1>7

(* A message that is passed on is reported or else has failed.              *)
LEMMA PassKeeps ==
    ASSUME reported \in [Message -> Nat], queue \in Seq(Message), NEW m \in Message, Pass(m)
    PROVE  /\ reported' \in [Message -> Nat] /\ queue' \in Seq(Message)
           /\ \A n \in Message \ {m} : reported'[n] = reported[n]
           /\ reported'[m] \in {reported[m], reported[m] + 1}
           /\ failed \subseteq failed'
           /\ Key(m) \in failed' \/ reported'[m] > 0
<1>0. Append(queue, m) \in Seq(Message)
  BY AppendProperties
<1>1. CASE /\ reported' = [reported EXCEPT ![m] = @ + 1]
           /\ queue' = Append(queue, m) /\ UNCHANGED failed
  BY <1>0, <1>1
<1>2. CASE failed' = failed \cup {Key(m)} /\ UNCHANGED <<queue, reported>>
  <2>1. Key(m) \in failed' /\ failed \subseteq failed'
    BY <1>2
  <2>2. QED
    BY <1>2, <2>1
<1>3. QED
  BY <1>1, <1>2 DEF Pass

(* A message the webhook or UI Automation handles for the first time, or    *)
(* again after its id was pushed out, has one of the reasons.               *)
LEMMA HandledOneKeeps ==
    ASSUME ListenersInv, kind # "ocr", kind' = kind, UNCHANGED <<loop, day>>,
           NEW m \in Message, handled[m] < MaxHandled, ~Known(m), Remember(m), Pass(m),
           kind # "ntwork"
    PROVE  ExplainedInv' /\ KnownWasReported'
<1>1. /\ ToSet(cache') \subseteq ToSet(cache) \cup {Id(m)}
      /\ \A id \in ToSet(cache) \cup {Id(m)} : id \in ToSet(cache') \/ id[1] \in evicted'
      /\ evicted \subseteq evicted'
  BY RememberKeeps DEF ListenersInv
<1>2. /\ reported' \in [Message -> Nat]
      /\ \A n \in Message \ {m} : reported'[n] = reported[n]
      /\ reported'[m] \in {reported[m], reported[m] + 1}
      /\ failed \subseteq failed'
      /\ Key(m) \in failed' \/ reported'[m] > 0
  BY PassKeeps DEF ListenersInv, ListenersTypes
<1>3. \A n \in Message : reported[n] \in Nat
  BY DEF ListenersInv, ListenersTypes
<1>0. day \in Nat
  BY ListenersAssumption DEF ListenersInv, ListenersTypes
<1>4. ASSUME NEW n \in Message, reported'[n] > 0 PROVE Explained(n)'
  <2>1. CASE n = m /\ reported'[n] = reported[n] + 1
    <3>1. CASE kind = "uiautomation" /\ n \notin Timed
      BY <3>1 DEF Explained
    <3>2. CASE ~(kind = "uiautomation" /\ n \notin Timed)
      <4>1. Id(m) = DayId(m) /\ DayId(m) \notin ToSet(cache) /\ DayId(m)[1] = Key(m)
        BY <2>1, <3>2 DEF Id, DayId, Known
      <4>2. DayId(m)' \in ToSet(cache') \/ Key(m) \in evicted'
        BY <1>1, <4>1 DEF DayId
      <4>3. CASE reported[n] = 0
        BY <1>0, <1>2, <2>1, <4>2, <4>3 DEF Explained
      <4>4. CASE reported[n] > 0
        <5>1. Explained(n)
          BY <4>4 DEF ListenersInv, ExplainedInv
        <5>2. QED
          BY <1>0, <1>1, <1>3, <2>1, <3>2, <4>1, <4>2, <5>1 DEF Explained
      <4>5. QED
        BY <1>3, <4>3, <4>4
    <3>3. QED
      BY <3>1, <3>2
  <2>2. CASE reported'[n] = reported[n]
    <3>1. Explained(n)
      BY <1>4, <2>2 DEF ListenersInv, ExplainedInv
    <3>2. DayId(n) \in ToSet(cache) => DayId(n)' \in ToSet(cache') \/ Key(n) \in evicted'
      BY <1>1 DEF DayId
    <3>3. QED
      BY <1>1, <2>2, <3>1, <3>2 DEF Explained
  <2>3. QED
    BY <1>2, <2>1, <2>2
<1>5. ASSUME NEW id \in ToSet(cache')
      PROVE  id[1] \in failed' \/ \E n \in Message : Key(n) = id[1] /\ reported'[n] > 0
  <2>1. CASE id \in ToSet(cache)
    <3>1. id[1] \in failed \/ \E n \in Message : Key(n) = id[1] /\ reported[n] > 0
      BY <2>1 DEF ListenersInv, KnownWasReported
    <3>2. \A n \in Message : reported[n] > 0 => reported'[n] > 0
      BY <1>2, <1>3
    <3>3. QED
      BY <1>2, <3>1, <3>2
  <2>2. CASE id = Id(m)
    BY <1>2, <2>2 DEF Id
  <2>3. QED
    BY <1>1, <1>5, <2>1, <2>2
<1>6. QED
  BY <1>4, <1>5 DEF ExplainedInv, KnownWasReported

(* What one poll looks at are finitely many of the messages that arrived.   *)
LEMMA OnScreenProperties ==
    ASSUME arrived \in Seq(Message)
    PROVE  OnScreen \subseteq ToSet(arrived) /\ OnScreen \subseteq Message /\ IsFiniteSet(OnScreen)
<1> DEFINE a == IF Len(arrived) > Visible THEN Len(arrived) - Visible + 1 ELSE 1
           s == SubSeq(arrived, a, Len(arrived))
<1>1. Len(arrived) \in Nat /\ DOMAIN arrived = 1..Len(arrived) /\ Visible \in Nat \ {0}
  BY LenProperties, ListenersAssumption
<1>2. a \in Int /\ a >= 1 /\ \A i \in a..Len(arrived) : i \in 1..Len(arrived)
  BY <1>1
<1> HIDE DEF a
<1>3. \A i \in a..Len(arrived) : arrived[i] \in Message
  BY <1>2
<1>4. /\ s \in Seq(Message)
      /\ Len(s) = IF a <= Len(arrived) THEN Len(arrived) - a + 1 ELSE 0
      /\ \A i \in 1..Len(arrived) - a + 1 : s[i] = arrived[a + i - 1]
  BY <1>1, <1>2, <1>3, SubSeqProperties
<1> HIDE DEF s
<1>5. DOMAIN s = 1..Len(s) /\ Len(s) \in Nat
  BY <1>4, LenProperties
<1>6. ASSUME NEW i \in 1..Len(s) PROVE s[i] \in ToSet(arrived)
  <2>1. i \in 1..Len(arrived) - a + 1 /\ a + i - 1 \in 1..Len(arrived)
    BY <1>1, <1>2, <1>4
  <2>2. QED
    BY <1>1, <1>4, <2>1 DEF ToSet
<1>7. OnScreen = ToSet(s)
  BY DEF OnScreen, s, a
<1>8. ToSet(s) \subseteq ToSet(arrived)
  BY <1>5, <1>6 DEF ToSet
<1>9. QED
  BY <1>4, <1>7, <1>8, ToSetFinite

(* Of the new messages of a key on a picture the first is passed on.        *)
LEMMA FirstOfKey ==
    ASSUME arrived \in Seq(Message), NEW m \in Unseen
    PROVE  \E f \in Firsts : Key(f) = Key(m)
<1> DEFINE I == {i \in 1..Len(arrived) : arrived[i] \in Unseen /\ Key(arrived[i]) = Key(m)}
           k == SX!Min(I)
<1>1. DOMAIN arrived = 1..Len(arrived) /\ Unseen \subseteq ToSet(arrived)
  BY LenProperties, OnScreenProperties DEF Unseen
<1>2. \A n \in Unseen : \E i \in 1..Len(arrived) : arrived[i] = n
  BY <1>1 DEF ToSet
<1>3. I # {} /\ I \subseteq Nat
  BY <1>2
<1>4. k \in I /\ \A i \in I : k <= i
  BY <1>3, SmallestOf
<1> HIDE DEF k
<1>5. \A n \in Unseen : Key(n) = Key(arrived[k]) => Before(arrived[k], n)
  <2> TAKE n \in Unseen
  <2> HAVE Key(n) = Key(arrived[k])
  <2>1. PICK j \in 1..Len(arrived) : arrived[j] = n
    BY <1>2
  <2>2. j \in I /\ k \in 1..Len(arrived)
    BY <1>4, <2>1
  <2>3. k <= j /\ arrived[k] = arrived[k] /\ arrived[j] = n
    BY <1>4, <2>1, <2>2
  <2> QED
    BY <2>2, <2>3 DEF Before
<1>6. arrived[k] \in Firsts
  BY <1>4, <1>5 DEF Firsts
<1>7. QED
  BY <1>4, <1>6

(* What a poll of the picture finds is remembered, for the first time.      *)
LEMMA DetectKeeps ==
    ASSUME ListenersTypes, OcrInv, kind = "ocr", UNCHANGED <<kind, day>>, DetectNewMessages
    PROVE  /\ previous' \subseteq Message /\ cache' \in Seq(Ids)
           /\ handled' \in [Message -> 0..MaxHandled] /\ OcrInv'
           /\ ToSet(cache') = ToSet(cache) \cup {DayId(m) : m \in Unseen}
<1> DEFINE U == {DayId(m) : m \in Unseen}
           f == [m \in Unseen |-> DayId(m)]
<1>0. day \in Nat /\ \A m \in Message : Id(m) = DayId(m)
  BY ListenersAssumption DEF Id, DayId, ListenersTypes
<1>1. OnScreen \subseteq Message /\ IsFiniteSet(OnScreen) /\ Unseen \subseteq OnScreen
  BY OnScreenProperties DEF Unseen, ListenersTypes
<1>2. IsFiniteSet(Unseen)
  BY <1>1, FS_Subset
<1>3. f \in Surjection(Unseen, U)
  BY DEF Surjection
<1>4. IsFiniteSet(U)
  BY <1>2, <1>3, FS_Surjection
<1>5. U \subseteq Ids
  BY <1>0, <1>1 DEF Ids, DayId
<1> HIDE DEF U, f
<1>6. SetToSeq(U) \in Seq(U) /\ ToSet(SetToSeq(U)) = U
  BY <1>4, SetToSeqOf
<1>7. SetToSeq(U) \in Seq(Ids)
  BY <1>5, <1>6, SeqMonotonic
<1>8. cache' = cache \o SetToSeq(U) /\ cache \in Seq(Ids)
  <2>1. {Id(m) : m \in Unseen} = U
    BY <1>0, <1>1 DEF U
  <2>2. QED
    BY <2>1 DEF DetectNewMessages, ListenersTypes
<1>9. cache' \in Seq(Ids) /\ ToSet(cache') = ToSet(cache) \cup U
  BY <1>6, <1>7, <1>8, ConcatProperties, ToSetConcat
<1>10. previous' \subseteq Message
  BY <1>1 DEF DetectNewMessages
<1>11. \A m \in Unseen : DayId(m) \notin ToSet(cache) /\ m \in Message
  BY <1>0, <1>1 DEF Unseen, Known
<1>12. MaxHandled \in Nat \ {0} /\ \A m \in Message : handled[m] \in Nat /\ handled[m] \in 0..MaxHandled
  BY ListenersAssumption DEF ListenersTypes
<1>13. \A m \in Unseen : handled[m] = 0 /\ handled[m] + 1 \in 0..MaxHandled
  <2> TAKE m \in Unseen
  <2>1. m \in Message /\ ~(handled[m] > 0)
    BY <1>11 DEF OcrInv
  <2>2. handled[m] = 0
    BY <1>12, <2>1
  <2> QED
    BY <1>12, <2>2
<1>14. handled' = [m \in Message |-> IF m \in Unseen THEN handled[m] + 1 ELSE handled[m]]
  BY DEF DetectNewMessages
<1>15. handled' \in [Message -> 0..MaxHandled]
  BY <1>12, <1>13, <1>14
<1>16. \A m \in Unseen : DayId(m) \in U
  BY DEF U
<1>17. OcrInv'
  BY <1>9, <1>12, <1>14, <1>16 DEF OcrInv, DayId
<1>18. QED
  BY <1>9, <1>10, <1>15, <1>17 DEF U

(* A poll of the picture keeps the invariant.                               *)
LEMMA PollPictureKeeps ==
    ASSUME ListenersInv, PollPicture
    PROVE  ListenersInv'
<1>1. /\ kind = "ocr" /\ poller = "on" /\ poller' = "started" /\ DetectNewMessages
      /\ UNCHANGED <<kind, entry, running, loop, hook, day, arrived, evicted, late>>
  BY DEF PollPicture
<1>2. PICK passed \in SUBSET Firsts :
          /\ \E inOrder \in SetToSeqs(passed) : queue' = queue \o inOrder
          /\ reported' = [m \in Message |-> IF m \in passed THEN reported[m] + 1 ELSE reported[m]]
          /\ failed' = failed \cup {Key(m) : m \in Firsts \ passed}
  BY DEF PollPicture
<1>3. /\ previous' \subseteq Message /\ cache' \in Seq(Ids)
      /\ handled' \in [Message -> 0..MaxHandled] /\ OcrInv'
      /\ ToSet(cache') = ToSet(cache) \cup {DayId(m) : m \in Unseen}
  BY <1>1, DetectKeeps DEF ListenersInv
<1>4. Firsts \subseteq Unseen /\ Unseen \subseteq Message /\ IsFiniteSet(Firsts)
  BY OnScreenProperties, FS_Subset DEF Firsts, Unseen, ListenersInv, ListenersTypes
<1>a. PICK inOrder \in SetToSeqs(passed) : queue' = queue \o inOrder
  BY <1>2
<1>b. queue' \in Seq(Message)
  <2>1. Cardinality(passed) \in Nat
    BY <1>4, FS_Subset, FS_CardinalityType
  <2>2. inOrder \in [1..Cardinality(passed) -> Message]
    BY <1>4 DEF SetToSeqs
  <2>3. inOrder \in Seq(Message)
    BY <2>1, <2>2
  <2>4. QED
    BY <1>a, <2>3, ConcatProperties DEF ListenersInv, ListenersTypes
<1>5. \A m \in Message : reported[m] \in Nat
  BY DEF ListenersInv, ListenersTypes
<1>6. \A m \in Message : reported'[m] = IF m \in passed THEN reported[m] + 1 ELSE reported[m]
  BY <1>2
<1>7. \A m \in passed : reported'[m] > 0
  BY <1>2, <1>4, <1>5
<1>0. day \in Nat
  BY ListenersAssumption DEF ListenersInv, ListenersTypes
<1>8. \A f \in Firsts : Key(f) \in failed' \/ reported'[f] > 0
  BY <1>2, <1>7
<1>9. ListenersTypes'
  BY <1>b, <1>1, <1>2, <1>3, <1>4, <1>5 DEF ListenersInv, ListenersTypes
<1>10. ASSUME NEW n \in Message, reported'[n] > 0 PROVE Explained(n)'
  <2>1. CASE n \in passed
    <3>1. /\ DayId(n)' \in ToSet(cache') /\ DayId(n) \notin ToSet(cache)
          /\ reported'[n] = reported[n] + 1
      BY <1>1, <1>3, <1>4, <1>6, <2>1 DEF Unseen, Known, Id, DayId
    <3>2. CASE reported[n] = 0
      BY <1>0, <1>1, <3>1, <3>2 DEF Explained
    <3>3. CASE reported[n] > 0
      <4>1. Explained(n)
        BY <3>3 DEF ListenersInv, ExplainedInv
      <4>2. QED
        BY <1>0, <1>1, <1>5, <3>1, <4>1 DEF Explained
    <3>4. QED
      BY <1>5, <3>2, <3>3
  <2>2. CASE n \notin passed
    <3>1. reported'[n] = reported[n]
      BY <1>6, <2>2
    <3>2. Explained(n)
      BY <1>10, <3>1 DEF ListenersInv, ExplainedInv
    <3>3. QED
      BY <1>1, <1>3, <3>1, <3>2 DEF Explained, DayId
  <2>3. QED
    BY <2>1, <2>2
<1>11. ASSUME NEW id \in ToSet(cache')
       PROVE  id[1] \in failed' \/ \E n \in Message : Key(n) = id[1] /\ reported'[n] > 0
  <2>1. CASE id \in ToSet(cache)
    <3>1. id[1] \in failed \/ \E n \in Message : Key(n) = id[1] /\ reported[n] > 0
      BY <2>1 DEF ListenersInv, KnownWasReported
    <3>2. \A n \in Message : reported[n] > 0 => reported'[n] > 0
      BY <1>5, <1>6
    <3>3. QED
      BY <1>2, <3>1, <3>2
  <2>2. CASE id \in {DayId(m) : m \in Unseen}
    <3>1. PICK m \in Unseen : id[1] = Key(m)
      BY <2>2 DEF DayId
    <3>2. PICK f \in Firsts : Key(f) = Key(m)
      BY FirstOfKey DEF ListenersInv, ListenersTypes
    <3>3. QED
      BY <1>4, <1>8, <3>1, <3>2
  <2>3. QED
    BY <1>3, <1>11, <2>1, <2>2
<1>12. LateInv'
  BY <1>1 DEF ListenersInv, LateInv
<1>13. QED
  BY <1>3, <1>9, <1>10, <1>11, <1>12 DEF ListenersInv, ExplainedInv, KnownWasReported

(* Nothing is known and nothing reported at first. *)
LEMMA ListenersInitOK == ListenersInit => ListenersInv
<1> SUFFICES ASSUME ListenersInit PROVE ListenersInv
  OBVIOUS
<1>0. MaxHandled \in Nat /\ MaxCache \in Nat
  BY ListenersAssumption
<1>d. MaxDays \in Nat
  BY ListenersAssumption
<1>1. ListenersTypes
  <2>1. handled \in [Message -> 0..MaxHandled] /\ reported \in [Message -> Nat]
    BY <1>0 DEF ListenersInit
  <2>2. <<>> \in Seq(Message) /\ <<>> \in Seq(Ids) /\ Len(<<>>) = 0
    BY EmptySeq
  <2>3. arrived \in Seq(Message) /\ queue \in Seq(Message) /\ cache \in Seq(Ids)
        /\ Len(cache) <= MaxCache
    BY <1>0, <2>2 DEF ListenersInit
  <2>4. day \in 0..MaxDays /\ late \in Nat
    BY <1>d DEF ListenersInit
  <2>5. /\ kind \in {"webhook", "ntwork", "uiautomation", "ocr"}
        /\ entry \in {"background", "listening", "alone"} /\ running \in BOOLEAN
        /\ poller \in {"off", "started", "on", "ended"} /\ previous \subseteq Message
        /\ loop \in {"off", "connecting", "on", "getting", "ended"} /\ hook \in {"off", "on", "leaving"}
    BY DEF ListenersInit
  <2>6. QED
    BY <2>1, <2>3, <2>4, <2>5 DEF ListenersTypes
<1>2. ToSet(cache) = {}
  BY DEF ListenersInit, ToSet
<1>3. QED
  BY <1>1, <1>2
    DEF ListenersInit, ListenersInv, LateInv, OcrInv, ExplainedInv, KnownWasReported

(* What every step that touches neither the memory nor the reports keeps.   *)
LEMMA ThreadsKeep ==
    ASSUME ListenersInv, UNCHANGED <<kind, entry, day, memory, queue, reported, late>>,
           loop' \in {"off", "connecting", "on", "getting", "ended"}, running' \in BOOLEAN,
           poller' \in {"off", "started", "on", "ended"}, hook' \in {"off", "on", "leaving"},
           arrived' \in Seq(Message), LateInv',
           loop \in {"on", "getting", "ended"} /\ kind # "webhook" => loop' \in {"on", "getting", "ended"}
    PROVE  ListenersInv'
<1>1. ListenersTypes' /\ OcrInv' /\ KnownWasReported'
  BY DEF memory, ListenersInv, ListenersTypes, OcrInv, KnownWasReported, DayId
<1>2. ASSUME NEW n \in Message, reported'[n] > 0 PROVE Explained(n)'
  <2>1. Explained(n)
    BY <1>2 DEF ListenersInv, ExplainedInv
  <2>2. QED
    BY <2>1 DEF Explained, memory, DayId
<1>3. QED
  BY <1>1, <1>2 DEF ListenersInv, ExplainedInv

(* At midnight a message may be reported once more, and its id is new.      *)
LEMMA MidnightKeeps == ASSUME ListenersInv, Midnight PROVE ListenersInv'
<1>1. /\ kind = "uiautomation" /\ day' = day + 1 /\ day' \in 0..MaxDays
      /\ day \in Nat /\ day' \in Nat
      /\ UNCHANGED <<kind, entry, threads, arrived, memory, queue, reported, late>>
  BY ListenersAssumption DEF Midnight, ListenersInv, ListenersTypes
<1>2. ListenersTypes' /\ LateInv' /\ OcrInv' /\ KnownWasReported'
  BY <1>1 DEF memory, threads, ListenersInv, ListenersTypes, LateInv, OcrInv, KnownWasReported
<1>3. ASSUME NEW n \in Message, reported'[n] > 0 PROVE Explained(n)'
  <2>1. Explained(n) /\ reported[n] \in Nat
    BY <1>1, <1>3 DEF ListenersInv, ListenersTypes, ExplainedInv
  <2>2. reported[n] <= day + 1 => reported'[n] <= day' + 1 /\ reported'[n] <= day'
    BY <1>1, <2>1
  <2>3. QED
    BY <1>1, <2>1, <2>2 DEF Explained, memory, threads
<1>4. QED
  BY <1>2, <1>3 DEF ListenersInv, ExplainedInv

(* Every action of a listener keeps the inductive invariant.                *)
LEMMA ListenersStepOK == ListenersInv /\ [ListenersNext]_listenersVars => ListenersInv'
<1> SUFFICES ASSUME ListenersInv, [ListenersNext]_listenersVars PROVE ListenersInv'
  OBVIOUS
<1>a. CASE RegisterHook
  BY <1>a, ThreadsKeep DEF RegisterHook, ListenersInv, ListenersTypes, LateInv
<1>b. CASE ExitHook
  BY <1>b, ThreadsKeep DEF ExitHook, ListenersInv, ListenersTypes, LateInv
<1>c. CASE ListenAgain
  BY <1>c, ThreadsKeep DEF ListenAgain, ListenersInv, ListenersTypes, LateInv
<1>d. CASE Midnight
  BY <1>d, MidnightKeeps
<1>1. CASE Connect
  BY <1>1, ThreadsKeep DEF Connect, Connecting, ListenersInv, ListenersTypes, LateInv
<1>2. CASE StartBackground
  BY <1>2, ThreadsKeep DEF StartBackground, ListenersInv, ListenersTypes, LateInv
<1>3. CASE RunListeningLoop
  BY <1>3, ThreadsKeep DEF RunListeningLoop, Connecting, ListenersInv, ListenersTypes, LateInv
<1>4. CASE StartListening
  BY <1>4, ThreadsKeep DEF StartListening, ListenersInv, ListenersTypes, LateInv
<1>5. CASE RunPollingLoop
  BY <1>5, ThreadsKeep DEF RunPollingLoop, ListenersInv, ListenersTypes, LateInv
<1>6. CASE Disconnect
  BY <1>6, ThreadsKeep DEF Disconnect, ListenersInv, ListenersTypes, LateInv
<1>7. ASSUME NEW m \in Message, Arrive(m) PROVE ListenersInv'
  <2>1. Append(arrived, m) \in Seq(Message)
    BY AppendProperties DEF ListenersInv, ListenersTypes
  <2>2. QED
    BY <1>7, <2>1, ThreadsKeep DEF Arrive, threads, ListenersInv, ListenersTypes, LateInv
<1>8. ASSUME NEW m \in Message, HandleWebhookRequest(m) PROVE ListenersInv'
  <2>1. /\ kind = "webhook" /\ handled[m] < MaxHandled
        /\ UNCHANGED <<kind, entry, running, poller, loop, hook, day, arrived, previous, late>>
    BY <1>8 DEF HandleWebhookRequest, threads
  <2>2. CASE Known(m)
    <3>1. UNCHANGED <<cache, evicted, handled, failed, queue, reported>>
      BY <1>8, <2>2 DEF HandleWebhookRequest
    <3>2. QED
      BY <2>1, <3>1, ThreadsKeep DEF memory, ListenersInv, ListenersTypes, LateInv
  <2>3. CASE ~Known(m)
    <3>1. Remember(m) /\ Pass(m)
      BY <1>8, <2>3 DEF HandleWebhookRequest
    <3>2. ExplainedInv' /\ KnownWasReported'
      BY <2>1, <2>3, <3>1, HandledOneKeeps
    <3>3. /\ cache' \in Seq(Ids) /\ Len(cache') <= MaxCache
          /\ handled' \in [Message -> 0..MaxHandled]
      BY <2>1, <3>1, RememberKeeps DEF ListenersInv
    <3>4. reported' \in [Message -> Nat] /\ queue' \in Seq(Message)
      BY <3>1, PassKeeps DEF ListenersInv, ListenersTypes
    <3>5. QED
      BY <2>1, <3>2, <3>3, <3>4 DEF ListenersInv, ListenersTypes, LateInv, OcrInv
  <2>4. QED
    BY <2>2, <2>3
<1>9. ASSUME NEW m \in Message, HandleNtworkMessage(m) PROVE ListenersInv'
  <2>1. /\ kind = "ntwork" /\ handled[m] = 0 /\ handled' = [handled EXCEPT ![m] = 1] /\ Pass(m)
        /\ UNCHANGED <<kind, entry, running, poller, loop, hook, day, arrived, previous, cache, evicted, late>>
    BY <1>9 DEF HandleNtworkMessage, threads
  <2>2. /\ reported' \in [Message -> Nat] /\ queue' \in Seq(Message)
        /\ \A n \in Message \ {m} : reported'[n] = reported[n]
        /\ reported'[m] \in {reported[m], reported[m] + 1}
        /\ failed \subseteq failed'
    BY <2>1, PassKeeps DEF ListenersInv, ListenersTypes
  <2>3. \A n \in Message : reported[n] \in Nat
    BY DEF ListenersInv, ListenersTypes
  <2>4. handled' \in [Message -> 0..MaxHandled] /\ handled'[m] = 1
    BY <2>1, ListenersAssumption DEF ListenersInv, ListenersTypes
  <2>5. ListenersTypes' /\ LateInv' /\ OcrInv'
    BY <2>1, <2>2, <2>4 DEF ListenersInv, ListenersTypes, LateInv, OcrInv
  <2>6. KnownWasReported'
    <3>1. \A n \in Message : reported[n] > 0 => reported'[n] > 0
      BY <2>2, <2>3
    <3>2. QED
      BY <2>1, <2>2, <3>1 DEF ListenersInv, KnownWasReported
  <2>7. ASSUME NEW n \in Message, reported'[n] > 0 PROVE Explained(n)'
    <3>1. CASE n = m
      <4>1. CASE reported[m] = 0
        <5>1. reported'[m] <= 1
          BY <2>2, <4>1
        <5>2. QED
          BY <2>1, <2>4, <3>1, <5>1 DEF Explained
      <4>2. CASE reported[m] > 0
        <5>1. Explained(m)
          BY <4>2 DEF ListenersInv, ExplainedInv
        <5>2. QED
          BY <2>1, <3>1, <5>1 DEF Explained
      <4>3. QED
        BY <2>3, <4>1, <4>2
    <3>2. CASE n # m
      <4>1. reported'[n] = reported[n] /\ handled'[n] = handled[n]
        BY <2>1, <2>2, <3>2 DEF ListenersInv, ListenersTypes
      <4>2. Explained(n)
        BY <2>7, <4>1 DEF ListenersInv, ExplainedInv
      <4>3. QED
        BY <2>1, <4>1, <4>2 DEF Explained
    <3>3. QED
      BY <3>1, <3>2
  <2>8. QED
    BY <2>5, <2>6, <2>7 DEF ListenersInv, ExplainedInv
<1>10. ASSUME NEW m \in Message, PollItem(m) PROVE ListenersInv'
  <2>1. /\ kind = "uiautomation" /\ ~Known(m) /\ handled[m] < MaxHandled /\ Remember(m) /\ Pass(m)
        /\ poller' \in {"on", "started"}
        /\ UNCHANGED <<kind, entry, running, loop, hook, day, arrived, previous, late>>
    BY <1>10 DEF PollItem
  <2>2. ExplainedInv' /\ KnownWasReported'
    BY <2>1, HandledOneKeeps
  <2>3. /\ cache' \in Seq(Ids) /\ Len(cache') <= MaxCache
        /\ handled' \in [Message -> 0..MaxHandled]
    BY <2>1, RememberKeeps DEF ListenersInv
  <2>4. reported' \in [Message -> Nat] /\ queue' \in Seq(Message)
    BY <2>1, PassKeeps DEF ListenersInv, ListenersTypes
  <2>5. QED
    BY <2>1, <2>2, <2>3, <2>4 DEF ListenersInv, ListenersTypes, LateInv, OcrInv
<1>11. CASE PollPicture
  BY <1>11, PollPictureKeeps
<1>12. CASE GetNextMessage
  <2>0. CASE queue = <<>>
    BY <1>12, <2>0, ThreadsKeep DEF GetNextMessage, ListenersInv, ListenersTypes, LateInv
  <2>x. CASE queue # <<>>
    <3>1. /\ loop = "getting" /\ loop' = "on" /\ Head(queue) \in Message
          /\ UNCHANGED <<kind, entry, running, poller, hook, day, arrived,
                         previous, cache, handled, failed, evicted>>
          /\ reported' = [reported EXCEPT ![Head(queue)] = @ + 1]
          /\ queue' \in Seq(Message)
          /\ late' = IF running THEN late ELSE late + 1
      BY <1>12, <2>x, HeadTailProperties DEF GetNextMessage, memory, ListenersInv, ListenersTypes
    <3>2. reported' \in [Message -> Nat] /\ \A n \in Message : reported[n] > 0 => reported'[n] > 0
      BY <3>1 DEF ListenersInv, ListenersTypes
    <3>3. ListenersTypes' /\ LateInv' /\ OcrInv'
      BY <3>1, <3>2 DEF ListenersInv, ListenersTypes, LateInv, OcrInv, DayId
    <3>4. KnownWasReported'
      BY <3>1, <3>2 DEF ListenersInv, KnownWasReported
    <3>5. ASSUME NEW n \in Message, reported'[n] > 0 PROVE Explained(n)'
      <4>1. CASE kind # "webhook"
        BY <3>1, <4>1 DEF Explained
      <4>2. CASE kind = "webhook"
        BY <3>1, <4>2 DEF ListenersInv, LateInv
      <4>3. QED
        BY <4>1, <4>2
    <3>6. QED
      BY <3>3, <3>4, <3>5 DEF ListenersInv, ExplainedInv
  <2>y. QED
    BY <2>0, <2>x
<1>13. CASE UNCHANGED listenersVars
  BY <1>13, ThreadsKeep DEF listenersVars, threads, ListenersInv, ListenersTypes, LateInv
<1>14. QED
  BY <1>a, <1>b, <1>c, <1>d, <1>1, <1>2, <1>3, <1>4, <1>5, <1>6, <1>7, <1>8, <1>9, <1>10, <1>11,
     <1>12, <1>13 DEF ListenersNext

(* The inductive invariant of the listeners holds throughout: above all,    *)
(* every report so far has one of the reasons Explained lists.              *)
THEOREM ListenersInvariantHolds == ListenersSpec => []ListenersInv
  BY ListenersInitOK, ListenersStepOK, PTL DEF ListenersSpec

(* The types, for any messages, and the bound on the filters' memory.       *)
THEOREM ListenersTypeCorrect == ListenersSpec => []ListenersTypeOK
<1>1. ListenersInv => ListenersTypeOK
  BY DEF ListenersInv, ListenersTypes, ListenersTypeOK, Ids
<1>2. QED
  BY <1>1, ListenersInvariantHolds, PTL

(* A message the filter refuses was reported before, or its first handling  *)
(* failed (webhook_listener.py, uiautomation_listener.py, ocr_listener.py). *)
THEOREM KnownMessagesReported == ListenersSpec => []KnownWasReported
  BY ListenersInvariantHolds, PTL DEF ListenersInv

(* A message is reported more often than once on every date it meets        *)
(* (uiautomation_listener.py:225-240) only for one of the three reasons.    *)
THEOREM RepeatsExplained == ListenersSpec => []ReportedAgainForAReason
<1>1. ListenersInv => ReportedAgainForAReason
  <2> SUFFICES ASSUME ListenersInv, NEW m \in Message, reported[m] > day + 1
               PROVE  \/ loop \in {"on", "getting", "ended"} /\ kind # "webhook"
                      \/ Key(m) \in evicted
                      \/ kind = "uiautomation" /\ m \notin Timed
    BY DEF ReportedAgainForAReason
  <2>1. reported[m] \in Nat /\ day \in Nat
    BY ListenersAssumption DEF ListenersInv, ListenersTypes
  <2>2. reported[m] > 0 /\ ~(reported[m] <= 1) /\ ~(reported[m] <= day + 1)
    BY <2>1
  <2>3. Explained(m)
    BY <2>2 DEF ListenersInv, ExplainedInv
  <2>4. QED
    BY <2>2, <2>3 DEF Explained
<1>2. QED
  BY <1>1, ListenersInvariantHolds, PTL

(* No step of a disconnected listener reports, but four.                    *)
LEMMA SilentStep ==
    ListenersInv /\ [ListenersNext]_listenersVars =>
        (reported' # reported /\ ~running =>
             \/ kind = "webhook" \/ hook # "off" \/ poller = "on"
             \/ loop = "getting" /\ late = 0)
<1> SUFFICES ASSUME ListenersInv, [ListenersNext]_listenersVars,
                    reported' # reported, ~running, kind # "webhook", hook = "off", poller # "on",
                    ~(loop = "getting" /\ late = 0)
             PROVE  FALSE
  OBVIOUS
<1>1. ~GetNextMessage
  BY DEF GetNextMessage, ListenersInv, ListenersTypes, LateInv
<1>2. ~PollPicture /\ \A m \in Message : ~PollItem(m) /\ ~HandleWebhookRequest(m) /\ ~HandleNtworkMessage(m)
  BY DEF PollPicture, PollItem, HandleWebhookRequest, HandleNtworkMessage
<1>3. QED
  BY <1>1, <1>2
    DEF ListenersNext, listenersVars, RegisterHook, Connect, StartBackground, RunListeningLoop,
        StartListening, RunPollingLoop, ListenAgain, Disconnect, ExitHook, Midnight, Arrive

(* After disconnect only a poll under way, the webhook, ntwork's hook and   *)
(* the listening loop, once, still report (ocr_listener.py:495-514).        *)
THEOREM SilenceAfterDisconnect == ListenersSpec => SilentAfterDisconnect
<1>1. QED
  BY ListenersInvariantHolds, SilentStep, PTL DEF ListenersSpec, SilentAfterDisconnect

-----------------------------------------------------------------------------
(* The decision managers. The invariant says what an acknowledged answer has *)
(* left in the entry while its wait goes on, and how much time may pass      *)
(* until the wait looks at it.                                               *)
Feishu == manager = "feishu"
Waiting == phase \notin {"idle", "sent"}

(* A wait has its entry throughout; between the waits the Feishu manager    *)
(* has none; and only the Feishu manager's are ever cancelled.              *)
EntryInv ==
    /\ Waiting => pending # None /\ pending.wait = waits
    /\ Feishu /\ ~Waiting => pending = None
    /\ pending # None => pending.wait <= waits
    /\ ~Feishu /\ pending # None => pending.listed

PhaseInv ==
    /\ phase = "sent" => Feishu /\ acked = "none" /\ overtaken = "none" /\ elapsed = 0 /\ delay = 0 /\ reminders = 0
    /\ phase # "idle" => waits > 0
    /\ phase = "reminding" => Feishu /\ reminders = 0
    /\ phase = "unanswered" => ~Feishu
    /\ phase = "expired" => result = "timeout"
    /\ Feishu /\ Waiting /\ ~pending.reminded => reminders = 0

ReplyInv ==
    /\ reply.stage # "idle" => reply.answer \in AnyAnswer
    /\ reply.stage = "confirmed" => ~Feishu
    /\ reply.wait <= waits
    /\ reply.stage = "confirmed" /\ Waiting /\ reply.wait = waits => pending.final

(* A round is entered before the timeout, and late by at most its delays.   *)
ClockInv ==
    /\ phase = "polling" => elapsed + sleep <= Timeout + PollInterval + delay
    /\ phase = "reminding" => elapsed <= Timeout + delay
    /\ Waiting => elapsed <= Timeout + PollInterval + MaxDelay + delay
    /\ phase = "expired" => elapsed >= Timeout

(* The entry holds the newest answer acknowledged to a Feishu wait, if any. *)
FeishuInv ==
    /\ Feishu /\ phase = "answered" => pending.final
    /\ Feishu /\ phase \in {"polling", "reminding", "answered", "expired"} =>
          IF pending.final /\ (pending.listed \/ phase = "answered")
          THEN acked = pending.answer /\ acked \in AnyAnswer
          ELSE acked = "none"
    /\ Feishu /\ phase = "taken" => result = acked /\ result \in AnyAnswer

(* The entry of a WeChat wait has at least some answer when one was         *)
(* acknowledged.                                                            *)
WechatInv ==
    /\ ~Feishu /\ Waiting /\ acked # "none" => pending.final /\ pending.answer # "none"
    /\ ~Feishu /\ phase = "taken" /\ result = "timeout" => acked = "none"

(* How long ago an answer can be that the wait has not seen yet.            *)
AgeInv ==
    acked # "none" =>
        /\ Feishu /\ phase = "polling" => elapsed + sleep <= ackedAt + PollInterval + delay
        /\ phase \in {"reminding", "unanswered"} => elapsed <= ackedAt + delay
        /\ Feishu /\ phase = "expired" => ackedAt + PollInterval + MaxDelay >= Timeout
        /\ ~Feishu /\ phase = "expired" => ackedAt + MaxDelay >= Timeout

OvertakenInv ==
    overtaken # "none" => phase \in {"idle", "taken"} /\ (Feishu => result \in AnyAnswer)

ConfirmationsInv ==
    /\ ConfirmationsTypeOK /\ EntryInv /\ PhaseInv /\ ReplyInv /\ ClockInv
    /\ FeishuInv /\ WechatInv /\ AgeInv /\ OvertakenInv
    /\ AnswerInTimeCounts /\ NewestAnswerReturned

-----------------------------------------------------------------------------
(* The constants, one at a time. *)
LEMMA Constants ==
    /\ Timeout \in Nat \ {0} /\ PollInterval \in Nat \ {0} /\ MaxDelay \in Nat
    /\ ReminderInterval \in Nat /\ MaxReminders \in Nat /\ MaxWaits \in Nat /\ MaxReplies \in Nat
  BY ConfirmationsAssumption

(* An entry, and what the assignments make of it. *)
LEMMA EntryType ==
    ASSUME NEW e \in Entry
    PROVE  /\ e # None /\ e.wait \in 1..MaxWaits /\ e.answer \in AnyAnswer \cup {"none"}
           /\ e.final \in BOOLEAN /\ e.reminded \in BOOLEAN /\ e.listed \in BOOLEAN
  BY ConfirmationsAssumption DEF Entry

(* A new entry is without an answer. *)
LEMMA EntryMade ==
    ASSUME NEW n \in 1..MaxWaits
    PROVE  /\ NewEntry(n) \in Entry /\ NewEntry(n).wait = n /\ NewEntry(n).answer = "none"
           /\ NewEntry(n).final = FALSE /\ NewEntry(n).reminded = FALSE /\ NewEntry(n).listed = TRUE
  BY DEF Entry, NewEntry

(* An answered entry is final and otherwise as it was. *)
LEMMA EntryAnswered ==
    ASSUME NEW e \in Entry, NEW a \in AnyAnswer
    PROVE  /\ Answered(e, a) \in Entry /\ Answered(e, a).wait = e.wait
           /\ Answered(e, a).answer = a /\ Answered(e, a).final = TRUE
           /\ Answered(e, a).reminded = e.reminded /\ Answered(e, a).listed = e.listed
  BY DEF Entry, Answered

(* Assigning confirmed changes nothing else. *)
LEMMA EntryConfirmed ==
    ASSUME NEW e \in Entry, NEW f, f = [e EXCEPT !.final = TRUE]
    PROVE  /\ f \in Entry
           /\ f.wait = e.wait /\ f.answer = e.answer /\ f.final = TRUE /\ f.reminded = e.reminded /\ f.listed = e.listed
  BY DEF Entry

(* Assigning reminder_sent changes nothing else. *)
LEMMA EntryReminded ==
    ASSUME NEW e \in Entry, NEW f, f = [e EXCEPT !.reminded = TRUE]
    PROVE  /\ f \in Entry
           /\ f.wait = e.wait /\ f.answer = e.answer /\ f.final = e.final /\ f.reminded = TRUE /\ f.listed = e.listed
  BY DEF Entry

(* Assigning the decision changes nothing else. *)
LEMMA EntryDecided ==
    ASSUME NEW e \in Entry, NEW a \in AnyAnswer, NEW f, f = [e EXCEPT !.answer = a]
    PROVE  /\ f \in Entry
           /\ f.wait = e.wait /\ f.answer = a /\ f.final = e.final /\ f.reminded = e.reminded /\ f.listed = e.listed
  BY DEF Entry

(* Taking an entry out of _pending changes nothing else. *)
LEMMA EntryUnlisted ==
    ASSUME NEW e \in Entry, NEW f, f = [e EXCEPT !.listed = FALSE]
    PROVE  /\ f \in Entry
           /\ f.wait = e.wait /\ f.answer = e.answer /\ f.final = e.final /\ f.reminded = e.reminded /\ f.listed = FALSE
  BY DEF Entry

-----------------------------------------------------------------------------
(* There is no wait and no entry at first. *)
LEMMA ConfirmationsInitOK == ConfirmationsInit => ConfirmationsInv
<1> SUFFICES ASSUME ConfirmationsInit PROVE ConfirmationsInv
  OBVIOUS
<1>1. tokenValid \in BOOLEAN
  BY DEF ConfirmationsInit
<1>2. ConfirmationsTypeOK
  BY <1>1, Constants DEF ConfirmationsInit, ConfirmationsTypeOK, MaxElapsed, NoReply, AnyAnswer
<1>3. EntryInv /\ PhaseInv /\ ReplyInv /\ ClockInv /\ FeishuInv /\ WechatInv /\ AgeInv /\ OvertakenInv
  BY DEF ConfirmationsInit, EntryInv, PhaseInv, ReplyInv, ClockInv, FeishuInv, WechatInv, AgeInv,
      OvertakenInv, NoReply, Feishu, Waiting
<1>4. AnswerInTimeCounts /\ NewestAnswerReturned
  BY DEF ConfirmationsInit, AnswerInTimeCounts, NewestAnswerReturned, AnyAnswer
<1>5. QED
  BY <1>2, <1>3, <1>4 DEF ConfirmationsInv

(* Every action keeps the inductive invariant. *)
LEMMA ConfirmationsStepOK == ConfirmationsInv /\ [ConfirmationsNext]_confirmationsVars => ConfirmationsInv'
<1> SUFFICES ASSUME ConfirmationsInv, [ConfirmationsNext]_confirmationsVars PROVE ConfirmationsInv'
  OBVIOUS
<1>0. pending # None =>
          /\ pending \in Entry /\ pending.wait \in 1..MaxWaits
          /\ pending.answer \in AnyAnswer \cup {"none"} /\ pending.final \in BOOLEAN
          /\ pending.reminded \in BOOLEAN /\ pending.listed \in BOOLEAN
  BY EntryType DEF ConfirmationsInv, ConfirmationsTypeOK
<1>a. "none" \notin AnyAnswer /\ "timeout" \notin AnyAnswer /\ "approved" \in AnyAnswer
  BY DEF AnyAnswer
<1> USE Constants, <1>0, <1>a DEF ConfirmationsInv, waitVars, replyVars, history, Final, Listed, Feishu, Waiting
<1>1. CASE AutoConfirm
  <2>a. waits + 1 \in 1..MaxWaits
    BY <1>1 DEF AutoConfirm, Begin, ConfirmationsTypeOK
  <2>b. /\ NewEntry(waits + 1) \in Entry /\ NewEntry(waits + 1) # None /\ NewEntry(waits + 1).wait = waits + 1
        /\ NewEntry(waits + 1).answer = "none" /\ NewEntry(waits + 1).final = FALSE
        /\ NewEntry(waits + 1).reminded = FALSE /\ NewEntry(waits + 1).listed = TRUE
    BY <2>a, EntryMade, EntryType
  <2>c. /\ Answered(NewEntry(waits + 1), "approved") \in Entry /\ Answered(NewEntry(waits + 1), "approved") # None
        /\ Answered(NewEntry(waits + 1), "approved").wait = waits + 1 /\ Answered(NewEntry(waits + 1), "approved").answer = "approved"
        /\ Answered(NewEntry(waits + 1), "approved").final = TRUE
        /\ Answered(NewEntry(waits + 1), "approved").listed = TRUE
    BY <2>b, EntryAnswered, EntryType, ZenonT(60)
  <2>1. tokenValid' \in BOOLEAN
    BY <1>1 DEF AutoConfirm, Begin, ConfirmationsTypeOK
  <2>2. ConfirmationsTypeOK'
    BY <1>1, <2>a, <2>b, <2>c, <2>1 DEF AutoConfirm, Begin, ConfirmationsTypeOK, EntryInv, PhaseInv,
        ReplyInv, ClockInv, MaxElapsed, AnyAnswer
  <2>3. (EntryInv /\ PhaseInv)'
    BY <1>1, <2>a, <2>b, <2>c DEF AutoConfirm, Begin, ConfirmationsTypeOK, EntryInv, PhaseInv
  <2>4. (ReplyInv /\ ClockInv)'
    BY <1>1, <2>a, <2>b, <2>c DEF AutoConfirm, Begin, ConfirmationsTypeOK, EntryInv, PhaseInv,
        ReplyInv, ClockInv
  <2>5. (FeishuInv /\ WechatInv)'
    BY <1>1, <2>a, <2>b, <2>c DEF AutoConfirm, Begin, ConfirmationsTypeOK, EntryInv, PhaseInv,
        ReplyInv, FeishuInv, WechatInv
  <2>6. (AgeInv /\ OvertakenInv)'
    BY <1>1, <2>a, <2>b, <2>c DEF AutoConfirm, Begin, ConfirmationsTypeOK, EntryInv, PhaseInv,
        ClockInv, FeishuInv, WechatInv, AgeInv, OvertakenInv
  <2>7. (AnswerInTimeCounts /\ NewestAnswerReturned)'
    BY <1>1, <2>a, <2>b, <2>c DEF AutoConfirm, Begin, ConfirmationsTypeOK, EntryInv, PhaseInv,
        FeishuInv, WechatInv, AgeInv, OvertakenInv, AnswerInTimeCounts, NewestAnswerReturned
  <2>8. QED
    BY <2>2, <2>3, <2>4, <2>5, <2>6, <2>7
<1>2. CASE RequestConfirmation
  <2>1. tokenValid' \in BOOLEAN
    BY <1>2 DEF RequestConfirmation, Begin, SendPrivateMessage, ConfirmationsTypeOK
  <2>2. ConfirmationsTypeOK'
    BY <1>2, <2>1 DEF RequestConfirmation, Begin, SendPrivateMessage, ConfirmationsTypeOK, EntryInv,
        PhaseInv, ReplyInv, ClockInv, MaxElapsed, AnyAnswer
  <2>3. (EntryInv /\ PhaseInv)'
    BY <1>2 DEF RequestConfirmation, Begin, SendPrivateMessage, ConfirmationsTypeOK, EntryInv,
        PhaseInv
  <2>4. (ReplyInv /\ ClockInv)'
    BY <1>2 DEF RequestConfirmation, Begin, SendPrivateMessage, ConfirmationsTypeOK, EntryInv,
        PhaseInv, ReplyInv, ClockInv
  <2>5. (FeishuInv /\ WechatInv)'
    BY <1>2 DEF RequestConfirmation, Begin, SendPrivateMessage, ConfirmationsTypeOK, EntryInv,
        PhaseInv, ReplyInv, FeishuInv, WechatInv
  <2>6. (AgeInv /\ OvertakenInv)'
    BY <1>2 DEF RequestConfirmation, Begin, SendPrivateMessage, ConfirmationsTypeOK, EntryInv,
        PhaseInv, ClockInv, FeishuInv, WechatInv, AgeInv, OvertakenInv
  <2>7. (AnswerInTimeCounts /\ NewestAnswerReturned)'
    BY <1>2 DEF RequestConfirmation, Begin, SendPrivateMessage, ConfirmationsTypeOK, EntryInv,
        PhaseInv, FeishuInv, WechatInv, AgeInv, OvertakenInv, AnswerInTimeCounts,
        NewestAnswerReturned
  <2>8. QED
    BY <2>2, <2>3, <2>4, <2>5, <2>6, <2>7
<1>3. CASE Register
  <2>a. waits \in 1..MaxWaits
    BY <1>3 DEF Register, PhaseInv, ConfirmationsTypeOK
  <2>b. /\ NewEntry(waits) \in Entry /\ NewEntry(waits) # None /\ NewEntry(waits).wait = waits
        /\ NewEntry(waits).answer = "none" /\ NewEntry(waits).final = FALSE
        /\ NewEntry(waits).reminded = FALSE /\ NewEntry(waits).listed = TRUE
    BY <2>a, EntryMade, EntryType
  <2>1. tokenValid' \in BOOLEAN
    BY <1>3 DEF Register, ConfirmationsTypeOK
  <2>2. ConfirmationsTypeOK'
    BY <1>3, <2>a, <2>b, <2>1 DEF Register, ConfirmationsTypeOK, EntryInv, PhaseInv, ReplyInv,
        ClockInv, MaxElapsed, AnyAnswer
  <2>3. (EntryInv /\ PhaseInv)'
    BY <1>3, <2>a, <2>b DEF Register, ConfirmationsTypeOK, EntryInv, PhaseInv
  <2>4. (ReplyInv /\ ClockInv)'
    BY <1>3, <2>a, <2>b DEF Register, ConfirmationsTypeOK, EntryInv, PhaseInv, ReplyInv, ClockInv
  <2>5. (FeishuInv /\ WechatInv)'
    BY <1>3, <2>a, <2>b DEF Register, ConfirmationsTypeOK, EntryInv, PhaseInv, ReplyInv, FeishuInv,
        WechatInv
  <2>6. (AgeInv /\ OvertakenInv)'
    BY <1>3, <2>a, <2>b DEF Register, ConfirmationsTypeOK, EntryInv, PhaseInv, ClockInv, FeishuInv,
        WechatInv, AgeInv, OvertakenInv
  <2>7. (AnswerInTimeCounts /\ NewestAnswerReturned)'
    BY <1>3, <2>a, <2>b DEF Register, ConfirmationsTypeOK, EntryInv, PhaseInv, FeishuInv, WechatInv,
        AgeInv, OvertakenInv, AnswerInTimeCounts, NewestAnswerReturned
  <2>8. QED
    BY <2>2, <2>3, <2>4, <2>5, <2>6, <2>7
<1>4. CASE SendConfirmation
  <2>a. waits + 1 \in 1..MaxWaits
    BY <1>4 DEF SendConfirmation, Begin, ConfirmationsTypeOK
  <2>b. /\ NewEntry(waits + 1) \in Entry /\ NewEntry(waits + 1) # None /\ NewEntry(waits + 1).wait = waits + 1
        /\ NewEntry(waits + 1).answer = "none" /\ NewEntry(waits + 1).final = FALSE
        /\ NewEntry(waits + 1).reminded = FALSE /\ NewEntry(waits + 1).listed = TRUE
    BY <2>a, EntryMade, EntryType
  <2>1. tokenValid' \in BOOLEAN
    BY <1>4 DEF SendConfirmation, Begin, ConfirmationsTypeOK
  <2>2. ConfirmationsTypeOK'
    BY <1>4, <2>a, <2>b, <2>1 DEF SendConfirmation, Begin, ConfirmationsTypeOK, EntryInv, PhaseInv,
        ReplyInv, ClockInv, MaxElapsed, AnyAnswer
  <2>3. (EntryInv /\ PhaseInv)'
    BY <1>4, <2>a, <2>b DEF SendConfirmation, Begin, ConfirmationsTypeOK, EntryInv, PhaseInv
  <2>4. (ReplyInv /\ ClockInv)'
    BY <1>4, <2>a, <2>b DEF SendConfirmation, Begin, ConfirmationsTypeOK, EntryInv, PhaseInv,
        ReplyInv, ClockInv
  <2>5. (FeishuInv /\ WechatInv)'
    BY <1>4, <2>a, <2>b DEF SendConfirmation, Begin, ConfirmationsTypeOK, EntryInv, PhaseInv,
        ReplyInv, FeishuInv, WechatInv
  <2>6. (AgeInv /\ OvertakenInv)'
    BY <1>4, <2>a, <2>b DEF SendConfirmation, Begin, ConfirmationsTypeOK, EntryInv, PhaseInv,
        ClockInv, FeishuInv, WechatInv, AgeInv, OvertakenInv
  <2>7. (AnswerInTimeCounts /\ NewestAnswerReturned)'
    BY <1>4, <2>a, <2>b DEF SendConfirmation, Begin, ConfirmationsTypeOK, EntryInv, PhaseInv,
        FeishuInv, WechatInv, AgeInv, OvertakenInv, AnswerInTimeCounts, NewestAnswerReturned
  <2>8. QED
    BY <2>2, <2>3, <2>4, <2>5, <2>6, <2>7
<1>5. CASE PollFeishu
  <2>a. ReminderDue => ~pending.reminded
    BY <1>5 DEF PollFeishu, ReminderDue
  <2>1. tokenValid' \in BOOLEAN
    BY <1>5 DEF PollFeishu, ConfirmationsTypeOK
  <2>2. ConfirmationsTypeOK'
    BY <1>5, <2>a, <2>1 DEF PollFeishu, ConfirmationsTypeOK, EntryInv, PhaseInv, ReplyInv, ClockInv,
        MaxElapsed, AnyAnswer
  <2>3. (EntryInv /\ PhaseInv)'
    BY <1>5, <2>a DEF PollFeishu, ConfirmationsTypeOK, EntryInv, PhaseInv
  <2>4. (ReplyInv /\ ClockInv)'
    BY <1>5, <2>a DEF PollFeishu, ConfirmationsTypeOK, EntryInv, PhaseInv, ReplyInv, ClockInv
  <2>5. (FeishuInv /\ WechatInv)'
    BY <1>5, <2>a DEF PollFeishu, ConfirmationsTypeOK, EntryInv, PhaseInv, ReplyInv, FeishuInv,
        WechatInv
  <2>6. (AgeInv /\ OvertakenInv)'
    BY <1>5, <2>a DEF PollFeishu, ConfirmationsTypeOK, EntryInv, PhaseInv, ClockInv, FeishuInv,
        WechatInv, AgeInv, OvertakenInv
  <2>7. (AnswerInTimeCounts /\ NewestAnswerReturned)'
    BY <1>5, <2>a DEF PollFeishu, ConfirmationsTypeOK, EntryInv, PhaseInv, FeishuInv, WechatInv,
        AgeInv, OvertakenInv, AnswerInTimeCounts, NewestAnswerReturned
  <2>8. QED
    BY <2>2, <2>3, <2>4, <2>5, <2>6, <2>7
<1>6. CASE Remind
  <2>a. pending # None =>
        /\ pending' \in Entry /\ pending' # None
        /\ pending'.wait = pending.wait /\ pending'.answer = pending.answer /\ pending'.final = pending.final /\ pending'.reminded = TRUE /\ pending'.listed = pending.listed
    BY <1>6, EntryReminded, EntryType DEF Remind
  <2>1. tokenValid' \in BOOLEAN
    BY <1>6 DEF Remind, SendPrivateMessage, ConfirmationsTypeOK
  <2>2. ConfirmationsTypeOK'
    BY <1>6, <2>a, <2>1 DEF Remind, SendPrivateMessage, ConfirmationsTypeOK, EntryInv, PhaseInv,
        ReplyInv, ClockInv, MaxElapsed, AnyAnswer
  <2>3. (EntryInv /\ PhaseInv)'
    BY <1>6, <2>a DEF Remind, SendPrivateMessage, ConfirmationsTypeOK, EntryInv, PhaseInv
  <2>4. (ReplyInv /\ ClockInv)'
    BY <1>6, <2>a DEF Remind, SendPrivateMessage, ConfirmationsTypeOK, EntryInv, PhaseInv, ReplyInv,
        ClockInv
  <2>5. (FeishuInv /\ WechatInv)'
    BY <1>6, <2>a DEF Remind, SendPrivateMessage, ConfirmationsTypeOK, EntryInv, PhaseInv, ReplyInv,
        FeishuInv, WechatInv
  <2>6. (AgeInv /\ OvertakenInv)'
    BY <1>6, <2>a DEF Remind, SendPrivateMessage, ConfirmationsTypeOK, EntryInv, PhaseInv, ClockInv,
        FeishuInv, WechatInv, AgeInv, OvertakenInv
  <2>7. (AnswerInTimeCounts /\ NewestAnswerReturned)'
    BY <1>6, <2>a DEF Remind, SendPrivateMessage, ConfirmationsTypeOK, EntryInv, PhaseInv,
        FeishuInv, WechatInv, AgeInv, OvertakenInv, AnswerInTimeCounts, NewestAnswerReturned
  <2>8. QED
    BY <2>2, <2>3, <2>4, <2>5, <2>6, <2>7
<1>7. CASE LookWechat
  <2>1. tokenValid' \in BOOLEAN
    BY <1>7 DEF LookWechat, ConfirmationsTypeOK
  <2>2. ConfirmationsTypeOK'
    BY <1>7, <2>1 DEF LookWechat, ConfirmationsTypeOK, EntryInv, PhaseInv, ReplyInv, ClockInv,
        MaxElapsed, AnyAnswer
  <2>3. (EntryInv /\ PhaseInv)'
    BY <1>7 DEF LookWechat, ConfirmationsTypeOK, EntryInv, PhaseInv
  <2>4. (ReplyInv /\ ClockInv)'
    BY <1>7 DEF LookWechat, ConfirmationsTypeOK, EntryInv, PhaseInv, ReplyInv, ClockInv
  <2>5. (FeishuInv /\ WechatInv)'
    BY <1>7 DEF LookWechat, ConfirmationsTypeOK, EntryInv, PhaseInv, ReplyInv, FeishuInv, WechatInv
  <2>6. (AgeInv /\ OvertakenInv)'
    BY <1>7 DEF LookWechat, ConfirmationsTypeOK, EntryInv, PhaseInv, ClockInv, FeishuInv, WechatInv,
        AgeInv, OvertakenInv
  <2>7. (AnswerInTimeCounts /\ NewestAnswerReturned)'
    BY <1>7 DEF LookWechat, ConfirmationsTypeOK, EntryInv, PhaseInv, FeishuInv, WechatInv, AgeInv,
        OvertakenInv, AnswerInTimeCounts, NewestAnswerReturned
  <2>8. QED
    BY <2>2, <2>3, <2>4, <2>5, <2>6, <2>7
<1>8. CASE CheckTime
  <2>1. tokenValid' \in BOOLEAN
    BY <1>8 DEF CheckTime, ConfirmationsTypeOK
  <2>2. ConfirmationsTypeOK'
    BY <1>8, <2>1 DEF CheckTime, ConfirmationsTypeOK, EntryInv, PhaseInv, ReplyInv, ClockInv,
        MaxElapsed, AnyAnswer
  <2>3. (EntryInv /\ PhaseInv)'
    BY <1>8 DEF CheckTime, ConfirmationsTypeOK, EntryInv, PhaseInv
  <2>4. (ReplyInv /\ ClockInv)'
    BY <1>8 DEF CheckTime, ConfirmationsTypeOK, EntryInv, PhaseInv, ReplyInv, ClockInv
  <2>5. (FeishuInv /\ WechatInv)'
    BY <1>8 DEF CheckTime, ConfirmationsTypeOK, EntryInv, PhaseInv, ReplyInv, FeishuInv, WechatInv
  <2>6. (AgeInv /\ OvertakenInv)'
    BY <1>8 DEF CheckTime, ConfirmationsTypeOK, EntryInv, PhaseInv, ClockInv, FeishuInv, WechatInv,
        AgeInv, OvertakenInv
  <2>7. (AnswerInTimeCounts /\ NewestAnswerReturned)'
    BY <1>8 DEF CheckTime, ConfirmationsTypeOK, EntryInv, PhaseInv, FeishuInv, WechatInv, AgeInv,
        OvertakenInv, AnswerInTimeCounts, NewestAnswerReturned
  <2>8. QED
    BY <2>2, <2>3, <2>4, <2>5, <2>6, <2>7
<1>9. CASE ReadDecision
  <2>1. tokenValid' \in BOOLEAN
    BY <1>9 DEF ReadDecision, ConfirmationsTypeOK
  <2>2. ConfirmationsTypeOK'
    BY <1>9, <2>1 DEF ReadDecision, ConfirmationsTypeOK, EntryInv, PhaseInv, ReplyInv, ClockInv,
        MaxElapsed, AnyAnswer
  <2>3. (EntryInv /\ PhaseInv)'
    BY <1>9 DEF ReadDecision, ConfirmationsTypeOK, EntryInv, PhaseInv
  <2>4. (ReplyInv /\ ClockInv)'
    BY <1>9 DEF ReadDecision, ConfirmationsTypeOK, EntryInv, PhaseInv, ReplyInv, ClockInv
  <2>5. (FeishuInv /\ WechatInv)'
    BY <1>9 DEF ReadDecision, ConfirmationsTypeOK, EntryInv, PhaseInv, ReplyInv, FeishuInv,
        WechatInv
  <2>6. (AgeInv /\ OvertakenInv)'
    BY <1>9 DEF ReadDecision, ConfirmationsTypeOK, EntryInv, PhaseInv, ClockInv, FeishuInv,
        WechatInv, AgeInv, OvertakenInv
  <2>7. (AnswerInTimeCounts /\ NewestAnswerReturned)'
    BY <1>9 DEF ReadDecision, ConfirmationsTypeOK, EntryInv, PhaseInv, FeishuInv, WechatInv, AgeInv,
        OvertakenInv, AnswerInTimeCounts, NewestAnswerReturned
  <2>8. QED
    BY <2>2, <2>3, <2>4, <2>5, <2>6, <2>7
<1>10. CASE Return
  <2>1. tokenValid' \in BOOLEAN
    BY <1>10 DEF Return, ConfirmationsTypeOK
  <2>2. ConfirmationsTypeOK'
    BY <1>10, <2>1 DEF Return, ConfirmationsTypeOK, EntryInv, PhaseInv, ReplyInv, ClockInv,
        MaxElapsed, AnyAnswer
  <2>3. (EntryInv /\ PhaseInv)'
    BY <1>10 DEF Return, ConfirmationsTypeOK, EntryInv, PhaseInv
  <2>4. (ReplyInv /\ ClockInv)'
    BY <1>10 DEF Return, ConfirmationsTypeOK, EntryInv, PhaseInv, ReplyInv, ClockInv
  <2>5. (FeishuInv /\ WechatInv)'
    BY <1>10 DEF Return, ConfirmationsTypeOK, EntryInv, PhaseInv, ReplyInv, FeishuInv, WechatInv
  <2>6. (AgeInv /\ OvertakenInv)'
    BY <1>10 DEF Return, ConfirmationsTypeOK, EntryInv, PhaseInv, ClockInv, FeishuInv, WechatInv,
        AgeInv, OvertakenInv
  <2>7. (AnswerInTimeCounts /\ NewestAnswerReturned)'
    BY <1>10 DEF Return, ConfirmationsTypeOK, EntryInv, PhaseInv, FeishuInv, WechatInv, AgeInv,
        OvertakenInv, AnswerInTimeCounts, NewestAnswerReturned
  <2>8. QED
    BY <2>2, <2>3, <2>4, <2>5, <2>6, <2>7
<1>11. CASE Tick
  <2>1. tokenValid' \in BOOLEAN
    BY <1>11 DEF Tick, ConfirmationsTypeOK
  <2>2. ConfirmationsTypeOK'
    BY <1>11, <2>1 DEF Tick, ConfirmationsTypeOK, EntryInv, PhaseInv, ReplyInv, ClockInv,
        MaxElapsed, AnyAnswer
  <2>3. (EntryInv /\ PhaseInv)'
    BY <1>11 DEF Tick, ConfirmationsTypeOK, EntryInv, PhaseInv
  <2>4. (ReplyInv /\ ClockInv)'
    BY <1>11 DEF Tick, ConfirmationsTypeOK, EntryInv, PhaseInv, ReplyInv, ClockInv
  <2>5. (FeishuInv /\ WechatInv)'
    BY <1>11 DEF Tick, ConfirmationsTypeOK, EntryInv, PhaseInv, ReplyInv, FeishuInv, WechatInv
  <2>6. (AgeInv /\ OvertakenInv)'
    BY <1>11 DEF Tick, ConfirmationsTypeOK, EntryInv, PhaseInv, ClockInv, FeishuInv, WechatInv,
        AgeInv, OvertakenInv
  <2>7. (AnswerInTimeCounts /\ NewestAnswerReturned)'
    BY <1>11 DEF Tick, ConfirmationsTypeOK, EntryInv, PhaseInv, FeishuInv, WechatInv, AgeInv,
        OvertakenInv, AnswerInTimeCounts, NewestAnswerReturned
  <2>8. QED
    BY <2>2, <2>3, <2>4, <2>5, <2>6, <2>7
<1>12. CASE Delay
  <2>1. tokenValid' \in BOOLEAN
    BY <1>12 DEF Delay, ConfirmationsTypeOK
  <2>2. ConfirmationsTypeOK'
    BY <1>12, <2>1 DEF Delay, ConfirmationsTypeOK, EntryInv, PhaseInv, ReplyInv, ClockInv,
        MaxElapsed, AnyAnswer
  <2>3. (EntryInv /\ PhaseInv)'
    BY <1>12 DEF Delay, ConfirmationsTypeOK, EntryInv, PhaseInv
  <2>4. (ReplyInv /\ ClockInv)'
    BY <1>12 DEF Delay, ConfirmationsTypeOK, EntryInv, PhaseInv, ReplyInv, ClockInv
  <2>5. (FeishuInv /\ WechatInv)'
    BY <1>12 DEF Delay, ConfirmationsTypeOK, EntryInv, PhaseInv, ReplyInv, FeishuInv, WechatInv
  <2>6. (AgeInv /\ OvertakenInv)'
    BY <1>12 DEF Delay, ConfirmationsTypeOK, EntryInv, PhaseInv, ClockInv, FeishuInv, WechatInv,
        AgeInv, OvertakenInv
  <2>7. (AnswerInTimeCounts /\ NewestAnswerReturned)'
    BY <1>12 DEF Delay, ConfirmationsTypeOK, EntryInv, PhaseInv, FeishuInv, WechatInv, AgeInv,
        OvertakenInv, AnswerInTimeCounts, NewestAnswerReturned
  <2>8. QED
    BY <2>2, <2>3, <2>4, <2>5, <2>6, <2>7
<1>13. CASE ReceiveDecision
  <2>1. tokenValid' \in BOOLEAN
    BY <1>13 DEF ReceiveDecision, ConfirmationsTypeOK
  <2>2. ConfirmationsTypeOK'
    BY <1>13, <2>1 DEF ReceiveDecision, Answer, NoReply, ConfirmationsTypeOK, EntryInv, PhaseInv,
        ReplyInv, ClockInv, MaxElapsed, AnyAnswer
  <2>3. (EntryInv /\ PhaseInv)'
    BY <1>13 DEF ReceiveDecision, Answer, NoReply, AnyAnswer, ConfirmationsTypeOK, EntryInv,
        PhaseInv
  <2>4. (ReplyInv /\ ClockInv)'
    BY <1>13 DEF ReceiveDecision, Answer, NoReply, AnyAnswer, ConfirmationsTypeOK, EntryInv,
        PhaseInv, ReplyInv, ClockInv
  <2>5. (FeishuInv /\ WechatInv)'
    BY <1>13 DEF ReceiveDecision, Answer, NoReply, AnyAnswer, ConfirmationsTypeOK, EntryInv,
        PhaseInv, ReplyInv, FeishuInv, WechatInv
  <2>6. (AgeInv /\ OvertakenInv)'
    BY <1>13 DEF ReceiveDecision, Answer, NoReply, AnyAnswer, ConfirmationsTypeOK, EntryInv,
        PhaseInv, ClockInv, FeishuInv, WechatInv, AgeInv, OvertakenInv
  <2>7. (AnswerInTimeCounts /\ NewestAnswerReturned)'
    BY <1>13 DEF ReceiveDecision, Answer, NoReply, AnyAnswer, ConfirmationsTypeOK, EntryInv,
        PhaseInv, FeishuInv, WechatInv, AgeInv, OvertakenInv, AnswerInTimeCounts,
        NewestAnswerReturned
  <2>8. QED
    BY <2>2, <2>3, <2>4, <2>5, <2>6, <2>7
<1>14. CASE Store
  <2>a. reply.answer \in AnyAnswer
    BY <1>14 DEF Store, ReplyInv
  <2>b. pending # None =>
        /\ Answered(pending, reply.answer) \in Entry /\ Answered(pending, reply.answer) # None
        /\ Answered(pending, reply.answer).wait = pending.wait /\ Answered(pending, reply.answer).answer = reply.answer
        /\ Answered(pending, reply.answer).final = TRUE
        /\ Answered(pending, reply.answer).reminded = pending.reminded
        /\ Answered(pending, reply.answer).listed = pending.listed
    BY <2>a, EntryAnswered, EntryType
  <2>1. tokenValid' \in BOOLEAN
    BY <1>14 DEF Store, ConfirmationsTypeOK
  <2>2. ConfirmationsTypeOK'
    BY <1>14, <2>a, <2>b, <2>1 DEF Store, Acknowledge, NoReply, ConfirmationsTypeOK, EntryInv,
        PhaseInv, ReplyInv, ClockInv, MaxElapsed, AnyAnswer
  <2>3. (EntryInv /\ PhaseInv)'
    BY <1>14, <2>a, <2>b DEF Store, Acknowledge, NoReply, ConfirmationsTypeOK, EntryInv, PhaseInv
  <2>4. (ReplyInv /\ ClockInv)'
    BY <1>14, <2>a, <2>b DEF Store, Acknowledge, NoReply, ConfirmationsTypeOK, EntryInv, PhaseInv,
        ReplyInv, ClockInv
  <2>5. (FeishuInv /\ WechatInv)'
    BY <1>14, <2>a, <2>b DEF Store, Acknowledge, NoReply, ConfirmationsTypeOK, EntryInv, PhaseInv,
        ReplyInv, FeishuInv, WechatInv
  <2>6. (AgeInv /\ OvertakenInv)'
    BY <1>14, <2>a, <2>b DEF Store, Acknowledge, NoReply, ConfirmationsTypeOK, EntryInv, PhaseInv,
        ClockInv, FeishuInv, WechatInv, AgeInv, OvertakenInv
  <2>7. (AnswerInTimeCounts /\ NewestAnswerReturned)'
    BY <1>14, <2>a, <2>b DEF Store, Acknowledge, NoReply, ConfirmationsTypeOK, EntryInv, PhaseInv,
        FeishuInv, WechatInv, AgeInv, OvertakenInv, AnswerInTimeCounts, NewestAnswerReturned
  <2>8. QED
    BY <2>2, <2>3, <2>4, <2>5, <2>6, <2>7
<1>15. CASE StoreConfirmed
  <2>a. pending # None =>
        /\ pending' \in Entry /\ pending' # None
        /\ pending'.wait = pending.wait /\ pending'.answer = pending.answer /\ pending'.final = TRUE /\ pending'.reminded = pending.reminded /\ pending'.listed = pending.listed
    BY <1>15, EntryConfirmed, EntryType, ZenonT(60) DEF StoreConfirmed
  <2>1. tokenValid' \in BOOLEAN
    BY <1>15 DEF StoreConfirmed, ConfirmationsTypeOK
  <2>2. ConfirmationsTypeOK'
    BY <1>15, <2>a, <2>1 DEF StoreConfirmed, NoReply, ConfirmationsTypeOK, EntryInv, PhaseInv,
        ReplyInv, ClockInv, MaxElapsed, AnyAnswer
  <2>3. (EntryInv /\ PhaseInv)'
    BY <1>15, <2>a DEF StoreConfirmed, NoReply, ConfirmationsTypeOK, EntryInv, PhaseInv
  <2>4. (ReplyInv /\ ClockInv)'
    BY <1>15, <2>a DEF StoreConfirmed, NoReply, ConfirmationsTypeOK, EntryInv, PhaseInv, ReplyInv,
        ClockInv
  <2>5. (FeishuInv /\ WechatInv)'
    BY <1>15, <2>a DEF StoreConfirmed, NoReply, ConfirmationsTypeOK, EntryInv, PhaseInv, ReplyInv,
        FeishuInv, WechatInv
  <2>6. (AgeInv /\ OvertakenInv)'
    BY <1>15, <2>a DEF StoreConfirmed, NoReply, ConfirmationsTypeOK, EntryInv, PhaseInv, ClockInv,
        FeishuInv, WechatInv, AgeInv, OvertakenInv
  <2>7. (AnswerInTimeCounts /\ NewestAnswerReturned)'
    BY <1>15, <2>a DEF StoreConfirmed, NoReply, ConfirmationsTypeOK, EntryInv, PhaseInv, FeishuInv,
        WechatInv, AgeInv, OvertakenInv, AnswerInTimeCounts, NewestAnswerReturned
  <2>8. QED
    BY <2>2, <2>3, <2>4, <2>5, <2>6, <2>7
<1>16. CASE StoreDecision
  <2>a. reply.answer \in AnyAnswer
    BY <1>16 DEF StoreDecision, ReplyInv
  <2>b. pending # None =>
        /\ pending' \in Entry /\ pending' # None
        /\ pending'.wait = pending.wait /\ pending'.answer = reply.answer /\ pending'.final = pending.final /\ pending'.reminded = pending.reminded /\ pending'.listed = pending.listed
    BY <1>16, <2>a, EntryDecided, EntryType DEF StoreDecision
  <2>1. tokenValid' \in BOOLEAN
    BY <1>16 DEF StoreDecision, ConfirmationsTypeOK
  <2>2. ConfirmationsTypeOK'
    BY <1>16, <2>a, <2>b, <2>1 DEF StoreDecision, Acknowledge, NoReply, ConfirmationsTypeOK,
        EntryInv, PhaseInv, ReplyInv, ClockInv, MaxElapsed, AnyAnswer
  <2>3. (EntryInv /\ PhaseInv)'
    BY <1>16, <2>a, <2>b DEF StoreDecision, Acknowledge, NoReply, ConfirmationsTypeOK, EntryInv,
        PhaseInv
  <2>4. (ReplyInv /\ ClockInv)'
    BY <1>16, <2>a, <2>b DEF StoreDecision, Acknowledge, NoReply, ConfirmationsTypeOK, EntryInv,
        PhaseInv, ReplyInv, ClockInv
  <2>5. (FeishuInv /\ WechatInv)'
    BY <1>16, <2>a, <2>b DEF StoreDecision, Acknowledge, NoReply, ConfirmationsTypeOK, EntryInv,
        PhaseInv, ReplyInv, FeishuInv, WechatInv
  <2>6. (AgeInv /\ OvertakenInv)'
    BY <1>16, <2>a, <2>b DEF StoreDecision, Acknowledge, NoReply, ConfirmationsTypeOK, EntryInv,
        PhaseInv, ClockInv, FeishuInv, WechatInv, AgeInv, OvertakenInv
  <2>7. (AnswerInTimeCounts /\ NewestAnswerReturned)'
    BY <1>16, <2>a, <2>b DEF StoreDecision, Acknowledge, NoReply, ConfirmationsTypeOK, EntryInv,
        PhaseInv, FeishuInv, WechatInv, AgeInv, OvertakenInv, AnswerInTimeCounts,
        NewestAnswerReturned
  <2>8. QED
    BY <2>2, <2>3, <2>4, <2>5, <2>6, <2>7
<1>17. CASE CancelPending
  <2>a. pending # None =>
        /\ pending' \in Entry /\ pending' # None
        /\ pending'.wait = pending.wait /\ pending'.answer = pending.answer /\ pending'.final = pending.final /\ pending'.reminded = pending.reminded /\ pending'.listed = FALSE
    BY <1>17, EntryUnlisted, EntryType, ZenonT(60) DEF CancelPending
  <2>1. tokenValid' \in BOOLEAN
    BY <1>17 DEF CancelPending, ConfirmationsTypeOK
  <2>2. ConfirmationsTypeOK'
    BY <1>17, <2>a, <2>1 DEF CancelPending, ConfirmationsTypeOK, EntryInv, PhaseInv, ReplyInv,
        ClockInv, MaxElapsed, AnyAnswer
  <2>3. (EntryInv /\ PhaseInv)'
    BY <1>17, <2>a DEF CancelPending, ConfirmationsTypeOK, EntryInv, PhaseInv
  <2>4. (ReplyInv /\ ClockInv)'
    BY <1>17, <2>a DEF CancelPending, ConfirmationsTypeOK, EntryInv, PhaseInv, ReplyInv, ClockInv
  <2>5. (FeishuInv /\ WechatInv)'
    BY <1>17, <2>a DEF CancelPending, ConfirmationsTypeOK, EntryInv, PhaseInv, ReplyInv, FeishuInv,
        WechatInv
  <2>6. (AgeInv /\ OvertakenInv)'
    BY <1>17, <2>a DEF CancelPending, ConfirmationsTypeOK, EntryInv, PhaseInv, ClockInv, FeishuInv,
        WechatInv, AgeInv, OvertakenInv
  <2>7. (AnswerInTimeCounts /\ NewestAnswerReturned)'
    BY <1>17, <2>a DEF CancelPending, ConfirmationsTypeOK, EntryInv, PhaseInv, FeishuInv, WechatInv,
        AgeInv, OvertakenInv, AnswerInTimeCounts, NewestAnswerReturned
  <2>8. QED
    BY <2>2, <2>3, <2>4, <2>5, <2>6, <2>7
<1>18. CASE UpdateProgress
  <2>1. tokenValid' \in BOOLEAN
    BY <1>18 DEF UpdateProgress, SendPrivateMessage, ConfirmationsTypeOK
  <2>2. ConfirmationsTypeOK'
    BY <1>18, <2>1 DEF UpdateProgress, SendPrivateMessage, ConfirmationsTypeOK, EntryInv, PhaseInv,
        ReplyInv, ClockInv, MaxElapsed, AnyAnswer
  <2>3. (EntryInv /\ PhaseInv)'
    BY <1>18 DEF UpdateProgress, SendPrivateMessage, ConfirmationsTypeOK, EntryInv, PhaseInv
  <2>4. (ReplyInv /\ ClockInv)'
    BY <1>18 DEF UpdateProgress, SendPrivateMessage, ConfirmationsTypeOK, EntryInv, PhaseInv,
        ReplyInv, ClockInv
  <2>5. (FeishuInv /\ WechatInv)'
    BY <1>18 DEF UpdateProgress, SendPrivateMessage, ConfirmationsTypeOK, EntryInv, PhaseInv,
        ReplyInv, FeishuInv, WechatInv
  <2>6. (AgeInv /\ OvertakenInv)'
    BY <1>18 DEF UpdateProgress, SendPrivateMessage, ConfirmationsTypeOK, EntryInv, PhaseInv,
        ClockInv, FeishuInv, WechatInv, AgeInv, OvertakenInv
  <2>7. (AnswerInTimeCounts /\ NewestAnswerReturned)'
    BY <1>18 DEF UpdateProgress, SendPrivateMessage, ConfirmationsTypeOK, EntryInv, PhaseInv,
        FeishuInv, WechatInv, AgeInv, OvertakenInv, AnswerInTimeCounts, NewestAnswerReturned
  <2>8. QED
    BY <2>2, <2>3, <2>4, <2>5, <2>6, <2>7
<1>19. CASE TokenExpires
  <2>1. tokenValid' \in BOOLEAN
    BY <1>19 DEF TokenExpires, ConfirmationsTypeOK
  <2>2. ConfirmationsTypeOK'
    BY <1>19, <2>1 DEF TokenExpires, ConfirmationsTypeOK, EntryInv, PhaseInv, ReplyInv, ClockInv,
        MaxElapsed, AnyAnswer
  <2>3. (EntryInv /\ PhaseInv)'
    BY <1>19 DEF TokenExpires, ConfirmationsTypeOK, EntryInv, PhaseInv
  <2>4. (ReplyInv /\ ClockInv)'
    BY <1>19 DEF TokenExpires, ConfirmationsTypeOK, EntryInv, PhaseInv, ReplyInv, ClockInv
  <2>5. (FeishuInv /\ WechatInv)'
    BY <1>19 DEF TokenExpires, ConfirmationsTypeOK, EntryInv, PhaseInv, ReplyInv, FeishuInv,
        WechatInv
  <2>6. (AgeInv /\ OvertakenInv)'
    BY <1>19 DEF TokenExpires, ConfirmationsTypeOK, EntryInv, PhaseInv, ClockInv, FeishuInv,
        WechatInv, AgeInv, OvertakenInv
  <2>7. (AnswerInTimeCounts /\ NewestAnswerReturned)'
    BY <1>19 DEF TokenExpires, ConfirmationsTypeOK, EntryInv, PhaseInv, FeishuInv, WechatInv,
        AgeInv, OvertakenInv, AnswerInTimeCounts, NewestAnswerReturned
  <2>8. QED
    BY <2>2, <2>3, <2>4, <2>5, <2>6, <2>7
<1>20. CASE UNCHANGED confirmationsVars
  BY <1>20
    DEF confirmationsVars, ConfirmationsTypeOK, EntryInv, PhaseInv, ReplyInv, ClockInv, FeishuInv, WechatInv,
        AgeInv, OvertakenInv, AnswerInTimeCounts, NewestAnswerReturned
<1>21. QED
  BY <1>1, <1>2, <1>3, <1>4, <1>5, <1>6, <1>7, <1>8, <1>9, <1>10, <1>11, <1>12, <1>13, <1>14, <1>15,
      <1>16, <1>17, <1>18, <1>19, <1>20 DEF ConfirmationsNext, WaitConfirmation, Rounds, Receiving

(* The inductive invariant holds throughout: its parts say whose the entry  *)
(* is, what a phase implies, what an answer under way refers to, and how    *)
(* late a wait can be.                                                      *)
THEOREM ConfirmationsInvariantHolds == ConfirmationsSpec => []ConfirmationsInv
  BY ConfirmationsInitOK, ConfirmationsStepOK, PTL DEF ConfirmationsSpec

(* The types, the bound on the clock of a wait and the single reminder, for *)
(* any configuration and any delays.                                        *)
THEOREM ConfirmationsTypeCorrect == ConfirmationsSpec => []ConfirmationsTypeOK
  BY ConfirmationsInvariantHolds, PTL DEF ConfirmationsInv

(* An answer acknowledged before the wait has read its decision is lost to  *)
(* a timeout only at the end of the wait (decision/__init__.py:617-641,     *)
(* decision_manager/manager.py:107-119); one acknowledged after that only   *)
(* by the WeChat manager (manager.py:111-115, 128-133).                     *)
THEOREM AnswersInTimeCount == ConfirmationsSpec => []AnswerInTimeCounts
  BY ConfirmationsInvariantHolds, PTL DEF ConfirmationsInv

(* A wait of the Feishu manager returns its newest acknowledged answer.     *)
THEOREM NewestAnswersReturned == ConfirmationsSpec => []NewestAnswerReturned
  BY ConfirmationsInvariantHolds, PTL DEF ConfirmationsInv

-----------------------------------------------------------------------------
(* The code executors. *)

(* What is current has begun; a process can be reached, and what has ended  *)
(* and had one cannot.                                                      *)
PackageInv == CancelReachesTheRunning /\ CurrentIsRunning

(* A call has a process only from its prompt on, and one that it waits for  *)
(* only while it is prompting.                                              *)
SdkInv ==
    /\ \A c \in Call :
         /\ call[c].phase \in {"idle", "checking", "starting", "creating"} =>
                call[c].proc = "none" /\ call[c].prompt = "none"
         /\ call[c].proc = "running" => call[c].phase = "prompting"
    /\ WorkGoesOnForAReason

PackageTypeOK ==
    /\ backend \in {"opencode", "openhands"} /\ mode \in {"webui", "cli", "api"}
    /\ run \in [Exec -> Run]
    /\ current \in Exec \cup {NoExecution} /\ canceller \in Exec \cup {NoExecution}
    /\ cancels \in 0..MaxCancels /\ overlapped \subseteq Exec
    /\ current # NoExecution => Registers

SdkTypeOK ==
    /\ call \in [Call -> CallState]
    /\ server \in {"down", "launched", "up"} /\ failures \in 0..MaxFailures

ExecutorsInv == PackageTypeOK /\ SdkTypeOK /\ PackageInv /\ SdkInv

-----------------------------------------------------------------------------
(* No execution and no call has begun at first. *)
LEMMA ExecutorsInitOK == ExecutorsInit => ExecutorsInv
<1> SUFFICES ASSUME ExecutorsInit PROVE ExecutorsInv
  OBVIOUS
<1>1. PackageTypeOK
  BY ExecutorAssumption DEF ExecutorsInit, ExecutorInit, PackageTypeOK, Run, Status
<1>2. SdkTypeOK
  BY CodeExecutorAssumption DEF ExecutorsInit, SdkInit, SdkTypeOK, CallState
<1>3. PackageInv
  BY ExecutorAssumption DEF ExecutorsInit, ExecutorInit, PackageInv, CancelReachesTheRunning,
      CurrentIsRunning
<1>4. SdkInv
  BY DEF ExecutorsInit, SdkInit, SdkInv, WorkGoesOnForAReason
<1>5. QED
  BY <1>1, <1>2, <1>3, <1>4 DEF ExecutorsInv

-----------------------------------------------------------------------------
(* The package. Every step of it but those of cancel is about one execution.*)

(* Every action of the executor package keeps its part of the invariant. *)
LEMMA PackageStep ==
    PackageTypeOK /\ PackageInv /\ ExecutorNext => PackageTypeOK' /\ PackageInv'
<1> SUFFICES ASSUME PackageTypeOK, PackageInv, ExecutorNext
             PROVE  PackageTypeOK' /\ PackageInv'
  OBVIOUS
<1> USE ExecutorAssumption DEF PackageTypeOK, PackageInv, CancelReachesTheRunning, CurrentIsRunning,
        config, cancelVars, Run, Status, Registers
<1>1. ASSUME NEW e \in Exec, Execute(e) PROVE PackageTypeOK' /\ PackageInv'
  <2>1. CASE CheckSecurity(e)
    BY <1>1, <2>1 DEF Execute, CheckSecurity
  <2>2. CASE ExecuteDry(e)
    BY <1>1, <2>2 DEF Execute, ExecuteDry, Conclude
  <2>3. CASE ExecuteWebui(e)
    BY <1>1, <2>3 DEF Execute, ExecuteWebui, Conclude
  <2>4. CASE BeginProcess(e)
    <3>1. /\ current' = e /\ run[e].phase = "idle" /\ Registers /\ UNCHANGED <<config, cancelVars>>
          /\ overlapped' = overlapped \cup {d \in Exec \ {e} : run[d].phase \in {"running", "ended"}}
          /\ \E r \in Run : run' = [run EXCEPT ![e] = r] /\ r.phase \in {"running", "ended"}
      BY <1>1, <2>4 DEF Execute, BeginProcess, Conclude, Disturb
    <3> PICK r \in Run : run' = [run EXCEPT ![e] = r] /\ r.phase \in {"running", "ended"}
      BY <3>1
    <3>2. PackageTypeOK'
      BY <3>1
    <3>3. PackageInv'
      BY <3>1
    <3>4. QED
      BY <3>2, <3>3
  <2>5. CASE NoWorkDir(e)
    BY <1>1, <2>5 DEF Execute, NoWorkDir, Disturb
  <2>6. CASE BeginConversation(e)
    <3> DEFINE runs == [phase |-> "running", status |-> "running", success |-> FALSE]
               fails == [phase |-> "returned", status |-> "failed", success |-> FALSE]
    <3>1. /\ current = NoExecution /\ run[e].phase = "idle" /\ ~Registers
          /\ UNCHANGED <<config, cancelVars, current, overlapped>>
      BY <1>1, <2>6 DEF Execute, BeginConversation
    <3>2. CASE run' = [run EXCEPT ![e] = runs]
      BY <3>1, <3>2
    <3>3. CASE run' = [run EXCEPT ![e] = fails]
      BY <3>1, <3>3
    <3>4. QED
      BY <2>6, <3>2, <3>3 DEF BeginConversation, Conclude
  <2>7. QED
    BY <1>1, <2>1, <2>2, <2>3, <2>4, <2>5, <2>6 DEF Execute
<1>2. ASSUME NEW e \in Exec, ProcessEnds(e) PROVE PackageTypeOK' /\ PackageInv'
  <2>1. /\ run[e].phase = "running" /\ UNCHANGED <<config, current, cancelVars, overlapped>>
    BY <1>2 DEF ProcessEnds
  <2>2. ASSUME NEW status \in {"completed", "failed", "timeout"}, Conclude(e, "ended", status)
        PROVE  PackageTypeOK' /\ PackageInv'
    BY <2>1, <2>2 DEF Conclude
  <2>3. ASSUME NEW status \in {"completed", "failed"},
               run' = [run EXCEPT ![e].phase = "ended",
                                  ![e].status = IF @ = "running" THEN status ELSE @]
        PROVE  PackageTypeOK' /\ PackageInv'
    <3>1. PackageTypeOK'
      BY <2>1, <2>3, ZenonT(60)
    <3>2. PackageInv'
      BY <2>1, <2>3
    <3>3. QED
      BY <3>1, <3>2
  <2>4. QED
    BY <1>2, <2>2, <2>3 DEF ProcessEnds, CliEnds, BridgeEnds
<1>3. ASSUME NEW e \in Exec, ClearCurrent(e) PROVE PackageTypeOK' /\ PackageInv'
  BY <1>3 DEF ClearCurrent, Disturb
<1>4. ASSUME NEW e \in Exec, ConversationEnds(e) PROVE PackageTypeOK' /\ PackageInv'
  BY <1>4 DEF ConversationEnds, Conclude
<1>5. ASSUME NEW e \in Exec, Cancel(e) PROVE PackageTypeOK' /\ PackageInv'
  BY <1>5 DEF Cancel
<1>6. CASE MarkCancelled
  BY <1>6 DEF MarkCancelled
<1>7. QED
  BY <1>1, <1>2, <1>3, <1>4, <1>5, <1>6 DEF ExecutorNext, Ending

(* A step of one call preserves what is known of every call if its new      *)
(* record has these properties.                                             *)
LEMMA OneCall ==
    ASSUME SdkTypeOK, SdkInv, NEW c \in Call, NEW r \in CallState,
           call' = [call EXCEPT ![c] = r], UNCHANGED <<server, failures>>,
           r.phase \in {"idle", "checking", "starting", "creating"} => r.proc = "none" /\ r.prompt = "none",
           r.proc = "running" => r.phase = "prompting",
           r.phase = "returned" /\ r.prompt = "working" => r.abort = "lost" \/ r.proc = "left"
    PROVE  SdkTypeOK' /\ SdkInv'
<1>1. \A d \in Call : call'[d] = IF d = c THEN r ELSE call[d]
  BY DEF SdkTypeOK
<1>2. SdkTypeOK'
  BY DEF SdkTypeOK
<1>3. SdkInv'
  BY <1>1 DEF SdkInv, WorkGoesOnForAReason
<1>4. QED
  BY <1>2, <1>3

(* The execution worker's executor. *)
LEMMA SdkStep == SdkTypeOK /\ SdkInv /\ SdkNext => SdkTypeOK' /\ SdkInv'
<1> SUFFICES ASSUME SdkTypeOK, SdkInv, SdkNext PROVE SdkTypeOK' /\ SdkInv'
  OBVIOUS
<1> USE CodeExecutorAssumption DEF SdkTypeOK, SdkInv, WorkGoesOnForAReason, CallState
<1>1. CASE ServerComesUp
  BY <1>1 DEF ServerComesUp
<1>2. CASE ServerFails
  BY <1>2 DEF ServerFails
<1>3. ASSUME NEW c \in Call, ExecuteSdk(c) \/ HealthCheck(c) \/ TryStartOpencode(c) \/ ServerAwaited(c) \/ CreateSession(c)
      PROVE  SdkTypeOK' /\ SdkInv'
  BY <1>3 DEF ExecuteSdk, HealthCheck, TryStartOpencode, ServerAwaited, CreateSession, Step, Returns
<1>4. ASSUME NEW c \in Call, SendMessage(c) \/ PromptArrives(c) \/ PromptIsDone(c)
      PROVE  SdkTypeOK' /\ SdkInv'
  BY <1>4 DEF SendMessage, PromptArrives, PromptIsDone
<1>5. ASSUME NEW c \in Call, AnswerArrives(c) \/ SdkFails(c) \/ InnerTimeout(c) \/ OuterTimeout(c)
      PROVE  SdkTypeOK' /\ SdkInv'
  BY <1>5 DEF AnswerArrives, SdkFails, InnerTimeout, OuterTimeout
<1>6. ASSUME NEW c \in Call, AbortSession(c)
      PROVE  SdkTypeOK' /\ SdkInv'
  <2>1. PICK a \in {"heard", "lost"} :
          /\ a = "heard" => server = "up"
          /\ call' = [call EXCEPT ![c].phase = "returned", ![c].result = "timeout", ![c].abort = a,
                                  ![c].prompt = IF a = "heard" /\ @ = "working" THEN "aborted" ELSE @]
    BY <1>6 DEF AbortSession
  <2>2. call[c].phase = "aborting" /\ UNCHANGED <<server, failures>>
    BY <1>6 DEF AbortSession
  <2> DEFINE r == [call[c] EXCEPT !.phase = "returned", !.result = "timeout", !.abort = a,
                                  !.prompt = IF a = "heard" /\ @ = "working" THEN "aborted" ELSE @]
  <2>3. call' = [call EXCEPT ![c] = r]
    BY <2>1
  <2>4. r \in CallState /\ r.phase = "returned" /\ r.proc = call[c].proc
    OBVIOUS
  <2>5. call[c].proc # "running" /\ (r.prompt = "working" => r.abort = "lost")
    BY <2>2
  <2> HIDE DEF r, CallState, SdkTypeOK, SdkInv
  <2>6. QED
    BY <2>2, <2>3, <2>4, <2>5, OneCall
<1>7. QED
  BY <1>1, <1>2, <1>3, <1>4, <1>5, <1>6 DEF SdkNext, GoingOn

(* Every action of either executor keeps the inductive invariant. *)
LEMMA ExecutorsStepOK == ExecutorsInv /\ [ExecutorsNext]_executorsVars => ExecutorsInv'
<1> SUFFICES ASSUME ExecutorsInv, [ExecutorsNext]_executorsVars PROVE ExecutorsInv'
  OBVIOUS
<1>1. UNCHANGED sdkVars => SdkTypeOK' /\ SdkInv'
  BY DEF ExecutorsInv, SdkTypeOK, SdkInv, WorkGoesOnForAReason, sdkVars
<1>2. UNCHANGED executorVars => PackageTypeOK' /\ PackageInv'
  BY DEF ExecutorsInv, PackageTypeOK, PackageInv, CancelReachesTheRunning, CurrentIsRunning,
      Registers,
         executorVars, config, cancelVars
<1>3. QED
  BY <1>1, <1>2, PackageStep, SdkStep DEF ExecutorsInv, ExecutorsNext, executorsVars

-----------------------------------------------------------------------------
(* The four parts of the invariant hold throughout. *)
THEOREM ExecutorsInvariantHolds == ExecutorsSpec => []ExecutorsInv
  BY ExecutorsInitOK, ExecutorsStepOK, PTL DEF ExecutorsSpec

(* The types; only a process of this machine is registered as current.      *)
THEOREM ExecutorsTypeCorrect == ExecutorsSpec => []ExecutorsTypeOK
<1>1. ExecutorsInv => ExecutorsTypeOK
  BY DEF ExecutorsInv, PackageTypeOK, SdkTypeOK, ExecutorsTypeOK
<1>2. QED
  BY <1>1, ExecutorsInvariantHolds, PTL

(* cancel reaches a running process unless another execution began or ended *)
(* meanwhile, for any number of them (executor/opencode.py:260-467).        *)
THEOREM CancelReaches == ExecutorsSpec => []CancelReachesTheRunning
  BY ExecutorsInvariantHolds, PTL DEF ExecutorsInv, PackageInv

(* The current execution is running or about to be cleared, or makedirs     *)
(* raised before it had a process (executor/opencode.py:270-271).           *)
THEOREM CurrentRuns == ExecutorsSpec => []CurrentIsRunning
  BY ExecutorsInvariantHolds, PTL DEF ExecutorsInv, PackageInv

(* The server works for a call that has returned only if the abort was lost *)
(* or the SDK process left running (code_executor/__init__.py:160-208,      *)
(* 341-382).                                                                *)
THEOREM WorkExplained == ExecutorsSpec => []WorkGoesOnForAReason
  BY ExecutorsInvariantHolds, PTL DEF ExecutorsInv, SdkInv

-----------------------------------------------------------------------------
(* The composition. A step of it is a step of one part, and all the others  *)
(* stutter, so that its behaviours are behaviours of each part.             *)

(* The initial states of the composition are initial states of its parts.   *)
LEMMA PartsInit == Init => ListenersInit /\ ConfirmationsInit /\ ExecutorsInit
  BY DEF Init

(* A step of the composition is a step or a stutter of each part. *)
LEMMA PartsStep ==
    [Next]_vars => /\ [ListenersNext]_listenersVars
                   /\ [ConfirmationsNext]_confirmationsVars
                   /\ [ExecutorsNext]_executorsVars
<1> SUFFICES ASSUME [Next]_vars
             PROVE  /\ [ListenersNext]_listenersVars
                    /\ [ConfirmationsNext]_confirmationsVars
                    /\ [ExecutorsNext]_executorsVars
  OBVIOUS
<1>1. CASE Next
  BY <1>1 DEF Next
<1>2. CASE UNCHANGED vars
  BY <1>2 DEF vars
<1>3. QED
  BY <1>1, <1>2

(* The composition implements the specification of each of its parts, so    *)
(* that what is proved of a part holds in any interleaving with the others. *)
THEOREM PeripheryImplementsParts ==
    Spec => ListenersSpec /\ ConfirmationsSpec /\ ExecutorsSpec
  BY PartsInit, PartsStep, PTL DEF Spec, ListenersSpec, ConfirmationsSpec, ExecutorsSpec

(* Every variable of the periphery has its type.                            *)
THEOREM PeripheryTypeCorrect == Spec => []TypeOK
  BY PeripheryImplementsParts, ListenersTypeCorrect, ConfirmationsTypeCorrect, ExecutorsTypeCorrect,
     PTL DEF TypeOK

(* All the safety properties of the periphery hold of the composition.      *)
THEOREM PeripheryCorrect ==
    Spec => /\ [](KnownWasReported /\ ReportedAgainForAReason)
            /\ SilentAfterDisconnect
            /\ [](AnswerInTimeCounts /\ NewestAnswerReturned)
            /\ [](CancelReachesTheRunning /\ CurrentIsRunning /\ WorkGoesOnForAReason)
  BY PeripheryImplementsParts, KnownMessagesReported, RepeatsExplained, SilenceAfterDisconnect,
     AnswersInTimeCount, NewestAnswersReturned, CancelReaches, CurrentRuns, WorkExplained, PTL
=============================================================================
