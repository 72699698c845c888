---------------------------- MODULE IntakeProofs ----------------------------
(***************************************************************************)
(* Proofs about the intake of messages, for every number of calls, ids,    *)
(* attempts, restarts and ticks, every cache size and every ttl. The       *)
(* argument: an attempt that runs or is slept over is within the bounds    *)
(* (Attempts), which makes the typing inductive; a cached id stands for a  *)
(* message accepted at the cached time (CachedWasAccepted), and so does    *)
(* every answer on its way that is not a refusal (AnswerWasEarned).        *)
(***************************************************************************)
EXTENDS Intake, TLAPS

(* The attempt a call is at counts from 1 and leaves room for a retry.      *)
Attempts ==
    \A p \in Push :
        /\ push[p] = "waiting" => attempt[p] \in 1..MaxRetries
        /\ push[p] = "backoff" => attempt[p] \in 1..(MaxRetries - 1)

(* What is cached was accepted at the time it is cached under.              *)
CachedWasAccepted ==
    \A id \in MsgId : cachedAt[id] # 0 =>
        \E i \in DOMAIN accepted :
            accepted[i].id = id /\ accepted[i].at = cachedAt[id]

WasAccepted(id) == \E i \in DOMAIN accepted : accepted[i].id = id

(* An answer other than "invalid" is given only for an accepted id.         *)
AnswerWasEarned ==
    \A a \in answers : a.body \in {"accepted", "duplicate"} => WasAccepted(MsgIdOf(a.push))

(* Time and gateway lives only grow.                                        *)
AcceptedEarlier ==
    \A i \in DOMAIN accepted : accepted[i].at <= clock /\ accepted[i].life <= restarts

(* The queue holds the ids of the last accepted messages, all of this life. *)
QueueIsRecent ==
    /\ Len(dedupQueue) <= Len(accepted)
    /\ \A q \in 1..Len(dedupQueue) :
          LET m == accepted[Len(accepted) - Len(dedupQueue) + q]
          IN  m.id = dedupQueue[q] /\ m.life = restarts

(* Message k of accepted was queued in this life under the id of message i, *)
(* no later than it, and left the queue when i was accepted or afterwards.  *)
PushedOut(k, i) ==
    /\ accepted[k].id = accepted[i].id
    /\ accepted[k].life = restarts
    /\ k + MaxCache \in i..Len(accepted)

(* An id accepted less than ttl_seconds ago that was not pushed out is      *)
(* cached, under that time or a later one.                                  *)
RecentIsCached ==
    \A i \in DOMAIN accepted :
        (/\ accepted[i].life = restarts
         /\ clock - accepted[i].at < TTL
         /\ \A k \in 1..i : ~PushedOut(k, i))
        => cachedAt[accepted[i].id] # 0 /\ cachedAt[accepted[i].id] >= accepted[i].at

Reacceptance == AcceptedEarlier /\ QueueIsRecent /\ RecentIsCached /\ ReacceptedForAReason

Typed == TypeOK /\ Attempts

-----------------------------------------------------------------------------

(* What appending an element and cutting a prefix leave in a sequence.      *)
LEMMA AppendFacts ==
    ASSUME NEW S, NEW s \in Seq(S), NEW e \in S
    PROVE  /\ Append(s, e) \in Seq(S)
           /\ Len(Append(s, e)) = Len(s) + 1
           /\ DOMAIN Append(s, e) = 1..(Len(s) + 1)
           /\ \A i \in 1..Len(s) : Append(s, e)[i] = s[i]
           /\ Append(s, e)[Len(s) + 1] = e
OBVIOUS

LEMMA CutFacts ==
    ASSUME NEW S, NEW s \in Seq(S), NEW n \in 0..Len(s)
    PROVE  /\ SubSeq(s, n + 1, Len(s)) \in Seq(S)
           /\ Len(SubSeq(s, n + 1, Len(s))) = Len(s) - n
           /\ \A i \in 1..(Len(s) - n) : SubSeq(s, n + 1, Len(s))[i] = s[n + i]
OBVIOUS

(* The counters stay natural numbers, whichever of them is increased.       *)
LEMMA CountsFacts ==
    ASSUME NEW S, NEW f \in [S -> Nat], NEW x \in S, NEW y \in S
    PROVE  /\ [f EXCEPT ![x] = @ + 1] \in [S -> Nat]
           /\ [f EXCEPT ![x] = @ + 1, ![y] = @ + 1] \in [S -> Nat]
<1>1. [f EXCEPT ![x] = @ + 1] \in [S -> Nat]
  OBVIOUS
<1>2. [[f EXCEPT ![x] = @ + 1] EXCEPT ![y] = @ + 1] \in [S -> Nat]
  BY <1>1
<1>3. QED
  BY <1>1, <1>2

(* The branches of process() keep the processor's state typed.              *)
LEMMA ProcessorStep ==
    ASSUME ProcessorTypeOK, restarts \in Nat, NEW id \in MsgId, clock' = clock,
           RefuseInvalid \/ RefuseDuplicate(id) \/ Accept(id, restarts)
    PROVE  ProcessorTypeOK'
<1> USE DEF ProcessorTypeOK
<1>2. CASE RefuseInvalid
  BY <1>2, CountsFacts DEF RefuseInvalid
<1>3. CASE RefuseDuplicate(id)
  BY <1>3, CountsFacts DEF RefuseDuplicate
<1>4. CASE Accept(id, restarts)
  <2> DEFINE ids == Append(dedupQueue, id)
             over == IF Len(ids) > MaxCache THEN Len(ids) - MaxCache ELSE 0
  <2>1. ids \in Seq(MsgId) /\ Len(ids) \in Nat
    BY AppendFacts
  <2>2. over \in 0..Len(ids)
    BY <2>1, ProcessorAssumption
  <2>3. dedupQueue' = SubSeq(ids, over + 1, Len(ids))
    BY <1>4 DEF Accept
  <2> HIDE DEF ids, over
  <2>4. dedupQueue' \in Seq(MsgId)
    BY <2>1, <2>2, <2>3, CutFacts
  <2>5. cachedAt' \in [MsgId -> Nat]
    BY <1>4 DEF Accept, Cleanup
  <2>6. counts' \in [{"messages", "duplicates", "errors"} -> Nat]
    BY <1>4, CountsFacts DEF Accept
  <2>7. accepted' \in Seq([id : MsgId, at : Nat, life : Nat])
    <3>1. [id |-> id, at |-> clock, life |-> restarts] \in [id : MsgId, at : Nat, life : Nat]
      OBVIOUS
    <3>2. accepted' = Append(accepted, [id |-> id, at |-> clock, life |-> restarts])
      BY <1>4 DEF Accept
    <3>3. QED
      BY <3>1, <3>2, AppendFacts
  <2>8. QED
    BY <2>4, <2>5, <2>6, <2>7
<1>5. QED
  BY <1>2, <1>3, <1>4

(* A request is refused, reported as a duplicate or accepted.               *)
LEMMA ProcessCases ==
    ASSUME TypeOK, NEW r \in requests, NEW body, Process(r, body)
    PROVE  /\ MsgIdOf(r.push) \in MsgId
           /\ \/ body = "invalid" /\ RefuseInvalid
              \/ body = "duplicate" /\ RefuseDuplicate(MsgIdOf(r.push))
              \/ body = "accepted" /\ Accept(MsgIdOf(r.push), restarts)
<1>1. MsgIdOf(r.push) \in MsgId
  BY IntakeAssumption DEF TypeOK
<1>2. QED
  BY <1>1, Zenon DEF Process

LEMMA TypedInit == Init => Typed
<1> SUFFICES ASSUME Init PROVE Typed
  OBVIOUS
<1>1. ProcessorTypeOK
  <2>1. counts \in [{"messages", "duplicates", "errors"} -> Nat]
    BY DEF Init, ProcessorInit, NoCounts
  <2>2. QED
    BY <2>1 DEF Init, ProcessorInit, ProcessorTypeOK
<1>2. QED
  BY <1>1, IntakeAssumption DEF Init, Typed, TypeOK, Attempts, Phase, Body

(* Every step of the intake keeps the state typed and the attempts bounded. *)
LEMMA TypedStep == Typed /\ [Next]_vars => Typed'
<1> SUFFICES ASSUME Typed, [Next]_vars PROVE Typed'
  OBVIOUS
<1> USE IntakeAssumption DEF Typed, TypeOK, Attempts, Phase
<1>1. ASSUME NEW p \in Push, StartPush(p) PROVE Typed'
  <2>1. ProcessorTypeOK'
    BY <1>1 DEF StartPush, ProcessorTypeOK, processorVars
  <2>2. QED
    BY <1>1, <2>1 DEF StartPush
<1>2. ASSUME NEW p \in Push, AttemptFails(p) PROVE Typed'
  <2>1. ProcessorTypeOK'
    BY <1>2 DEF AttemptFails, ProcessorTypeOK, processorVars
  <2>2. QED
    BY <1>2, <2>1 DEF AttemptFails
<1>3. ASSUME NEW p \in Push, Retry(p) PROVE Typed'
  <2>1. ProcessorTypeOK'
    BY <1>3 DEF Retry, ProcessorTypeOK, processorVars
  <2>2. QED
    BY <1>3, <2>1 DEF Retry
<1>4. ASSUME NEW a \in answers, Answered(a) PROVE Typed'
  <2>1. ProcessorTypeOK'
    BY <1>4 DEF Answered, ProcessorTypeOK, processorVars
  <2>2. a.push \in Push /\ a.body \in Body
    OBVIOUS
  <2>3. QED
    BY <1>4, <2>1, <2>2 DEF Answered
<1>5. ASSUME NEW r \in requests, ReceiveListenerMessage(r) PROVE Typed'
  <2>1. PICK body \in Body :
          /\ Process(r, body)
          /\ requests' = requests \ {r}
          /\ answers' = answers \cup
                {[push |-> p, attempt |-> attempt[p], body |-> body] :
                    p \in {q \in Push : push[q] = "waiting" /\ Try(q) = r}}
          /\ UNCHANGED <<clock, clientVars, restarts>>
    BY <1>5 DEF ReceiveListenerMessage
  <2>2. ProcessorTypeOK'
    BY <2>1, ProcessCases, ProcessorStep DEF clientVars
  <2>3. answers' \subseteq [push : Push, attempt : 1..MaxRetries, body : Body]
    BY <2>1
  <2>4. QED
    BY <2>1, <2>2, <2>3 DEF clientVars
<1>6. CASE Restart
  <2>1. ProcessorTypeOK'
    BY <1>6 DEF Restart, ProcessorRestart, ProcessorTypeOK, NoCounts
  <2>2. QED
    BY <1>6, <2>1 DEF Restart, clientVars
<1>7. CASE Tick
  <2>1. ProcessorTypeOK'
    BY <1>7 DEF Tick, ProcessorTypeOK, processorVars
  <2>2. QED
    BY <1>7, <2>1 DEF Tick, clientVars
<1>8. CASE UNCHANGED vars
  BY <1>8 DEF vars, ProcessorTypeOK, processorVars, clientVars
<1>9. QED
  BY <1>1, <1>2, <1>3, <1>4, <1>5, <1>6, <1>7, <1>8 DEF Next, Progress

(* The typing of the state: in particular no call makes more than           *)
(* max_retries attempts (push_message's range(self.max_retries)).           *)
THEOREM TypeCorrect == Spec => []TypeOK
<1>1. Typed => TypeOK
  BY DEF Typed
<1>2. QED
  BY TypedInit, TypedStep, <1>1, PTL DEF Spec

-----------------------------------------------------------------------------

(* Accepting a message adds it to the accepted ones and forgets none.       *)
LEMMA AcceptGrows ==
    ASSUME ProcessorTypeOK, NEW id \in MsgId, NEW life \in Nat, Accept(id, life)
    PROVE  /\ \A i \in DOMAIN accepted : i \in DOMAIN accepted' /\ accepted'[i] = accepted[i]
           /\ \E i \in DOMAIN accepted' : accepted'[i].id = id /\ accepted'[i].at = clock
<1> DEFINE m == [id |-> id, at |-> clock, life |-> life]
<1>1. m \in [id : MsgId, at : Nat, life : Nat]
  BY DEF ProcessorTypeOK
<1>2. accepted \in Seq([id : MsgId, at : Nat, life : Nat]) /\ accepted' = Append(accepted, m)
  BY DEF Accept, ProcessorTypeOK
<1>3. m.id = id /\ m.at = clock
  OBVIOUS
<1> HIDE DEF m
<1>4. /\ DOMAIN accepted' = 1..(Len(accepted) + 1)
      /\ \A i \in 1..Len(accepted) : accepted'[i] = accepted[i]
      /\ accepted'[Len(accepted) + 1] = m
  BY <1>1, <1>2, AppendFacts
<1>5. Len(accepted) \in Nat /\ DOMAIN accepted = 1..Len(accepted)
  BY <1>2
<1>6. Len(accepted) + 1 \in DOMAIN accepted'
  BY <1>4, <1>5
<1>7. QED
  BY <1>3, <1>4, <1>5, <1>6

(* What a message's id is cached under is a time at which it was accepted;  *)
(* this is kept by every branch of process().                               *)
LEMMA CachedStep ==
    ASSUME ProcessorTypeOK, CachedWasAccepted, restarts \in Nat, NEW id \in MsgId,
           RefuseInvalid \/ RefuseDuplicate(id) \/ Accept(id, restarts)
    PROVE  CachedWasAccepted'
<1>1. CASE RefuseInvalid
  BY <1>1 DEF RefuseInvalid, CachedWasAccepted
<1>2. CASE RefuseDuplicate(id)
  BY <1>2 DEF RefuseDuplicate, CachedWasAccepted
<1>3. CASE Accept(id, restarts)
  <2> SUFFICES ASSUME NEW u \in MsgId, cachedAt'[u] # 0
               PROVE  \E i \in DOMAIN accepted' :
                          accepted'[i].id = u /\ accepted'[i].at = cachedAt'[u]
    BY DEF CachedWasAccepted
  <2>1. cachedAt'[u] = [cachedAt EXCEPT ![id] = clock][u]
    BY <1>3 DEF Accept, Cleanup
  <2>2. CASE u = id
    BY <2>1, <2>2, <1>3, AcceptGrows DEF ProcessorTypeOK
  <2>3. CASE u # id
    <3>1. cachedAt'[u] = cachedAt[u]
      BY <2>1, <2>3 DEF ProcessorTypeOK
    <3>2. PICK i \in DOMAIN accepted : accepted[i].id = u /\ accepted[i].at = cachedAt[u]
      BY <3>1 DEF CachedWasAccepted
    <3>3. QED
      BY <3>1, <3>2, <1>3, AcceptGrows
  <2>4. QED
    BY <2>2, <2>3
<1>4. QED
  BY <1>1, <1>2, <1>3

(* The steps that leave the message processor alone, and those that do not. *)
LEMMA Steps ==
    ASSUME TypeOK, [Next]_vars
    PROVE  \/ UNCHANGED processorVars /\ answers' \subseteq answers /\ clock' >= clock
           \/ Restart
           \/ \E r \in requests : ReceiveListenerMessage(r)
<1> USE DEF TypeOK, ProcessorTypeOK
<1>1. ASSUME NEW p \in Push, StartPush(p) \/ AttemptFails(p) \/ Retry(p)
      PROVE  UNCHANGED <<processorVars, clock>> /\ answers' \subseteq answers
  BY <1>1 DEF StartPush, AttemptFails, Retry
<1>2. ASSUME NEW a \in answers, Answered(a)
      PROVE  UNCHANGED <<processorVars, clock>> /\ answers' \subseteq answers
  BY <1>2 DEF Answered
<1>3. CASE Tick
  BY <1>3 DEF Tick
<1>4. CASE UNCHANGED vars
  BY <1>4 DEF vars
<1>5. QED
  BY <1>1, <1>2, <1>3, <1>4 DEF Next, Progress

(* Every step of the intake keeps the cache honest.                         *)
LEMMA CacheHonest == TypeOK /\ CachedWasAccepted /\ [Next]_vars => CachedWasAccepted'
<1> SUFFICES ASSUME TypeOK, CachedWasAccepted, [Next]_vars PROVE CachedWasAccepted'
  OBVIOUS
<1>1. CASE UNCHANGED processorVars
  BY <1>1 DEF processorVars, CachedWasAccepted
<1>2. CASE Restart
  BY <1>2 DEF Restart, ProcessorRestart, CachedWasAccepted
<1>3. ASSUME NEW r \in requests, ReceiveListenerMessage(r) PROVE CachedWasAccepted'
  <2>1. PICK body \in Body : Process(r, body)
    BY <1>3 DEF ReceiveListenerMessage
  <2>2. QED
    BY <2>1, ProcessCases, CachedStep DEF TypeOK
<1>4. QED
  BY <1>1, <1>2, <1>3, Steps

(* No message is swallowed: is_duplicate answers True only for an id that   *)
(* was accepted less than ttl_seconds ago.                                  *)
THEOREM DuplicatesAreHonest == Spec => []DuplicateWasAccepted
<1>1. Init => CachedWasAccepted
  BY DEF Init, ProcessorInit, CachedWasAccepted
<1>2. TypeOK /\ CachedWasAccepted => DuplicateWasAccepted
  BY DEF CachedWasAccepted, DuplicateWasAccepted, IsDuplicate
<1>3. QED
  BY <1>1, <1>2, CacheHonest, TypeCorrect, PTL DEF Spec

-----------------------------------------------------------------------------

(* What was accepted stays accepted.                                        *)
LEMMA AcceptedStays ==
    ASSUME TypeOK, [Next]_vars, NEW id \in MsgId, WasAccepted(id)
    PROVE  WasAccepted(id)'
<1>1. CASE UNCHANGED processorVars
  BY <1>1 DEF processorVars, WasAccepted
<1>2. CASE Restart
  BY <1>2 DEF Restart, ProcessorRestart, WasAccepted
<1>3. ASSUME NEW r \in requests, ReceiveListenerMessage(r) PROVE WasAccepted(id)'
  <2>1. PICK body \in Body : Process(r, body)
    BY <1>3 DEF ReceiveListenerMessage
  <2>2. CASE RefuseInvalid
    BY <2>2 DEF RefuseInvalid, WasAccepted
  <2>3. CASE RefuseDuplicate(MsgIdOf(r.push))
    BY <2>3 DEF RefuseDuplicate, WasAccepted
  <2>4. CASE Accept(MsgIdOf(r.push), restarts)
    BY <2>1, <2>4, ProcessCases, AcceptGrows DEF TypeOK, WasAccepted
  <2>5. QED
    BY <2>1, <2>2, <2>3, <2>4, ProcessCases
<1>4. QED
  BY <1>1, <1>2, <1>3, Steps

(* A request answered "accepted" or "duplicate" has an accepted id, at once. *)
LEMMA ProcessEarns ==
    ASSUME TypeOK, CachedWasAccepted, NEW r \in requests,
           NEW body \in {"accepted", "duplicate"}, Process(r, body)
    PROVE  WasAccepted(MsgIdOf(r.push))'
<1>1. CASE RefuseDuplicate(MsgIdOf(r.push))
  <2>1. PICK i \in DOMAIN accepted : accepted[i].id = MsgIdOf(r.push)
    BY <1>1, ProcessCases DEF RefuseDuplicate, IsDuplicate, CachedWasAccepted
  <2>2. QED
    BY <1>1, <2>1 DEF RefuseDuplicate, WasAccepted
<1>2. CASE Accept(MsgIdOf(r.push), restarts)
  BY <1>2, ProcessCases, AcceptGrows DEF TypeOK, WasAccepted
<1>3. QED
  BY <1>1, <1>2, ProcessCases

(* Every step of the intake keeps the answers, and what the calls returned, *)
(* earned.                                                                  *)
LEMMA EarnedStep ==
    /\ TypeOK /\ CachedWasAccepted /\ AnswerWasEarned /\ PushedMeansAccepted
    /\ [Next]_vars
    => AnswerWasEarned' /\ PushedMeansAccepted'
<1> SUFFICES ASSUME TypeOK, CachedWasAccepted, AnswerWasEarned, PushedMeansAccepted,
                    [Next]_vars
             PROVE  AnswerWasEarned' /\ PushedMeansAccepted'
  OBVIOUS
<1>1. \A p \in Push : MsgIdOf(p) \in MsgId
  BY IntakeAssumption
<1>2. ASSUME NEW a \in answers', a.body \in {"accepted", "duplicate"}
      PROVE  WasAccepted(MsgIdOf(a.push))'
  <2>1. CASE a \in answers
    <3>1. WasAccepted(MsgIdOf(a.push)) /\ a.push \in Push
      BY <1>2, <2>1 DEF AnswerWasEarned, TypeOK
    <3>2. QED
      BY <3>1, <1>1, AcceptedStays
  <2>2. CASE a \notin answers
    <3>1. ~Restart
      BY <2>2, <1>2 DEF Restart
    <3>2. PICK r \in requests : ReceiveListenerMessage(r)
      BY <3>1, <2>2, <1>2, Steps
    <3>3. PICK body \in Body :
            /\ Process(r, body)
            /\ answers' = answers \cup
                  {[push |-> p, attempt |-> attempt[p], body |-> body] :
                      p \in {q \in Push : push[q] = "waiting" /\ Try(q) = r}}
      BY <3>2 DEF ReceiveListenerMessage
    <3>4. PICK p \in Push :
            /\ Try(p) = r
            /\ a = [push |-> p, attempt |-> attempt[p], body |-> body]
      BY <3>3, <2>2, <1>2
    <3>5. a.push = p /\ a.body = body /\ r.push = p
      BY <3>4 DEF Try
    <3>6. body \in {"accepted", "duplicate"}
      BY <3>5, <1>2
    <3>7. WasAccepted(MsgIdOf(r.push))'
      BY <3>3, <3>6, ProcessEarns
    <3>8. QED
      BY <3>5, <3>7
  <2>3. QED
    BY <2>1, <2>2
<1>3. ASSUME NEW p \in Push, result'[p] \in {"accepted", "duplicate"}
      PROVE  WasAccepted(MsgIdOf(p))'
  <2>1. CASE result'[p] = result[p]
    <3>1. WasAccepted(MsgIdOf(p))
      BY <1>3, <2>1 DEF PushedMeansAccepted, WasAccepted
    <3>2. QED
      BY <3>1, <1>1, AcceptedStays
  <2>2. CASE \E a \in answers : Answered(a) /\ a.push = p
    <3>1. PICK a \in answers : Answered(a) /\ a.push = p
      BY <2>2
    <3>2. result'[p] = a.body
      BY <3>1 DEF Answered, TypeOK
    <3>3. WasAccepted(MsgIdOf(p))
      BY <3>1, <3>2, <1>3 DEF AnswerWasEarned
    <3>4. QED
      BY <3>3, <1>1, AcceptedStays
  <2>3. ASSUME ~\E a \in answers : Answered(a) /\ a.push = p
        PROVE  result'[p] = result[p]
    <3>1. ASSUME NEW a \in answers, Answered(a) PROVE result'[p] = result[p]
      BY <2>3, <3>1 DEF Answered, TypeOK
    <3>2. ASSUME NEW q \in Push, StartPush(q) \/ AttemptFails(q) \/ Retry(q)
          PROVE  result' = result
      BY <3>2 DEF StartPush, AttemptFails, Retry
    <3>3. ASSUME NEW r \in requests, ReceiveListenerMessage(r) PROVE result' = result
      BY <3>3 DEF ReceiveListenerMessage, clientVars
    <3>4. CASE Restart \/ Tick \/ UNCHANGED vars
      BY <3>4 DEF Restart, Tick, vars, clientVars
    <3>5. QED
      BY <3>1, <3>2, <3>3, <3>4 DEF Next, Progress
  <2>4. QED
    BY <2>1, <2>2, <2>3
<1>4. QED
  BY <1>2, <1>3 DEF AnswerWasEarned, PushedMeansAccepted, WasAccepted

(* A call of push_message that returns anything but a failure or a refusal  *)
(* of the content means that the gateway accepted a message with that id.   *)
THEOREM PushesAreAccepted == Spec => []PushedMeansAccepted
<1>1. Init => CachedWasAccepted /\ AnswerWasEarned /\ PushedMeansAccepted
  BY DEF Init, ProcessorInit, CachedWasAccepted, AnswerWasEarned, PushedMeansAccepted
<1>2. QED
  BY <1>1, CacheHonest, EarnedStep, TypeCorrect, PTL DEF Spec

-----------------------------------------------------------------------------

(* Accepting a message leaves a queue within its bound in which every       *)
(* cached id still has an entry.                                            *)
LEMMA AcceptBounds ==
    ASSUME ProcessorTypeOK, CacheBounded, NEW id \in MsgId, NEW life, Accept(id, life)
    PROVE  CacheBounded'
<1> DEFINE ids == Append(dedupQueue, id)
           over == IF Len(ids) > MaxCache THEN Len(ids) - MaxCache ELSE 0
<1>1. /\ ids \in Seq(MsgId) /\ Len(ids) = Len(dedupQueue) + 1 /\ Len(dedupQueue) \in Nat
      /\ \A i \in 1..Len(dedupQueue) : ids[i] = dedupQueue[i]
      /\ ids[Len(dedupQueue) + 1] = id
  BY AppendFacts DEF ProcessorTypeOK
<1>2. over \in 0..Len(ids) /\ Len(ids) - over <= MaxCache
  BY <1>1, ProcessorAssumption
<1>3. /\ dedupQueue' = SubSeq(ids, over + 1, Len(ids))
      /\ \A u \in MsgId : cachedAt'[u] # 0 =>
            (\A i \in 1..over : u # ids[i]) /\ (u = id \/ cachedAt[u] # 0)
  <2>1. cachedAt' = [u \in MsgId |->
            IF u \in {ids[i] : i \in 1..over} THEN 0
            ELSE Cleanup(clock, [cachedAt EXCEPT ![id] = clock][u])]
    BY DEF Accept
  <2>2. \A u \in MsgId : u # id => [cachedAt EXCEPT ![id] = clock][u] = cachedAt[u]
    BY DEF ProcessorTypeOK
  <2>3. dedupQueue' = SubSeq(ids, over + 1, Len(ids))
    BY DEF Accept
  <2> HIDE DEF ids, over
  <2>4. QED
    BY <2>1, <2>2, <2>3 DEF Cleanup
<1> HIDE DEF ids, over
<1>4. /\ dedupQueue' \in Seq(MsgId)
      /\ Len(dedupQueue') = Len(ids) - over
      /\ \A i \in 1..(Len(ids) - over) : dedupQueue'[i] = ids[over + i]
  BY <1>1, <1>2, <1>3, CutFacts
<1>5. ASSUME NEW u \in MsgId, cachedAt'[u] # 0
      PROVE  \E i \in DOMAIN dedupQueue' : dedupQueue'[i] = u
  <2>1. PICK k \in 1..Len(ids) : ids[k] = u
    BY <1>1, <1>3, <1>5 DEF CacheBounded
  <2>2. k > over
    BY <1>2, <1>3, <1>5, <2>1
  <2>3. k - over \in 1..(Len(ids) - over) /\ over + (k - over) = k
    BY <1>1, <1>2, <2>1, <2>2
  <2>4. k - over \in DOMAIN dedupQueue' /\ dedupQueue'[k - over] = u
    BY <1>4, <2>1, <2>3
  <2>5. QED
    BY <2>4
<1>6. QED
  BY <1>2, <1>4, <1>5 DEF CacheBounded

(* The cache never outgrows max_cache_size: its queue is within the bound   *)
(* and every cached id is queued, so that eviction reaches it.              *)
THEOREM CacheIsBounded == Spec => []CacheBounded
<1>1. Init => CacheBounded
  BY ProcessorAssumption DEF Init, ProcessorInit, CacheBounded
<1>2. TypeOK /\ CacheBounded /\ [Next]_vars => CacheBounded'
  <2> SUFFICES ASSUME TypeOK, CacheBounded, [Next]_vars PROVE CacheBounded'
    OBVIOUS
  <2>1. CASE UNCHANGED processorVars
    BY <2>1 DEF processorVars, CacheBounded
  <2>2. CASE Restart
    BY <2>2, ProcessorAssumption DEF Restart, ProcessorRestart, CacheBounded
  <2>3. ASSUME NEW r \in requests, ReceiveListenerMessage(r) PROVE CacheBounded'
    <3>1. PICK body \in Body : Process(r, body)
      BY <2>3 DEF ReceiveListenerMessage
    <3>2. CASE RefuseInvalid
      BY <3>2 DEF RefuseInvalid, CacheBounded
    <3>3. CASE RefuseDuplicate(MsgIdOf(r.push))
      BY <3>3 DEF RefuseDuplicate, CacheBounded
    <3>4. CASE Accept(MsgIdOf(r.push), restarts)
      BY <3>1, <3>4, ProcessCases, AcceptBounds DEF TypeOK
    <3>5. QED
      BY <3>1, <3>2, <3>3, <3>4, ProcessCases
  <2>4. QED
    BY <2>1, <2>2, <2>3, Steps
<1>3. QED
  BY <1>1, <1>2, TypeCorrect, PTL DEF Spec

-----------------------------------------------------------------------------

(* The accepted messages are well formed.                                   *)
LEMMA AcceptedTyped ==
    ASSUME TypeOK, NEW i \in DOMAIN accepted
    PROVE  accepted[i].id \in MsgId /\ accepted[i].at \in Nat /\ accepted[i].life \in Nat
<1> DEFINE Message == [id : MsgId, at : Nat, life : Nat]
<1>1. accepted \in Seq(Message)
  BY DEF TypeOK, ProcessorTypeOK
<1> HIDE DEF Message
<1>2. accepted[i] \in Message
  BY <1>1
<1>3. QED
  BY <1>2 DEF Message

(* What accepting a message does to accepted, by position.                  *)
LEMMA AcceptAppends ==
    ASSUME TypeOK, NEW id \in MsgId, Accept(id, restarts)
    PROVE  /\ Len(accepted) \in Nat /\ Len(accepted') = Len(accepted) + 1
           /\ DOMAIN accepted = 1..Len(accepted) /\ DOMAIN accepted' = 1..(Len(accepted) + 1)
           /\ \A i \in 1..Len(accepted) : accepted'[i] = accepted[i]
           /\ LET m == accepted'[Len(accepted) + 1]
              IN  m.id = id /\ m.at = clock /\ m.life = restarts
<1> DEFINE m == [id |-> id, at |-> clock, life |-> restarts]
<1>1. m \in [id : MsgId, at : Nat, life : Nat]
  BY DEF TypeOK, ProcessorTypeOK
<1>2. accepted \in Seq([id : MsgId, at : Nat, life : Nat]) /\ accepted' = Append(accepted, m)
  BY DEF Accept, TypeOK, ProcessorTypeOK
<1>3. m.id = id /\ m.at = clock /\ m.life = restarts
  OBVIOUS
<1> HIDE DEF m
<1>4. QED
  BY <1>1, <1>2, <1>3, AppendFacts

(* Accepting a message shifts a full queue by one: what is pushed out is    *)
(* the id accepted MaxCache messages ago.                                   *)
LEMMA AcceptShifts ==
    ASSUME TypeOK, CacheBounded, QueueIsRecent, NEW id \in MsgId, Accept(id, restarts),
           restarts' = restarts
    PROVE  /\ QueueIsRecent'
           /\ \A u \in MsgId :
                 \/ cachedAt'[u] = Cleanup(clock, [cachedAt EXCEPT ![id] = clock][u])
                 \/ /\ Len(accepted') - MaxCache \in 1..Len(accepted')
                    /\ accepted'[Len(accepted') - MaxCache].id = u
                    /\ accepted'[Len(accepted') - MaxCache].life = restarts
<1> DEFINE ids == Append(dedupQueue, id)
           over == IF Len(ids) > MaxCache THEN Len(ids) - MaxCache ELSE 0
           N == Len(accepted)
           L == Len(dedupQueue)
<1>1. /\ ids \in Seq(MsgId) /\ Len(ids) = L + 1 /\ L \in Nat
      /\ \A i \in 1..L : ids[i] = dedupQueue[i]
      /\ ids[L + 1] = id
  BY AppendFacts DEF TypeOK, ProcessorTypeOK
<1>2. /\ over = IF L + 1 > MaxCache THEN (L + 1) - MaxCache ELSE 0
      /\ L <= MaxCache /\ MaxCache \in Nat
  BY <1>1, ProcessorAssumption DEF CacheBounded
<1>3. /\ dedupQueue' = SubSeq(ids, over + 1, Len(ids))
      /\ cachedAt' = [u \in MsgId |->
            IF u \in {ids[i] : i \in 1..over} THEN 0
            ELSE Cleanup(clock, [cachedAt EXCEPT ![id] = clock][u])]
  BY DEF Accept
<1>4. /\ N \in Nat /\ Len(accepted') = N + 1
      /\ \A i \in 1..N : accepted'[i] = accepted[i]
      /\ accepted'[N + 1].id = id /\ accepted'[N + 1].life = restarts
  BY AcceptAppends
<1>5. /\ L <= N
      /\ \A q \in 1..L : accepted[N - L + q].id = dedupQueue[q]
                         /\ accepted[N - L + q].life = restarts
  BY DEF QueueIsRecent
<1> HIDE DEF ids, over, N, L
<1>6. L <= MaxCache /\ MaxCache \in Nat /\ (over = 0 \/ (over = 1 /\ L = MaxCache))
  BY <1>1, <1>2
<1>7. ASSUME NEW q \in 1..(L + 1)
      PROVE  /\ N - L + q \in 1..(N + 1)
             /\ accepted'[N - L + q].id = ids[q] /\ accepted'[N - L + q].life = restarts
  <2>1. CASE q = L + 1
    <3>1. N - L + q = N + 1
      BY <1>1, <1>4, <2>1
    <3>2. QED
      BY <3>1, <1>1, <1>4, <2>1
  <2>2. CASE q # L + 1
    <3>1. q \in 1..L /\ N - L + q \in 1..N
      BY <1>1, <1>4, <1>5, <2>2
    <3>2. accepted'[N - L + q] = accepted[N - L + q] /\ ids[q] = dedupQueue[q]
      BY <3>1, <1>1, <1>4
    <3>3. accepted[N - L + q].id = dedupQueue[q] /\ accepted[N - L + q].life = restarts
      BY <3>1, <1>5
    <3>4. N \in Nat /\ N - L + q \in 1..(N + 1)
      BY <3>1, <1>4
    <3>5. QED
      BY <3>2, <3>3, <3>4
  <2>3. QED
    BY <2>1, <2>2
<1>8. over \in 0..Len(ids)
  BY <1>1, <1>6
<1>9. /\ Len(dedupQueue') = L + 1 - over
      /\ \A q \in 1..(L + 1 - over) : dedupQueue'[q] = ids[over + q]
  BY <1>1, <1>3, <1>8, CutFacts
<1>10. Len(dedupQueue') <= Len(accepted')
  BY <1>1, <1>6, <1>4, <1>5, <1>9
<1>11. ASSUME NEW q \in 1..Len(dedupQueue')
       PROVE  /\ accepted'[Len(accepted') - Len(dedupQueue') + q].id = dedupQueue'[q]
              /\ accepted'[Len(accepted') - Len(dedupQueue') + q].life = restarts
  <2>1. over + q \in 1..(L + 1) /\ q \in 1..(L + 1 - over)
    BY <1>1, <1>6, <1>9
  <2>2. Len(accepted') - Len(dedupQueue') + q = N - L + (over + q)
    BY <1>1, <1>6, <1>4, <1>9, <2>1
  <2>3. QED
    BY <2>1, <2>2, <1>7, <1>9
<1>12. ASSUME NEW u \in MsgId,
              cachedAt'[u] # Cleanup(clock, [cachedAt EXCEPT ![id] = clock][u])
       PROVE  /\ Len(accepted') - MaxCache \in 1..Len(accepted')
              /\ accepted'[Len(accepted') - MaxCache].id = u
              /\ accepted'[Len(accepted') - MaxCache].life = restarts
  <2>1. u \in {ids[i] : i \in 1..over}
    BY <1>3, <1>12
  <2>2. over = 1 /\ L = MaxCache /\ u = ids[1]
    BY <1>6, <2>1
  <2>3. 1 \in 1..(L + 1) /\ N - L + 1 = Len(accepted') - MaxCache
    BY <1>1, <1>4, <2>2
  <2>4. QED
    BY <1>4, <1>7, <2>2, <2>3
<1>13. QED
  BY <1>10, <1>11, <1>12 DEF QueueIsRecent

(* An accepted id is cached from then on, until it is pushed out or expires. *)
LEMMA AcceptCaches ==
    ASSUME TypeOK, CacheBounded, Reacceptance, NEW id \in MsgId, Accept(id, restarts),
           restarts' = restarts, clock' = clock
    PROVE  RecentIsCached'
<1> DEFINE N == Len(accepted)
<1>1. /\ N \in Nat /\ Len(accepted') = N + 1
      /\ DOMAIN accepted = 1..N /\ DOMAIN accepted' = 1..(N + 1)
      /\ \A i \in 1..N : accepted'[i] = accepted[i]
      /\ accepted'[N + 1].id = id /\ accepted'[N + 1].at = clock
      /\ accepted'[N + 1].life = restarts
  BY AcceptAppends
<1> HIDE DEF N
<1>2. clock \in Nat \ {0} /\ restarts \in Nat /\ MaxCache \in Nat /\ TTL \in Nat
  BY ProcessorAssumption DEF TypeOK, ProcessorTypeOK
<1>3. \A i \in 1..N : /\ accepted[i].id \in MsgId /\ accepted[i].at \in Nat
                      /\ accepted[i].at <= clock
  BY <1>1, AcceptedTyped DEF Reacceptance, AcceptedEarlier
<1> SUFFICES ASSUME NEW i \in 1..(N + 1),
                    accepted'[i].life = restarts,
                    clock - accepted'[i].at < TTL,
                    \A k \in 1..i : ~PushedOut(k, i)'
             PROVE  /\ cachedAt'[accepted'[i].id] # 0
                    /\ cachedAt'[accepted'[i].id] >= accepted'[i].at
  BY <1>1 DEF RecentIsCached
<1> DEFINE u == accepted'[i].id
           t == accepted'[i].at
           c == [cachedAt EXCEPT ![id] = clock]
<1>4. u \in MsgId /\ t \in Nat /\ t <= clock /\ i \in Nat
  BY <1>1, <1>2, <1>3
<1>5. \A k \in 1..i : ~(/\ accepted'[k].id = u /\ accepted'[k].life = restarts
                        /\ k + MaxCache \in i..(N + 1))
  BY <1>1 DEF PushedOut
<1>6. cachedAt'[u] = Cleanup(clock, c[u])
  <2> SUFFICES ASSUME cachedAt'[u] # Cleanup(clock, c[u]) PROVE FALSE
    OBVIOUS
  <2>1. /\ (N + 1) - MaxCache \in 1..(N + 1)
        /\ accepted'[(N + 1) - MaxCache].id = u
        /\ accepted'[(N + 1) - MaxCache].life = restarts
    BY <1>1, <1>4, AcceptShifts DEF Reacceptance
  <2> DEFINE k == (N + 1) - MaxCache
  <2>2. CASE k <= i
    <3>1. k \in 1..i /\ k + MaxCache \in i..(N + 1)
      BY <1>1, <1>2, <1>4, <2>1, <2>2
    <3>2. QED
      BY <3>1, <2>1, <1>5
  <2>3. CASE ~(k <= i)
    <3>1. i \in 1..i /\ i + MaxCache \in i..(N + 1)
      BY <1>1, <1>2, <1>4, <2>1, <2>3
    <3>2. QED
      BY <3>1, <1>5
  <2>4. QED
    BY <2>2, <2>3
<1>7. c[u] \in Nat /\ c[u] # 0 /\ c[u] >= t
  <2>1. CASE u = id
    <3>1. c[u] = clock
      BY <2>1, <1>4 DEF TypeOK, ProcessorTypeOK
    <3>2. QED
      BY <3>1, <1>2, <1>4
  <2>2. CASE u # id
    <3>1. i \in 1..N /\ accepted'[i] = accepted[i]
      BY <1>1, <1>4, <2>2
    <3>2. \A k \in 1..i : ~PushedOut(k, i)
      <4> SUFFICES ASSUME NEW k \in 1..i, PushedOut(k, i) PROVE FALSE
        OBVIOUS
      <4>1. k \in 1..N /\ accepted'[k] = accepted[k]
        BY <1>1, <3>1
      <4>2. k + MaxCache \in i..N
        BY <1>1 DEF PushedOut, N
      <4>3. k + MaxCache \in i..(N + 1)
        BY <1>1, <1>2, <1>4, <4>2
      <4>4. accepted'[k].id = u /\ accepted'[k].life = restarts
        BY <3>1, <4>1 DEF PushedOut
      <4>5. QED
        BY <1>5, <4>3, <4>4
    <3>3. cachedAt[u] # 0 /\ cachedAt[u] >= t
      BY <1>1, <3>1, <3>2 DEF Reacceptance, RecentIsCached
    <3>4. c[u] = cachedAt[u] /\ cachedAt[u] \in Nat
      BY <2>2, <1>4 DEF TypeOK, ProcessorTypeOK
    <3>5. QED
      BY <3>3, <3>4
  <2>3. QED
    BY <2>1, <2>2
<1>8. clock - t < TTL
  OBVIOUS
<1> HIDE DEF u, t, c
<1>9. ~(clock - c[u] > TTL)
  BY <1>2, <1>4, <1>7, <1>8
<1>10. cachedAt'[u] = c[u]
  BY <1>6, <1>9 DEF Cleanup
<1>11. QED
  BY <1>7, <1>10 DEF u, t

(* An id that is accepted again within its ttl was pushed out before.       *)
LEMMA AcceptForAReason ==
    ASSUME TypeOK, Reacceptance, NEW id \in MsgId, Accept(id, restarts)
    PROVE  ReacceptedForAReason'
<1> DEFINE N == Len(accepted)
<1>1. /\ N \in Nat /\ Len(accepted') = N + 1
      /\ DOMAIN accepted = 1..N /\ DOMAIN accepted' = 1..(N + 1)
      /\ \A i \in 1..N : accepted'[i] = accepted[i]
      /\ accepted'[N + 1].id = id /\ accepted'[N + 1].at = clock
      /\ accepted'[N + 1].life = restarts
  BY AcceptAppends
<1> HIDE DEF N
<1> SUFFICES ASSUME NEW i \in 1..(N + 1), NEW j \in 1..(N + 1), i < j,
                    accepted'[i].id = accepted'[j].id,
                    accepted'[i].life = accepted'[j].life,
                    accepted'[j].at - accepted'[i].at < TTL
             PROVE  \E k \in 1..i :
                        /\ accepted'[k].id = accepted'[i].id
                        /\ accepted'[k].life = accepted'[i].life
                        /\ k + MaxCache \in i..(j - 1)
  BY <1>1 DEF ReacceptedForAReason
<1>2. i \in 1..N /\ accepted'[i] = accepted[i]
  BY <1>1
<1>3. \A k \in 1..i : accepted'[k] = accepted[k]
  BY <1>1, <1>2
<1>4. CASE j \in 1..N
  <2>1. accepted'[j] = accepted[j]
    BY <1>1, <1>4
  <2>2. PICK k \in 1..i : /\ accepted[k].id = accepted[i].id
                          /\ accepted[k].life = accepted[i].life
                          /\ k + MaxCache \in i..(j - 1)
    BY <1>1, <1>2, <1>4, <2>1 DEF Reacceptance, ReacceptedForAReason
  <2>3. QED
    BY <1>2, <1>3, <2>2
<1>5. CASE j = N + 1
  <2>1. accepted[i].id = id /\ accepted[i].life = restarts /\ clock - accepted[i].at < TTL
    BY <1>1, <1>2, <1>5
  <2>2. ~(cachedAt[id] # 0 /\ clock - cachedAt[id] < TTL)
    BY DEF Accept, IsDuplicate
  <2>3. /\ clock \in Nat /\ cachedAt[id] \in Nat /\ accepted[i].at \in Nat /\ TTL \in Nat
    BY <1>1, <1>2, AcceptedTyped, ProcessorAssumption DEF TypeOK, ProcessorTypeOK
  <2>4. ~(cachedAt[id] # 0 /\ cachedAt[id] >= accepted[i].at)
    BY <2>1, <2>2, <2>3
  <2>5. PICK k \in 1..i : PushedOut(k, i)
    BY <1>1, <1>2, <2>1, <2>4 DEF Reacceptance, RecentIsCached
  <2>6. k + MaxCache \in i..(j - 1)
    BY <1>1, <1>5, <2>5 DEF PushedOut, N
  <2>7. QED
    BY <1>2, <1>3, <2>1, <2>5, <2>6 DEF PushedOut
<1>6. QED
  BY <1>1, <1>4, <1>5

(* Every step of the intake keeps reacceptance explained. Time only makes   *)
(* fewer messages recent; a restart leaves none of the new life.            *)
LEMMA ReacceptanceStep ==
    TypeOK /\ CacheBounded /\ Reacceptance /\ [Next]_vars => Reacceptance'
<1> SUFFICES ASSUME TypeOK, CacheBounded, Reacceptance, [Next]_vars PROVE Reacceptance'
  OBVIOUS
<1> USE DEF Reacceptance
<1>1. ASSUME UNCHANGED processorVars, restarts' = restarts, clock' \in Nat, clock' >= clock
      PROVE  Reacceptance'
  <2>1. /\ clock \in Nat /\ TTL \in Nat
        /\ \A i \in DOMAIN accepted : accepted[i].at \in Nat
    BY AcceptedTyped, ProcessorAssumption DEF TypeOK, ProcessorTypeOK
  <2>2. AcceptedEarlier'
    BY <1>1, <2>1 DEF processorVars, AcceptedEarlier
  <2>3. QueueIsRecent' /\ ReacceptedForAReason'
    BY <1>1 DEF processorVars, QueueIsRecent, ReacceptedForAReason
  <2>4. RecentIsCached'
    <3> SUFFICES ASSUME NEW i \in DOMAIN accepted,
                        accepted[i].life = restarts,
                        clock' - accepted[i].at < TTL,
                        \A k \in 1..i : ~PushedOut(k, i)
                 PROVE  cachedAt[accepted[i].id] # 0 /\ cachedAt[accepted[i].id] >= accepted[i].at
      BY <1>1 DEF processorVars, RecentIsCached, PushedOut
    <3>1. clock - accepted[i].at < TTL
      BY <1>1, <2>1
    <3>2. QED
      BY <3>1 DEF RecentIsCached
  <2>5. QED
    BY <2>2, <2>3, <2>4
<1>2. CASE Restart
  <2>1. \A i \in DOMAIN accepted : accepted[i].life # restarts' /\ accepted[i].life <= restarts'
    BY <1>2, AcceptedTyped DEF Restart, AcceptedEarlier, TypeOK
  <2>2. accepted' = accepted /\ dedupQueue' = <<>> /\ clock' = clock
    BY <1>2 DEF Restart, ProcessorRestart
  <2>3. AcceptedEarlier' /\ RecentIsCached'
    BY <2>1, <2>2 DEF AcceptedEarlier, RecentIsCached
  <2>4. QueueIsRecent'
    BY <2>2 DEF QueueIsRecent, TypeOK, ProcessorTypeOK
  <2>5. QED
    BY <2>2, <2>3, <2>4 DEF ReacceptedForAReason
<1>3. ASSUME NEW r \in requests, ReceiveListenerMessage(r) PROVE Reacceptance'
  <2>1. PICK body \in Body : Process(r, body)
    BY <1>3 DEF ReceiveListenerMessage
  <2>2. restarts' = restarts /\ clock' = clock /\ clock \in Nat /\ clock >= clock
    BY <1>3 DEF ReceiveListenerMessage, TypeOK, ProcessorTypeOK
  <2>3. CASE RefuseInvalid \/ RefuseDuplicate(MsgIdOf(r.push))
    <3>1. cachedAt' = cachedAt /\ dedupQueue' = dedupQueue /\ accepted' = accepted
      BY <2>3 DEF RefuseInvalid, RefuseDuplicate
    <3>2. QED
      BY <2>2, <3>1 DEF AcceptedEarlier, QueueIsRecent, RecentIsCached, PushedOut,
                        ReacceptedForAReason
  <2>4. CASE Accept(MsgIdOf(r.push), restarts)
    <3>1. MsgIdOf(r.push) \in MsgId
      BY <2>1, ProcessCases
    <3>2. QueueIsRecent' /\ RecentIsCached' /\ ReacceptedForAReason'
      BY <2>2, <2>4, <3>1, AcceptShifts, AcceptCaches, AcceptForAReason
    <3>3. AcceptedEarlier'
      BY <2>2, <2>4, <3>1, AcceptAppends DEF AcceptedEarlier, TypeOK
    <3>4. QED
      BY <3>2, <3>3
  <2>5. QED
    BY <2>1, <2>3, <2>4, ProcessCases
<1> DEFINE Calm == UNCHANGED processorVars /\ restarts' = restarts
                  /\ clock' \in Nat /\ clock' >= clock
<1>4. ASSUME ~Restart, ~\E r \in requests : ReceiveListenerMessage(r)
      PROVE  Calm
  <2>1. clock \in Nat
    BY DEF TypeOK, ProcessorTypeOK
  <2>2. ASSUME NEW p \in Push, StartPush(p) \/ AttemptFails(p) \/ Retry(p)
        PROVE  Calm
    BY <2>1, <2>2 DEF StartPush, AttemptFails, Retry
  <2>3. ASSUME NEW a \in answers, Answered(a) PROVE Calm
    BY <2>1, <2>3 DEF Answered
  <2>4. CASE Tick
    BY <2>1, <2>4 DEF Tick
  <2>5. CASE UNCHANGED vars
    BY <2>1, <2>5 DEF vars
  <2> HIDE DEF Calm
  <2>6. QED
    BY <1>4, <2>2, <2>3, <2>4, <2>5 DEF Next, Progress
<1>5. QED
  BY <1>1, <1>2, <1>3, <1>4

(* A message is accepted twice within ttl_seconds in one life of the        *)
(* gateway only when an entry of its id fell out of the full queue between, *)
(* for every cache size, ttl and number of messages.                        *)
THEOREM ReacceptanceExplained == Spec => []ReacceptedForAReason
<1>1. Init => Reacceptance
  BY DEF Init, ProcessorInit, Reacceptance, AcceptedEarlier, QueueIsRecent,
         RecentIsCached, ReacceptedForAReason
<1>2. Reacceptance => ReacceptedForAReason
  BY DEF Reacceptance
<1>3. QED
  BY <1>1, <1>2, ReacceptanceStep, TypeCorrect, CacheIsBounded, PTL DEF Spec

=============================================================================
