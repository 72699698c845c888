-------------------------- MODULE MessageProcessor --------------------------
(***************************************************************************)
(* The gateway's intake filter,                                            *)
(* src/src/gateway/core/message_processor.py: validation of a raw message, *)
(* and a cache of the message ids seen in the last ttl_seconds with a      *)
(* queue that bounds its size. process() never waits, so a call is one     *)
(* step of the composed system (module Intake); the operators below are    *)
(* its branches. Deduplication is enabled (dedup_enabled).                 *)
(***************************************************************************)
EXTENDS Naturals, Sequences

CONSTANTS
    MsgId,     \* values of StandardMessage.msg_id
    MaxCache,  \* DeduplicationConfig.max_cache_size
    TTL        \* DeduplicationConfig.ttl_seconds, in ticks of clock

ASSUME ProcessorAssumption == MaxCache \in Nat /\ TTL \in Nat

VARIABLES
    clock,       \* time.time(), from 1
    cachedAt,    \* _dedup_cache: when an id was cached, 0 if it is not
    dedupQueue,  \* _dedup_queue: ids in the order they were cached
    counts,      \* _message_count, _duplicate_count, _error_count
    accepted     \* history: the messages process() returned, with time and gateway life

processorVars == <<cachedAt, dedupQueue, counts, accepted>>

-----------------------------------------------------------------------------

NoCounts == [messages |-> 0, duplicates |-> 0, errors |-> 0]

ProcessorInit ==
    /\ clock = 1
    /\ cachedAt = [id \in MsgId |-> 0]
    /\ dedupQueue = <<>>
    /\ counts = NoCounts
    /\ accepted = <<>>

ProcessorTypeOK ==
    /\ clock \in Nat \ {0}
    /\ cachedAt \in [MsgId -> Nat]
    /\ dedupQueue \in Seq(MsgId)
    /\ counts \in [{"messages", "duplicates", "errors"} -> Nat]
    /\ accepted \in Seq([id : MsgId, at : Nat, life : Nat])

(* The cached timestamp is younger than the ttl. *)
IsDuplicate(id) == cachedAt[id] # 0 /\ clock - cachedAt[id] < TTL

-----------------------------------------------------------------------------
(* Plausible bugs, each of which one of the properties of Intake must catch. *)

DuplicateSlides(id) ==        \* a hit renews the timestamp
    /\ IsDuplicate(id)
    /\ cachedAt' = [cachedAt EXCEPT ![id] = clock]
    /\ counts' = [counts EXCEPT !.messages = @ + 1, !.duplicates = @ + 1]
    /\ UNCHANGED <<dedupQueue, accepted>>

CleanupAll(now, at) == 0      \* clears the cache instead of what has expired

-----------------------------------------------------------------------------

(* validate raises: nothing but the counters changes. *)
RefuseInvalid ==
    /\ counts' = [counts EXCEPT !.messages = @ + 1, !.errors = @ + 1]
    /\ UNCHANGED <<cachedAt, dedupQueue, accepted>>

(* process returns None. *)
RefuseDuplicate(id) ==
    /\ IsDuplicate(id)
    /\ counts' = [counts EXCEPT !.messages = @ + 1, !.duplicates = @ + 1]
    /\ UNCHANGED <<cachedAt, dedupQueue, accepted>>

(* _cleanup_expired, for an entry cached at time at (0: no entry). *)
Cleanup(now, at) == IF now - at > TTL THEN 0 ELSE at

(* is_duplicate answers False and process returns the message: the id is    *)
(* cached under the present time, the ids at the head of an overlong queue  *)
(* leave queue and cache, and expired entries leave the cache. An id that   *)
(* was cached before and expired is queued a second time.                   *)
Accept(id, life) ==
    LET ids     == Append(dedupQueue, id)
        over    == IF Len(ids) > MaxCache THEN Len(ids) - MaxCache ELSE 0
        evicted == {ids[i] : i \in 1..over}
        cached  == [cachedAt EXCEPT ![id] = clock]
    IN
    /\ ~IsDuplicate(id)
    /\ dedupQueue' = SubSeq(ids, over + 1, Len(ids))
    /\ cachedAt' = [u \in MsgId |-> IF u \in evicted THEN 0 ELSE Cleanup(clock, cached[u])]
    /\ counts' = [counts EXCEPT !.messages = @ + 1]
    /\ accepted' = Append(accepted, [id |-> id, at |-> clock, life |-> life])

(* A new process starts with an empty cache. *)
ProcessorRestart ==
    /\ cachedAt' = [id \in MsgId |-> 0]
    /\ dedupQueue' = <<>>
    /\ counts' = NoCounts
    /\ UNCHANGED accepted

=============================================================================
