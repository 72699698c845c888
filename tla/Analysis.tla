------------------------------ MODULE Analysis ------------------------------
(***************************************************************************)
(* The filter and analysis worker (src/src/filter, src/src/task_analyzer,  *)
(* src/src/llm_router, src/src/workers/filter_analysis). handle_analyze    *)
(* never awaits, so the filter serves one request at a time; the post to   *)
(* the gateway and the analyses left in the background interleave. Texts   *)
(* are abstract; statistics and the reasons given are left out.            *)
(***************************************************************************)
EXTENDS SequencesExt

CONSTANTS
    Request,        \* requests to /worker/analyze
    Text,
    Keyworded,      \* the texts a rule takes for a task
    Similar,        \* pairs of texts with similarity >= dedup_threshold
    MaxHistory,     \* config.max_history
    MaxLoads        \* bound: loads of the classifier that fail

ASSUME AnalysisAssumption ==
    /\ Keyworded \subseteq Text
    /\ Similar \subseteq Text \X Text
    /\ \A t \in Text : <<t, t>> \in Similar
    /\ \A p \in Similar : <<p[2], p[1]>> \in Similar
    /\ MaxHistory \in Nat \ {0} /\ MaxLoads \in Nat

VARIABLES
    classifier, \* "unset", or, once _initialized, "rules" or "loaded" (_model)
    loads,      \* bound: failed loads so far
    encoder,    \* _embedding_model is there
    history,    \* _message_history, the oldest first
    cache,      \* texts in _embedding_cache
    request,    \* per request: what came of it, and of the post to the gateway
    background, \* requests whose analyze_async is still to end
    cloudKey,   \* the environment holds an API key of Anthropic or OpenAI
    looks       \* history: every entry ever appended, in order

filterVars == <<classifier, loads, encoder, history, cache, looks>>
analysisVars == <<filterVars, request, background, cloudKey>>

Entry == [id : Request, text : Text, vector : BOOLEAN]

Verdict == {"task", "not_task"}

AnalysisInit ==
    /\ classifier = "unset" /\ loads = 0 /\ encoder = FALSE
    /\ history = <<>> /\ cache = {} /\ looks = <<>>
    /\ request = [r \in Request |-> [text |-> "none", outcome |-> "idle", post |-> "none"]]
    /\ background = {}
    /\ cloudKey \in BOOLEAN

-----------------------------------------------------------------------------
(* A plausible bug. *)

ResemblesByHash(entry, text, vector) == entry.text = text      \* vectors are never compared

-----------------------------------------------------------------------------
(* TaskFilter. *)

(* The entries a look finds: by similarity if the text has a vector, and    *)
(* then only among those with a vector; by hash otherwise, among all.       *)
Resembles(entry, text, vector) ==
    IF vector THEN entry.vector /\ <<text, entry.text>> \in Similar ELSE entry.text = text

Found(seq, text, vector) == \E i \in 1..Len(seq) : Resembles(seq[i], text, vector)

(* A deque with maxlen = config.max_history. *)
Appended(seq, entry) ==
    IF Len(seq) < MaxHistory THEN Append(seq, entry) ELSE Append(Tail(seq), entry)

(* The text gets a vector from the cache or from the encoder, which is      *)
(* loaded if it can be and may fail on a text.                              *)
GetEmbedding(text, vector) ==
    /\ encoder' \in {encoder, TRUE}
    /\ vector => encoder'
    /\ encoder' /\ text \in cache => vector
    /\ cache' = IF vector THEN cache \cup {text} ELSE cache

(* The model answers anything, an answer that cannot be parsed is "not      *)
(* task", and a call that fails is left to the rules, as is everything when *)
(* transformers are not installed.                                          *)
RuleVerdict(text) == IF text \in Keyworded THEN "task" ELSE "not_task"

Classify(text, verdict) ==
    \/ classifier' = "loaded" /\ verdict \in Verdict
    \/ classifier' = "rules" /\ verdict = RuleVerdict(text)

(* Not yet initialized, the classifier is loaded first.                     *)
InitModel == IF classifier = "unset" THEN classifier' \in {"rules", "loaded"} ELSE classifier' = classifier

-----------------------------------------------------------------------------
(* The worker. *)

Concluded(r, text, outcome) == [request EXCEPT ![r].text = text, ![r].outcome = outcome]

(* A duplicate is not recorded; every other text is, before it is looked at. *)
Duplicate(r, text, vector) ==
    /\ Found(history, text, vector)
    /\ request' = Concluded(r, text, "duplicate")
    /\ UNCHANGED <<classifier, loads, history, looks, background>>

Recorded(r, text, vector) ==
    LET entry == [id |-> r, text |-> text, vector |-> vector]
    IN  /\ ~Found(history, text, vector)
        /\ history' = Appended(history, entry)
        /\ looks' = Append(looks, entry)

(* A task is analysed by the rules at once: the loop of the worker runs, so *)
(* that the analysis by a model is left to a task nobody waits for.         *)
Classified(r, text, vector) ==
    /\ Recorded(r, text, vector)
    /\ InitModel
    /\ \E verdict \in Verdict :
        /\ Classify(text, verdict)
        /\ request' = Concluded(r, text, verdict)
        /\ background' = IF verdict = "task" THEN background \cup {r} ELSE background
    /\ UNCHANGED loads

(* LLMFilterError goes through handle_analyze: the caller gets a 500, and   *)
(* the next request loads again.                                            *)
LoadFails(r, text, vector) ==
    /\ classifier = "unset" /\ loads < MaxLoads
    /\ loads' = loads + 1
    /\ Recorded(r, text, vector)
    /\ request' = Concluded(r, text, "error")
    /\ UNCHANGED <<classifier, background>>

Analyze(r, text) ==
    /\ request[r].outcome = "idle"
    /\ \E vector \in BOOLEAN :
        /\ GetEmbedding(text, vector)
        /\ Duplicate(r, text, vector) \/ Classified(r, text, vector) \/ LoadFails(r, text, vector)
    /\ UNCHANGED cloudKey

(* The result is posted to /api/v1/analysis/done once; a failure is logged. *)
PostResult(r) ==
    /\ request[r].outcome \in Verdict \cup {"duplicate"} /\ request[r].post = "none"
    /\ \E post \in {"delivered", "lost"} : request' = [request EXCEPT ![r].post = post]
    /\ UNCHANGED <<filterVars, background, cloudKey>>

(* The owner of the filter forgets everything. *)
ClearHistory ==
    /\ history # <<>>
    /\ history' = <<>> /\ cache' = {} /\ looks' = <<>>
    /\ UNCHANGED <<classifier, loads, encoder, request, background, cloudKey>>

-----------------------------------------------------------------------------
(* LLMRouter, in the background. *)

Providers == IF cloudKey THEN {"ollama", "cloud"} ELSE {"ollama"}

(* The providers catch every error of theirs and answer "".                 *)
OllamaComplete == {"text", ""}
CloudComplete == {"text", ""}
Complete(provider) == IF provider = "ollama" THEN OllamaComplete ELSE CloudComplete

RouteTask(complexity) ==
    LET wanted == IF complexity = "complex" THEN "cloud" ELSE "ollama"
        key    == IF wanted \in Providers THEN wanted ELSE "ollama"
    IN  Complete(key)

(* An answer that is text may be JSON or not: whatever comes of it, and     *)
(* whatever the rules say instead, is returned to nobody.                   *)
AnalyzeAsyncEnds(r) ==
    /\ r \in background
    /\ \E content \in RouteTask("simple") : background' = background \ {r}
    /\ UNCHANGED <<filterVars, request, cloudKey>>

-----------------------------------------------------------------------------
AnalysisNext ==
    \/ \E r \in Request, text \in Text : Analyze(r, text)
    \/ \E r \in Request : PostResult(r) \/ AnalyzeAsyncEnds(r)
    \/ ClearHistory

-----------------------------------------------------------------------------
(* Properties. *)

(* Every variable has its type, and the history never exceeds its bound. *)
AnalysisTypeOK ==
    /\ classifier \in {"unset", "rules", "loaded"} /\ loads \in 0..MaxLoads
    /\ encoder \in BOOLEAN /\ history \in Seq(Entry) /\ Len(history) <= MaxHistory
    /\ cache \subseteq Text /\ looks \in Seq(Entry)
    /\ request \in [Request -> [text : Text \cup {"none"}, outcome : Verdict \cup {"idle", "duplicate", "error"},
                                post : {"none", "delivered", "lost"}]]
    /\ background \subseteq Request /\ cloudKey \in BOOLEAN

(* Two requests whose texts resemble each other both pass for a reason:     *)
(* max_history others were recorded in between, or the first was           *)
(* recorded without a vector and the second looked for with one, or the     *)
(* second had none and its text differs (filter/__init__.py:284-332).       *)
SecondLookForAReason ==
    \A i, j \in 1..Len(looks) :
        i < j /\ <<looks[i].text, looks[j].text>> \in Similar =>
            \/ j - i > MaxHistory
            \/ ~looks[i].vector /\ looks[j].vector
            \/ ~looks[j].vector /\ looks[i].text # looks[j].text
=============================================================================
