---------------------------- MODULE ChatPipeline ----------------------------
(***************************************************************************)
(* The handler of /v1/chat/completions (app/main.py) between the budget    *)
(* check and the answer: the semantic cache (app/semantic_cache.py), the   *)
(* hooks (app/hooks.py), the content guards before and after the provider  *)
(* (app/services/content_moderation.py), the provider task that runs       *)
(* beside the first guard, the escalation cascade, and the stream that is  *)
(* handed to the client.                                                   *)
(*                                                                         *)
(* A step is what a handler does between two awaits: the state names the   *)
(* await it is parked at.  Requests meet in the cache.  The handler catches *)
(* the providers' errors only; any other exception ends it with a 500,     *)
(* here a crash.  The store of the counters does not fail here: that is    *)
(* Metering's subject.  A client of a plain request that goes away does    *)
(* not stop the handler.                                                   *)
(***************************************************************************)
EXTENDS Integers, SequencesExt

CONSTANTS
    Requests,       \* slots for requests in flight
    Texts,          \* last user messages
    NoText,         \* a conversation without user text
    Kinds,          \* Kinds[r]: the requests that may arrive in slot r
    Similarity,     \* Similarity[t][u]: cosine of two embeddings, as a number
    Threshold,      \* SEMANTIC_CACHE_THRESHOLD
    MaxEntries,     \* SEMANTIC_CACHE_MAX_ENTRIES
    TTL,            \* SEMANTIC_CACHE_TTL_SECONDS, 0 for none
    FailOpen,       \* GUARD_FAIL_OPEN
    MoreTiers,      \* tiers of the cascade after the first
    NoEntry

\* skip: a whitelisted key or use case, or the guards switched off.
KindType ==
    [text : Texts \cup {NoText}, stream : BOOLEAN, tools : BOOLEAN,
     cascade : BOOLEAN, skip : BOOLEAN]

ASSUME ChatAssumption ==
    /\ NoText \notin Texts
    /\ Kinds \in [Requests -> SUBSET KindType]
    /\ \A r \in Requests : Kinds[r] # {}
    /\ Similarity \in [Texts -> [Texts -> Nat]]
    /\ Threshold \in Nat /\ TTL \in Nat /\ MoreTiers \in Nat
    /\ MaxEntries \in Nat \ {0}
    /\ FailOpen \in BOOLEAN

VARIABLES
    cache,      \* the entries, least recently used first
    pc,         \* pc[r]: the await r is parked at
    kind,       \* kind[r]: what was asked
    embedded,   \* embedded[r]: r has the embedding it will store under
    pre,        \* pre[r]: the guard's verdict on the prompt
    task,       \* task[r]: the provider task, then the answer it left
    usage,      \* usage[r]: the token counts of the answer that is kept
    tier,       \* tier[r]: further tiers of the cascade that were called
    post,       \* post[r]: the guard's verdict on the output
    reply,      \* reply[r]: what the client was given
    events,     \* events[r]: what the client has read of a stream
    \* history
    charged,    \* charged[r]: times record_usage was called for r
    served      \* served[r]: the entry r was answered from

requestVars == <<pc, kind, embedded, pre, task, usage, tier, post, reply, events, charged, served>>
vars == <<cache, requestVars>>

\* Three outcomes of a guard call; an unavailable guard decides by FailOpen.
Verdicts == {"passed", "blocked", "unavailable"}

Blocks(v) == v = "blocked" \/ (v = "unavailable" /\ ~FailOpen)

\* The guard was asked and did not object.
LetPass(v) == v \in Verdicts /\ ~Blocks(v)

\* "none": not asked.  "raised": the guard answered without a text, and the
\* call ended in an exception instead of a verdict.
VerdictType == Verdicts \cup {"none", "raised"}

\* A count to record, no count (or no key to record it for), or a usage field
\* that cannot be read, as a null.  "none": not read.
Usages == {"counted", "absent", "unreadable"}

\* History: who produced an entry.  Somebody who skips the guards, somebody
\* whose prompt and output both were let pass, or somebody else.
Origins == {"skipped", "passed", "unchecked"}

\* created: the age the cache computes with.  old: history, the time since the
\* answer was produced.
EntryType == [text : Texts, origin : Origins, created : 0..TTL, old : 0..TTL]

-----------------------------------------------------------------------------
(* The semantic cache *)

Expired(e) == TTL > 0 /\ e.created >= TTL

\* A lookup drops what has expired as it goes through the entries.
Live(c) ==
    LET kept[n \in 0..Len(c)] ==
            IF n = 0 THEN << >>
            ELSE IF Expired(c[n]) THEN kept[n - 1] ELSE Append(kept[n - 1], c[n])
    IN kept[Len(c)]

\* Positions of entries within the threshold.
Close(c, t) == {i \in DOMAIN c : Similarity[t][c[i].text] >= Threshold}

\* The nearest; of equally near ones the most recently used.
Nearest(c, t) ==
    CHOOSE i \in Close(c, t) : \A j \in Close(c, t) :
        \/ Similarity[t][c[j].text] < Similarity[t][c[i].text]
        \/ Similarity[t][c[j].text] = Similarity[t][c[i].text] /\ j <= i

\* A variant that must fail: a hit renews the entry.
TouchRenewing(c, i) == Append(RemoveAt(c, i), [c[i] EXCEPT !.created = 0])

\* A hit makes the entry the most recently used one.
Touch(c, i) == Append(RemoveAt(c, i), c[i])

\* A variant that must fail: evict only what was there before.
EvictLate(c) == SubSeq(c, IF Len(c) > MaxEntries + 1 THEN 2 ELSE 1, Len(c))

\* The least recently used entries go until the rest fits.
Evict(c) == SubSeq(c, IF Len(c) > MaxEntries THEN Len(c) - MaxEntries + 1 ELSE 1, Len(c))

\* store: the key is the request id, which the client may choose, so the entry
\* may replace the one at position i; 0 for a new key.
Store(c, e, i) == Evict(Append(IF i = 0 THEN c ELSE RemoveAt(c, i), e))

-----------------------------------------------------------------------------
(* What a request is entitled to *)

Cacheable(k) == ~k.stream /\ ~k.tools /\ ~k.cascade

\* Both guards are for requests with user text that do not skip the guard.
Guarded(k) == ~k.skip /\ k.text # NoText

-----------------------------------------------------------------------------
(* Parts of steps: each sets all of a request's variables it may touch *)

\* The request is over.
Reply(r, what) ==
    /\ pc' = [pc EXCEPT ![r] = "done"]
    /\ reply' = [reply EXCEPT ![r] = what]

\* Hooks, then the provider task beside the guard: the handler waits for the
\* guard first.  A hook may block.
Begin(r, k) ==
    \/ /\ Reply(r, "hook_block")
       /\ UNCHANGED <<pre, task>>
    \/ /\ pc' = [pc EXCEPT ![r] = IF Guarded(k) THEN "guard" ELSE "provider"]
       /\ pre' = [pre EXCEPT ![r] = IF Guarded(k) THEN "running" ELSE "none"]
       /\ task' = [task EXCEPT ![r] = "running"]
       /\ UNCHANGED reply

\* What the handler may store: an answer the guard did not block.
Keep(r, v) == embedded[r] /\ ~Blocks(v)

\* What the guards have had to say by the end of this step, v on the output.
Origin(r, v) ==
    IF ~Guarded(kind[r]) THEN "skipped"
    ELSE IF LetPass(pre'[r]) /\ (task'[r] = "text" => LetPass(v)) THEN "passed"
    ELSE "unchecked"

\* The answer, or the refusal in its place, goes out and into the cache.
Deliver(r, v) ==
    /\ post' = [post EXCEPT ![r] = v]
    /\ Reply(r, IF Blocks(v) THEN "refusal" ELSE "answer")
    /\ IF Keep(r, v)
       THEN \E i \in 0..Len(cache) :
               cache' = Store(cache, [text |-> kind[r].text, origin |-> Origin(r, v),
                                      created |-> 0, old |-> 0], i)
       ELSE UNCHANGED cache

\* The provider's last word for a plain request: what it used is recorded if it
\* counts anything, and the guard reads the output if there is any.
Finish(r, answer) ==
    /\ task' = [task EXCEPT ![r] = answer]
    /\ \E u \in Usages :
          /\ usage' = [usage EXCEPT ![r] = u]
          /\ charged' = [charged EXCEPT ![r] = IF u = "counted" THEN @ + 1 ELSE @]
          /\ IF u = "unreadable"
             THEN Reply(r, "crash") /\ UNCHANGED <<cache, post>>
             ELSE IF Guarded(kind[r]) /\ answer = "text"
             THEN pc' = [pc EXCEPT ![r] = "postguard"] /\ UNCHANGED <<cache, reply, post>>
             ELSE Deliver(r, "none")

\* The prompt has passed and the provider task has ended: an error is raised
\* at once, a stream is handed out, an empty answer goes down the cascade.
Settle(r, outcome) ==
    CASE outcome = "failed" ->
            /\ task' = [task EXCEPT ![r] = outcome]
            /\ Reply(r, "error")
            /\ UNCHANGED <<cache, usage, post, tier, charged>>
      [] kind[r].stream /\ outcome # "failed" ->
            /\ task' = [task EXCEPT ![r] = outcome]
            /\ pc' = [pc EXCEPT ![r] = "streaming"]
            /\ reply' = [reply EXCEPT ![r] = "stream"]
            /\ UNCHANGED <<cache, usage, post, tier, charged>>
      [] ~kind[r].stream /\ outcome = "blank" /\ kind[r].cascade /\ MoreTiers > 0 ->
            /\ task' = [task EXCEPT ![r] = outcome]
            /\ pc' = [pc EXCEPT ![r] = "escalating"]
            /\ tier' = [tier EXCEPT ![r] = 1]
            /\ UNCHANGED <<cache, usage, post, reply, charged>>
      [] OTHER -> Finish(r, outcome) /\ UNCHANGED tier

-----------------------------------------------------------------------------
(* Arrival and cache *)

\* Sets what was asked; the rest of a free slot has its initial value.
Arrive(r, k) ==
    /\ pc[r] = "idle"
    /\ kind' = [kind EXCEPT ![r] = k]
    /\ IF Cacheable(k) /\ k.text # NoText
       THEN pc' = [pc EXCEPT ![r] = "embedding"] /\ UNCHANGED <<pre, task, reply>>
       ELSE Begin(r, k)
    /\ UNCHANGED <<cache, embedded, usage, tier, post, events, charged, served>>

\* The embedding has come, and an entry is close: it is the answer.
Hit(r) ==
    /\ pc[r] = "embedding"
    /\ LET live == Live(cache)
           i == Nearest(live, kind[r].text)
       IN /\ Close(live, kind[r].text) # {}
          /\ cache' = Touch(live, i)
          /\ served' = [served EXCEPT ![r] = live[i]]
    /\ Reply(r, "cached")
    /\ UNCHANGED <<kind, embedded, pre, task, usage, tier, post, events, charged>>

Miss(r) ==
    /\ pc[r] = "embedding"
    /\ Close(Live(cache), kind[r].text) = {}
    /\ cache' = Live(cache)
    /\ embedded' = [embedded EXCEPT ![r] = TRUE]
    /\ Begin(r, kind[r])
    /\ UNCHANGED <<kind, usage, tier, post, events, charged, served>>

\* No embedding: neither looked up nor stored.
EmbeddingFails(r) ==
    /\ pc[r] = "embedding"
    /\ Begin(r, kind[r])
    /\ UNCHANGED <<cache, kind, embedded, usage, tier, post, events, charged, served>>

-----------------------------------------------------------------------------
(* The guard and the provider side by side *)

\* A variant that must fail: the provider task is left to itself.
PreVerdictDetached(r, v) ==
    /\ pc[r] = "guard"
    /\ pre' = [pre EXCEPT ![r] = v]
    /\ IF Blocks(v) THEN Reply(r, "guard_block") /\ UNCHANGED <<cache, task, usage, tier, post, charged>>
       ELSE IF task[r] = "running"
       THEN pc' = [pc EXCEPT ![r] = "provider"]
            /\ UNCHANGED <<cache, task, usage, tier, post, reply, charged>>
       ELSE Settle(r, task[r])
    /\ UNCHANGED <<kind, embedded, events, served>>

\* The guard has decided: cancel, or go on with what the provider has done.
PreVerdict(r, v) ==
    /\ pc[r] = "guard"
    /\ pre' = [pre EXCEPT ![r] = v]
    /\ IF Blocks(v)
       THEN pc' = [pc EXCEPT ![r] = "cancelling"]
            /\ UNCHANGED <<cache, task, usage, tier, post, reply, charged>>
       ELSE IF task[r] = "running"
       THEN pc' = [pc EXCEPT ![r] = "provider"]
            /\ UNCHANGED <<cache, task, usage, tier, post, reply, charged>>
       ELSE Settle(r, task[r])
    /\ UNCHANGED <<kind, embedded, events, served>>

\* The call to the guard raises, and so does the handler that awaits it: the
\* provider task is neither cancelled nor awaited.
PreRaises(r) ==
    /\ pc[r] = "guard"
    /\ pre' = [pre EXCEPT ![r] = "raised"]
    /\ Reply(r, "crash")
    /\ UNCHANGED <<cache, kind, embedded, task, usage, tier, post, events, charged, served>>

\* A variant that must fail: wait for a cancellation that a task which has
\* ended never reports.
CancelledRunning(r) ==
    /\ pc[r] = "cancelling"
    /\ task[r] = "running"
    /\ task' = [task EXCEPT ![r] = "cancelled"]
    /\ Reply(r, "guard_block")
    /\ UNCHANGED <<cache, kind, embedded, pre, usage, tier, post, events, charged, served>>

\* The cancelled task is awaited; one that had ended before stays as it is.
Cancelled(r) ==
    /\ pc[r] = "cancelling"
    /\ task' = [task EXCEPT ![r] = IF @ = "running" THEN "cancelled" ELSE @]
    /\ Reply(r, "guard_block")
    /\ UNCHANGED <<cache, kind, embedded, pre, usage, tier, post, events, charged, served>>

\* A variant that must fail: the handler waits for whichever ends first.
ProviderEndsFirst(r, outcome) ==
    /\ pc[r] \in {"guard", "provider"}
    /\ task[r] = "running"
    /\ outcome = "blank" => ~kind[r].stream
    /\ UNCHANGED <<kind, embedded, pre, events, served>>
    /\ Settle(r, outcome)

\* The provider task ends, before the guard has decided, awaited by the handler,
\* or left running by a handler that is gone.  "blank": content that is empty
\* but passes the registry's test for null and blank strings, e.g. an empty
\* list of parts.
ProviderEnds(r, outcome) ==
    /\ pc[r] \in {"guard", "provider", "done"}
    /\ task[r] = "running"
    /\ outcome = "blank" => ~kind[r].stream
    /\ UNCHANGED <<kind, embedded, pre, events, served>>
    /\ IF pc[r] = "provider" THEN Settle(r, outcome)
       ELSE task' = [task EXCEPT ![r] = outcome]
            /\ UNCHANGED <<cache, pc, usage, tier, post, reply, charged>>

\* A variant that must fail: every tier's tokens are recorded as they come.
TierEndsCharging(r, outcome) ==
    /\ pc[r] = "escalating"
    /\ UNCHANGED <<kind, embedded, pre, events, served>>
    /\ IF outcome # "text" /\ tier[r] < MoreTiers
       THEN /\ tier' = [tier EXCEPT ![r] = @ + 1]
            /\ charged' = [charged EXCEPT ![r] = @ + 1]
            /\ UNCHANGED <<cache, pc, task, usage, post, reply>>
       ELSE Finish(r, IF outcome = "failed" THEN task[r] ELSE outcome) /\ UNCHANGED tier

\* A tier of the cascade answers; one that fails leaves the answer before it.
TierEnds(r, outcome) ==
    /\ pc[r] = "escalating"
    /\ UNCHANGED <<kind, embedded, pre, events, served>>
    /\ IF outcome # "text" /\ tier[r] < MoreTiers
       THEN /\ tier' = [tier EXCEPT ![r] = @ + 1]
            /\ UNCHANGED <<cache, pc, task, usage, post, reply, charged>>
       ELSE Finish(r, IF outcome = "failed" THEN task[r] ELSE outcome) /\ UNCHANGED tier

\* A tier ends in an exception that is no provider's error.
TierEscapes(r) ==
    /\ pc[r] = "escalating"
    /\ Reply(r, "crash")
    /\ UNCHANGED <<cache, kind, embedded, pre, task, usage, tier, post, events, charged, served>>

PostVerdict(r, v) ==
    /\ pc[r] = "postguard"
    /\ UNCHANGED <<kind, embedded, pre, task, usage, tier, events, charged, served>>
    /\ Deliver(r, v)

\* The call to the guard raises: an answer that was recorded, and a 500.
PostRaises(r) ==
    /\ pc[r] = "postguard"
    /\ post' = [post EXCEPT ![r] = "raised"]
    /\ Reply(r, "crash")
    /\ UNCHANGED <<cache, kind, embedded, pre, task, usage, tier, events, charged, served>>

-----------------------------------------------------------------------------
(* The stream *)

Seen(r, event) == \E i \in DOMAIN events[r] : events[r][i] = event

\* The final marker, unless upstream's own has been passed on.
Closing(log) == IF \E i \in DOMAIN log : log[i] = "done" THEN << >> ELSE <<"done">>

\* Text of the provider; consecutive chunks count as one.
Chunk(r) ==
    /\ pc[r] = "streaming"
    /\ events[r] = << >>
    /\ events' = [events EXCEPT ![r] = <<"text">>]
    /\ UNCHANGED <<cache, pc, kind, embedded, pre, task, usage, tier, post, reply, charged, served>>

\* Upstream's own final marker is passed on as it comes.
UpstreamDone(r) ==
    /\ pc[r] = "streaming"
    /\ ~Seen(r, "done")
    /\ events' = [events EXCEPT ![r] = Append(@, "done")]
    /\ UNCHANGED <<cache, pc, kind, embedded, pre, task, usage, tier, post, reply, charged, served>>

\* Upstream ends: the guard reads what was collected, if it is on.
UpstreamEnds(r) ==
    /\ pc[r] = "streaming"
    /\ IF Guarded(kind[r]) /\ Seen(r, "text")
       THEN pc' = [pc EXCEPT ![r] = "streamguard"] /\ UNCHANGED events
       ELSE /\ pc' = [pc EXCEPT ![r] = "done"]
            /\ events' = [events EXCEPT ![r] = @ \o Closing(@)]
    /\ UNCHANGED <<cache, kind, embedded, pre, task, usage, tier, post, reply, charged, served>>

\* A variant that must fail: a broken stream is guarded like a whole one.
UpstreamBreaksGuarded(r) ==
    /\ pc[r] = "streaming"
    /\ pc' = [pc EXCEPT ![r] = IF Guarded(kind[r]) THEN "streamguard" ELSE "done"]
    /\ events' = [events EXCEPT ![r] = @ \o <<"error", "done">>]
    /\ UNCHANGED <<cache, kind, embedded, pre, task, usage, tier, post, reply, charged, served>>

\* Upstream breaks: an error event and the final marker, whatever went before.
UpstreamBreaks(r) ==
    /\ pc[r] = "streaming"
    /\ pc' = [pc EXCEPT ![r] = "done"]
    /\ events' = [events EXCEPT ![r] = @ \o <<"error", "done">>]
    /\ UNCHANGED <<cache, kind, embedded, pre, task, usage, tier, post, reply, charged, served>>

StreamVerdict(r, v) ==
    /\ pc[r] = "streamguard"
    /\ pc' = [pc EXCEPT ![r] = "done"]
    /\ post' = [post EXCEPT ![r] = v]
    /\ events' = [events EXCEPT ![r] =
                     @ \o (IF Blocks(v) THEN <<"warning">> ELSE << >>) \o Closing(@)]
    /\ UNCHANGED <<cache, kind, embedded, pre, task, usage, tier, reply, charged, served>>

\* The call to the guard raises: the stream ends as if the guard were not on.
StreamRaises(r) ==
    /\ pc[r] = "streamguard"
    /\ pc' = [pc EXCEPT ![r] = "done"]
    /\ post' = [post EXCEPT ![r] = "raised"]
    /\ events' = [events EXCEPT ![r] = @ \o Closing(@)]
    /\ UNCHANGED <<cache, kind, embedded, pre, task, usage, tier, reply, charged, served>>

\* The client of a stream goes away: the generator is closed where it is.
Disconnect(r) ==
    /\ pc[r] \in {"streaming", "streamguard"}
    /\ pc' = [pc EXCEPT ![r] = "gone"]
    /\ UNCHANGED <<cache, kind, embedded, pre, task, usage, tier, post, reply, events, charged, served>>

-----------------------------------------------------------------------------
(* Specification *)

\* What a free slot holds in place of a request.
SomeKind(r) == CHOOSE k \in Kinds[r] : TRUE

\* The slot is free for another request; a provider task that was left running
\* is nobody's any more.
Leave(r) ==
    /\ pc[r] \in {"done", "gone"}
    /\ pc' = [pc EXCEPT ![r] = "idle"]
    /\ embedded' = [embedded EXCEPT ![r] = FALSE]
    /\ pre' = [pre EXCEPT ![r] = "none"]
    /\ task' = [task EXCEPT ![r] = "none"]
    /\ usage' = [usage EXCEPT ![r] = "none"]
    /\ tier' = [tier EXCEPT ![r] = 0]
    /\ post' = [post EXCEPT ![r] = "none"]
    /\ reply' = [reply EXCEPT ![r] = "none"]
    /\ events' = [events EXCEPT ![r] = << >>]
    /\ charged' = [charged EXCEPT ![r] = 0]
    /\ served' = [served EXCEPT ![r] = NoEntry]
    /\ kind' = [kind EXCEPT ![r] = SomeKind(r)]
    /\ UNCHANGED cache

Older(n) == IF n < TTL THEN n + 1 ELSE n

\* Time, as far as an entry's age still matters.
Tick ==
    /\ \E i \in DOMAIN cache : cache[i].old < TTL
    /\ cache' = [i \in DOMAIN cache |->
                    [cache[i] EXCEPT !.created = Older(@), !.old = Older(@)]]
    /\ UNCHANGED requestVars

Init ==
    /\ cache = << >>
    /\ pc = [r \in Requests |-> "idle"]
    /\ kind = [r \in Requests |-> SomeKind(r)]
    /\ embedded = [r \in Requests |-> FALSE]
    /\ pre = [r \in Requests |-> "none"]
    /\ task = [r \in Requests |-> "none"]
    /\ usage = [r \in Requests |-> "none"]
    /\ tier = [r \in Requests |-> 0]
    /\ post = [r \in Requests |-> "none"]
    /\ reply = [r \in Requests |-> "none"]
    /\ events = [r \in Requests |-> << >>]
    /\ charged = [r \in Requests |-> 0]
    /\ served = [r \in Requests |-> NoEntry]

Outcomes == {"text", "blank", "failed"}

\* The steps of a request somebody is bound to take: the guards and the
\* embedding time out, providers answer or time out, upstreams end.
Step(r) ==
    \/ Hit(r)
    \/ Miss(r)
    \/ EmbeddingFails(r)
    \/ \E v \in Verdicts : PreVerdict(r, v) \/ PostVerdict(r, v) \/ StreamVerdict(r, v)
    \/ PreRaises(r) \/ PostRaises(r) \/ StreamRaises(r)
    \/ Cancelled(r)
    \/ \E o \in Outcomes : ProviderEnds(r, o) \/ TierEnds(r, o)
    \/ TierEscapes(r)
    \/ Chunk(r)
    \/ UpstreamDone(r)
    \/ UpstreamEnds(r)
    \/ UpstreamBreaks(r)

Next ==
    \/ \E r \in Requests :
          \/ \E k \in Kinds[r] : Arrive(r, k)
          \/ Step(r)
          \/ Disconnect(r)
          \/ Leave(r)
    \/ Tick

Spec == Init /\ [][Next]_vars

FairSpec == Spec /\ \A r \in Requests : WF_vars(Step(r))

-----------------------------------------------------------------------------
(* Properties *)

\* The cache keeps within its capacity; every variable has its type.
TypeOK ==
    /\ cache \in Seq(EntryType) /\ Len(cache) <= MaxEntries
    /\ pc \in [Requests -> {"idle", "embedding", "guard", "cancelling", "provider",
                            "escalating", "postguard", "streaming", "streamguard",
                            "done", "gone"}]
    /\ kind \in [Requests -> KindType]
    /\ embedded \in [Requests -> BOOLEAN]
    /\ pre \in [Requests -> VerdictType \cup {"running"}]
    /\ task \in [Requests -> Outcomes \cup {"none", "running", "cancelled"}]
    /\ usage \in [Requests -> Usages \cup {"none"}]
    /\ tier \in [Requests -> 0..MoreTiers]
    /\ post \in [Requests -> VerdictType]
    /\ reply \in [Requests -> {"none", "hook_block", "guard_block", "error", "crash",
                               "cached", "stream", "answer", "refusal"}]
    /\ events \in [Requests -> Seq({"text", "done", "error", "warning"})]
    /\ charged \in [Requests -> Nat]
    /\ served \in [Requests -> EntryType \cup {NoEntry}]

\* However the guard and the provider race, a client whose prompt is guarded
\* gets nothing a provider made of that prompt, and no event of a stream, before
\* the guard has let the prompt pass; no plain answer whose text the guard did
\* not let pass; and from the cache, where its own prompt is not read at all,
\* only what the guard let pass, prompt and output, for the request that
\* produced it, or what somebody produced who skips the guards.  The text of a
\* stream goes out before the guard reads it: that is left to StreamShape.
NothingUnchecked ==
    \A r \in Requests : Guarded(kind[r]) =>
        /\ reply[r] \in {"answer", "refusal", "stream", "error"} \/ events[r] # << >>
              => LetPass(pre[r])
        /\ reply[r] = "answer" /\ task[r] = "text" => LetPass(post[r])
        /\ reply[r] = "cached" => served[r].origin \in {"passed", "skipped"}

\* A request that is over has no provider task running for it any more: a
\* blocked prompt does not leave a call behind that nobody awaits.  Only a guard
\* that raises does, and then nothing of the call reaches anybody: the client
\* has a 500, nothing is recorded, and no verdict is asked on its output.
NoOrphan ==
    \A r \in Requests : pc[r] \in {"done", "gone"} /\ task[r] = "running" =>
        pre[r] = "raised" /\ reply[r] = "crash" /\ charged[r] = 0 /\ post[r] = "none"

\* The usage of the answer that was kept, whichever of its tiers that came from,
\* is recorded once if it counts anything, also when the guard then replaced the
\* answer or raised; what never came to a provider's final answer (cache hits,
\* blocks, errors), what has no count (streams) or one that cannot be read is
\* not recorded.
ChargedOnce ==
    \A r \in Requests :
        LET kept == reply[r] \in {"answer", "refusal"} \/ pc[r] = "postguard" \/ post[r] = "raised"
        IN  charged[r] = IF kept /\ usage[r] = "counted" THEN 1 ELSE 0

\* What is served from the cache was produced less than the TTL ago, however
\* often it has been served since, for a text within the threshold.
ServedFresh ==
    \A r \in Requests : reply[r] = "cached" =>
        /\ TTL > 0 => served[r].old < TTL
        /\ Similarity[kind[r].text][served[r].text] >= Threshold

\* A stream read to its end carries the final marker; a broken one an error
\* before it and no verdict of the guard; a whole one with text that is guarded
\* has had a verdict, unless the guard raised, and a warning exactly when that
\* verdict blocks.
StreamShape ==
    \A r \in Requests : reply[r] = "stream" /\ pc[r] = "done" =>
        /\ Seen(r, "done")
        /\ Seen(r, "warning") <=> post[r] # "none" /\ Blocks(post[r])
        /\ Seen(r, "error") => Last(events[r]) = "done" /\ ~Seen(r, "warning")
        /\ Guarded(kind[r]) /\ Seen(r, "text") /\ ~Seen(r, "error")
              => post[r] \in Verdicts \cup {"raised"}

\* Every request that arrives is answered or abandoned by its client, whatever
\* the guards, the provider and the cache do.
EveryRequestSettles ==
    \A r \in Requests : pc[r] # "idle" ~> pc[r] \in {"done", "gone"}

-----------------------------------------------------------------------------
(* What the documentation says, which the code does not do *)

\* "Both modes skip only the pre-guard.  The post-guard runs normally": the
\* text of an answer to a user's text has been read by the guard.
OutputAlwaysFiltered ==
    \A r \in Requests :
        reply[r] = "answer" /\ task[r] = "text" /\ kind[r].text # NoText
            => post[r] \in Verdicts
=============================================================================
