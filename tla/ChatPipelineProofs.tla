------------------------- MODULE ChatPipelineProofs -------------------------
(***************************************************************************)
(* Proofs about ChatPipeline, for any requests, texts, cascades, caches    *)
(* and settings of the guards.                                             *)
(***************************************************************************)
EXTENDS ChatPipeline, SequenceTheorems, WellFoundedInduction, TLAPS

-----------------------------------------------------------------------------
(* The invariant of one request *)

\* What a client may read of a stream.
Logs == Seq({"text", "done", "error", "warning"})

\* What the requests' variables may hold; the cache plays no part here.
RequestType ==
    /\ pc \in [Requests -> {"idle", "embedding", "guard", "cancelling", "provider",
                            "escalating", "postguard", "streaming", "streamguard",
                            "done", "gone"}]
    /\ kind \in [Requests -> KindType]
    /\ pre \in [Requests -> VerdictType \cup {"running"}]
    /\ task \in [Requests -> Outcomes \cup {"none", "running", "cancelled"}]
    /\ post \in [Requests -> VerdictType]
    /\ usage \in [Requests -> Usages \cup {"none"}]
    /\ reply \in [Requests -> {"none", "hook_block", "guard_block", "error", "crash",
                               "cached", "stream", "answer", "refusal"}]
    /\ events \in [Requests -> Logs]
    /\ charged \in [Requests -> Nat]

\* The guard has let the prompt of r pass, or is not asked.
Passed(r) == Guarded(kind[r]) => LetPass(pre[r])

\* Before its answer r has given nothing away.
Silent(r) == reply[r] = "none" /\ events[r] = << >>

\* An answer with text was let pass.
Read(r) ==
    reply[r] = "answer" /\ task[r] = "text" /\ Guarded(kind[r]) => LetPass(post[r])

\* An answer, or what would have become one, whose usage is on record.
Recorded(r) ==
    /\ reply[r] \in {"answer", "refusal"} \/ pc[r] = "postguard" \/ post[r] = "raised"
    /\ usage[r] = "counted"

\* The handler is gone and its provider task is not.
Orphaned(r) == pre[r] = "raised" /\ reply[r] = "crash" /\ charged[r] = 0 /\ post[r] = "none"

\* Where r is says how far the guard, the provider and the answer are.
Progress(r) ==
    /\ pc[r] \in {"idle", "embedding", "guard", "cancelling", "provider", "escalating", "postguard"}
          => Silent(r)
    /\ pc[r] \in {"provider", "escalating", "postguard", "streaming", "streamguard", "gone"}
          => Passed(r)
    /\ pc[r] \notin {"done", "gone"} => post[r] = "none"
    /\ reply[r] = "stream" \/ pc[r] \notin {"postguard", "done"} => usage[r] = "none"
    /\ pc[r] = "postguard" => usage[r] \in {"counted", "absent"}
    /\ pc[r] \in {"streaming", "streamguard", "gone"} => reply[r] = "stream"
    /\ pc[r] = "done" =>
          /\ reply[r] \in {"answer", "refusal", "stream", "error"} \/ events[r] # << >> => Passed(r)
          /\ Read(r)
    /\ task[r] = "running" =>
          pc[r] \in {"guard", "cancelling", "provider"} \/ (pc[r] = "done" /\ Orphaned(r))
    /\ pc[r] = "guard" => task[r] \in Outcomes \cup {"running"}
    /\ charged[r] = IF Recorded(r) THEN 1 ELSE 0

Inv == RequestType /\ \A r \in Requests : Progress(r)

\* A step touches one request's variables.
Local(r) ==
    \A q \in Requests \ {r} :
        /\ pc'[q] = pc[q] /\ kind'[q] = kind[q] /\ pre'[q] = pre[q] /\ task'[q] = task[q]
        /\ usage'[q] = usage[q] /\ post'[q] = post[q] /\ reply'[q] = reply[q]
        /\ events'[q] = events[q] /\ charged'[q] = charged[q]

\* Progress of one request does not depend on the others.
LEMMA Frame ==
    ASSUME Inv, NEW r \in Requests, Local(r), RequestType', Progress(r)'
    PROVE  Inv'
<1>1. ASSUME NEW q \in Requests \ {r} PROVE Progress(q)'
  BY <1>1 DEF Inv, Local, Progress, Silent, Passed, Read, Recorded, Orphaned
<1> QED
  BY <1>1 DEF Inv

\* Before its answer r has used nothing.
LEMMA Early ==
    ASSUME Inv, NEW r \in Requests,
           pc[r] \in {"idle", "embedding", "guard", "cancelling", "provider", "escalating"}
    PROVE  Silent(r) /\ post[r] = "none" /\ usage[r] = "none" /\ charged[r] = 0
  BY DEF Inv, Progress, Silent, Recorded

-----------------------------------------------------------------------------
(* The parts of steps *)

\* What a stream adds to what its client has read.
LEMMA LogsGrow ==
    ASSUME NEW log \in Logs
    PROVE  /\ <<"text">> \in Logs
           /\ Append(log, "done") \in Logs
           /\ log \o <<"error", "done">> \in Logs
           /\ log \o Closing(log) \in Logs
           /\ log \o <<"warning">> \o Closing(log) \in Logs
           /\ log \o << >> \o Closing(log) \in Logs
<1> DEFINE E == {"text", "done", "error", "warning"}
<1>1. /\ <<"text">> \in Seq(E) /\ <<"done">> \in Seq(E) /\ <<"warning">> \in Seq(E)
      /\ <<"error", "done">> \in Seq(E) /\ << >> \in Seq(E) /\ log \in Seq(E)
  BY DEF Logs
<1>2. "done" \in E
  OBVIOUS
<1>3. Closing(log) \in {<< >>, <<"done">>}
  BY DEF Closing
<1> HIDE DEF E
<1>4. /\ Append(log, "done") \in Seq(E)
      /\ \A s, t \in Seq(E) : s \o t \in Seq(E)
  BY <1>1, <1>2
<1>5. Logs = Seq(E)
  BY DEF Logs, E
<1> QED
  BY <1>1, <1>3, <1>4, <1>5

\* What may arrive is a request.
LEMMA KindsTyped == \A r \in Requests : Kinds[r] \subseteq KindType /\ SomeKind(r) \in KindType
<1>1. ASSUME NEW r \in Requests PROVE SomeKind(r) \in Kinds[r] /\ Kinds[r] \subseteq KindType
  BY ChatAssumption DEF SomeKind
<1> QED
  BY <1>1

\* A request that has its guard and its provider started, or is blocked.
LEMMA BeginOK ==
    ASSUME Inv, NEW r \in Requests, NEW k \in KindType, Begin(r, k),
           pc[r] \in {"idle", "embedding"}, kind' = [kind EXCEPT ![r] = k],
           UNCHANGED <<usage, post, events, charged>>
    PROVE  Inv'
<1> USE DEF Inv, RequestType
<1>1. /\ Silent(r) /\ post[r] = "none" /\ usage[r] = "none" /\ charged[r] = 0
      /\ task[r] # "running"
  BY Early DEF Progress
<1>2. CASE Reply(r, "hook_block") /\ UNCHANGED <<pre, task>>
  <2>1. RequestType'
    BY <1>2 DEF Reply
  <2>2. Local(r)
    BY <1>2 DEF Local, Reply
  <2>3. Progress(r)'
    BY <1>1, <1>2 DEF Progress, Silent, Read, Recorded, Reply
  <2> QED
    BY <2>1, <2>2, <2>3, Frame
<1>3. CASE /\ pc' = [pc EXCEPT ![r] = IF Guarded(k) THEN "guard" ELSE "provider"]
           /\ pre' = [pre EXCEPT ![r] = IF Guarded(k) THEN "running" ELSE "none"]
           /\ task' = [task EXCEPT ![r] = "running"]
           /\ UNCHANGED reply
  <2>1. RequestType'
    BY <1>3 DEF VerdictType
  <2>2. Local(r)
    BY <1>3 DEF Local
  <2>3. kind'[r] = k /\ pc'[r] = (IF Guarded(k) THEN "guard" ELSE "provider")
    BY <1>3
  <2>4. Progress(r)'
    BY <1>1, <1>3, <2>3 DEF Progress, Silent, Passed, Recorded
  <2> QED
    BY <2>1, <2>2, <2>4, Frame
<1> QED
  BY <1>2, <1>3 DEF Begin

\* A step sets the verdict on at most one prompt.
PreOnly(r) ==
    /\ pre' \in [Requests -> VerdictType \cup {"running"}]
    /\ \A q \in Requests \ {r} : pre'[q] = pre[q]

\* An answer that goes out after the prompt has passed and been recorded.
LEMMA DeliverOK ==
    ASSUME Inv, NEW r \in Requests, NEW v \in VerdictType, Deliver(r, v),
           UNCHANGED <<kind, events>>, PreOnly(r), Silent(r), Passed(r)',
           NEW t \in Outcomes \cup {"none", "cancelled"}, task' = [task EXCEPT ![r] = t],
           NEW u \in {"counted", "absent"}, usage' = [usage EXCEPT ![r] = u],
           charged' = [charged EXCEPT ![r] = IF u = "counted" THEN 1 ELSE 0],
           v # "raised", t = "text" /\ Guarded(kind[r]) => v \in Verdicts
    PROVE  Inv'
<1> USE DEF Inv, RequestType
<1>1. /\ pc' = [pc EXCEPT ![r] = "done"]
      /\ reply' = [reply EXCEPT ![r] = IF Blocks(v) THEN "refusal" ELSE "answer"]
      /\ post' = [post EXCEPT ![r] = v]
  BY DEF Deliver, Reply
<1>2. RequestType'
  BY <1>1 DEF PreOnly, Usages
<1>3. Local(r)
  BY <1>1 DEF Local, PreOnly
<1>4. Progress(r)'
  <2>1. /\ pc'[r] = "done" /\ task'[r] = t /\ post'[r] = v /\ usage'[r] = u
        /\ charged'[r] = (IF u = "counted" THEN 1 ELSE 0) /\ kind'[r] = kind[r]
        /\ reply'[r] = IF Blocks(v) THEN "refusal" ELSE "answer"
    BY <1>1
  <2>2. Read(r)'
    <3>1. CASE Blocks(v)
      BY <2>1, <3>1 DEF Read
    <3>2. CASE ~Blocks(v)
      BY <2>1, <3>2 DEF Read, LetPass, Guarded, Blocks
    <3> QED
      BY <3>1, <3>2
  <2> QED
    BY <2>1, <2>2 DEF Progress, Recorded, Outcomes
<1> QED
  BY <1>2, <1>3, <1>4, Frame

\* An answer whose usage is read, and that then goes out or is read by the guard.
LEMMA FinishOK ==
    ASSUME Inv, NEW r \in Requests, NEW answer \in Outcomes \cup {"none", "cancelled"},
           Finish(r, answer), UNCHANGED <<kind, events>>, PreOnly(r),
           Silent(r), Passed(r)', charged[r] = 0, post[r] = "none"
    PROVE  Inv'
<1> USE DEF Inv, RequestType
<1>1. task' = [task EXCEPT ![r] = answer]
  BY DEF Finish
<1>2. PICK u \in Usages :
         /\ usage' = [usage EXCEPT ![r] = u]
         /\ charged' = [charged EXCEPT ![r] = IF u = "counted" THEN @ + 1 ELSE @]
         /\ IF u = "unreadable"
            THEN Reply(r, "crash") /\ UNCHANGED <<cache, post>>
            ELSE IF Guarded(kind[r]) /\ answer = "text"
            THEN pc' = [pc EXCEPT ![r] = "postguard"] /\ UNCHANGED <<cache, reply, post>>
            ELSE Deliver(r, "none")
  BY DEF Finish
<1>3. charged' = [charged EXCEPT ![r] = IF u = "counted" THEN 1 ELSE 0]
  BY <1>2
<1>4. CASE u = "unreadable"
  <2>1. /\ pc' = [pc EXCEPT ![r] = "done"] /\ reply' = [reply EXCEPT ![r] = "crash"]
        /\ UNCHANGED post
    BY <1>2, <1>4 DEF Reply
  <2>2. RequestType'
    BY <1>1, <1>2, <1>3, <2>1 DEF PreOnly
  <2>3. Local(r)
    BY <1>1, <1>2, <1>3, <2>1 DEF Local, PreOnly
  <2>4. Progress(r)'
    BY <1>1, <1>2, <1>3, <1>4, <2>1 DEF Progress, Silent, Read, Recorded, Outcomes
  <2> QED
    BY <2>2, <2>3, <2>4, Frame
<1>5. CASE u # "unreadable" /\ Guarded(kind[r]) /\ answer = "text"
  <2>1. pc' = [pc EXCEPT ![r] = "postguard"] /\ UNCHANGED <<reply, post>>
    BY <1>2, <1>5
  <2>2. RequestType'
    BY <1>1, <1>2, <1>3, <2>1 DEF PreOnly
  <2>3. Local(r)
    BY <1>1, <1>2, <1>3, <2>1 DEF Local, PreOnly
  <2>4. Progress(r)'
    BY <1>1, <1>2, <1>3, <1>5, <2>1 DEF Progress, Silent, Recorded, Usages
  <2> QED
    BY <2>2, <2>3, <2>4, Frame
<1>6. CASE u # "unreadable" /\ ~(Guarded(kind[r]) /\ answer = "text")
  <2>1. Deliver(r, "none") /\ "none" \in VerdictType /\ u \in {"counted", "absent"}
    BY <1>2, <1>6 DEF VerdictType, Usages
  <2> QED
    BY <1>1, <1>2, <1>3, <1>6, <2>1, DeliverOK
<1> QED
  BY <1>4, <1>5, <1>6

\* The provider's answer to a prompt that has passed.
LEMMA SettleOK ==
    ASSUME Inv, NEW r \in Requests, NEW outcome \in Outcomes,
           Settle(r, outcome), UNCHANGED <<kind, events>>, PreOnly(r),
           Silent(r), Passed(r)', charged[r] = 0, post[r] = "none", usage[r] = "none"
    PROVE  Inv'
<1> USE DEF Inv, RequestType
<1>1. CASE outcome = "failed"
  <2>1. /\ task' = [task EXCEPT ![r] = outcome] /\ pc' = [pc EXCEPT ![r] = "done"]
        /\ reply' = [reply EXCEPT ![r] = "error"] /\ UNCHANGED <<usage, post, charged>>
    BY <1>1 DEF Settle, Reply
  <2>2. RequestType'
    BY <1>1, <2>1 DEF PreOnly, Outcomes
  <2>3. Local(r)
    BY <2>1 DEF Local, PreOnly
  <2>4. Progress(r)'
    BY <1>1, <2>1 DEF Progress, Read, Recorded
  <2> QED
    BY <2>2, <2>3, <2>4, Frame
<1>2. CASE outcome # "failed" /\ kind[r].stream
  <2>1. /\ task' = [task EXCEPT ![r] = outcome] /\ pc' = [pc EXCEPT ![r] = "streaming"]
        /\ reply' = [reply EXCEPT ![r] = "stream"] /\ UNCHANGED <<usage, post, charged>>
    BY <1>2 DEF Settle
  <2>2. RequestType'
    BY <2>1 DEF PreOnly, Outcomes
  <2>3. Local(r)
    BY <2>1 DEF Local, PreOnly
  <2>4. Progress(r)'
    BY <1>2, <2>1 DEF Progress, Recorded, Outcomes
  <2> QED
    BY <2>2, <2>3, <2>4, Frame
<1>3. CASE outcome # "failed" /\ ~kind[r].stream /\ outcome = "blank" /\ kind[r].cascade /\ MoreTiers > 0
  <2>1. /\ task' = [task EXCEPT ![r] = outcome] /\ pc' = [pc EXCEPT ![r] = "escalating"]
        /\ UNCHANGED <<usage, post, reply, charged>>
    BY <1>3 DEF Settle
  <2>2. RequestType'
    BY <2>1 DEF PreOnly, Outcomes
  <2>3. Local(r)
    BY <2>1 DEF Local, PreOnly
  <2>4. Progress(r)'
    BY <1>3, <2>1 DEF Progress, Silent, Recorded
  <2> QED
    BY <2>2, <2>3, <2>4, Frame
<1>4. CASE /\ outcome # "failed" /\ ~kind[r].stream
           /\ ~(outcome = "blank" /\ kind[r].cascade /\ MoreTiers > 0)
  <2>1. Finish(r, outcome)
    BY <1>4 DEF Settle
  <2> QED
    BY <2>1, FinishOK
<1> QED
  BY <1>1, <1>2, <1>3, <1>4

-----------------------------------------------------------------------------
(* Every step keeps the invariant *)

LEMMA InitInv == Init => Inv
<1> SUFFICES ASSUME Init PROVE Inv
  OBVIOUS
<1> USE DEF Init
<1>1. RequestType
  BY KindsTyped DEF RequestType, VerdictType, Logs
<1>2. ASSUME NEW r \in Requests PROVE Progress(r)
  BY DEF Progress, Silent, Recorded
<1> QED
  BY <1>1, <1>2 DEF Inv

LEMMA ArriveKeeps == ASSUME Inv, NEW r \in Requests, NEW k \in Kinds[r], Arrive(r, k) PROVE Inv'
<1> USE DEF Inv, RequestType
<1>1. k \in KindType /\ pc[r] = "idle" /\ kind' = [kind EXCEPT ![r] = k]
      /\ UNCHANGED <<usage, post, events, charged>>
  BY KindsTyped DEF Arrive
<1>2. CASE Begin(r, k)
  BY <1>1, <1>2, BeginOK
<1>3. CASE pc' = [pc EXCEPT ![r] = "embedding"] /\ UNCHANGED <<pre, task, reply>>
  <2>1. RequestType'
    BY <1>1, <1>3
  <2>2. Local(r)
    BY <1>1, <1>3 DEF Local
  <2>3. Progress(r)'
    BY <1>1, <1>3 DEF Progress, Silent, Recorded
  <2> QED
    BY <2>1, <2>2, <2>3, Frame
<1> QED
  BY <1>2, <1>3 DEF Arrive

\* The end of the lookup: a hit is an answer of its own, without a verdict.
LEMMA LookupKeeps ==
    ASSUME Inv, NEW r \in Requests, Hit(r) \/ Miss(r) \/ EmbeddingFails(r) PROVE Inv'
<1> USE DEF Inv, RequestType
<1>1. CASE Hit(r)
  <2>1. /\ pc[r] = "embedding" /\ pc' = [pc EXCEPT ![r] = "done"]
        /\ reply' = [reply EXCEPT ![r] = "cached"]
        /\ UNCHANGED <<kind, pre, task, usage, post, events, charged>>
    BY <1>1 DEF Hit, Reply
  <2>2. RequestType'
    BY <2>1
  <2>3. Local(r)
    BY <2>1 DEF Local
  <2>4. Progress(r)'
    BY <2>1 DEF Progress, Silent, Read, Recorded
  <2> QED
    BY <2>2, <2>3, <2>4, Frame
<1>2. CASE Miss(r) \/ EmbeddingFails(r)
  <2>1. /\ pc[r] = "embedding" /\ Begin(r, kind[r])
        /\ UNCHANGED <<kind, usage, post, events, charged>>
    BY <1>2 DEF Miss, EmbeddingFails
  <2>2. kind' = [kind EXCEPT ![r] = kind[r]] /\ kind[r] \in KindType
    BY <2>1
  <2> QED
    BY <2>1, <2>2, BeginOK
<1> QED
  BY <1>1, <1>2

LEMMA PreVerdictKeeps ==
    ASSUME Inv, NEW r \in Requests, NEW v \in Verdicts, PreVerdict(r, v) PROVE Inv'
<1> USE DEF Inv, RequestType
<1>1. /\ pc[r] = "guard" /\ pre' = [pre EXCEPT ![r] = v] /\ UNCHANGED <<kind, events>>
  BY DEF PreVerdict
<1>2. PreOnly(r) /\ Silent(r) /\ charged[r] = 0 /\ post[r] = "none" /\ usage[r] = "none"
  BY <1>1, Early DEF PreOnly, VerdictType
<1>3. CASE Blocks(v)
  <2>1. pc' = [pc EXCEPT ![r] = "cancelling"] /\ UNCHANGED <<task, usage, post, reply, charged>>
    BY <1>3 DEF PreVerdict
  <2>2. RequestType' /\ Local(r)
    BY <1>1, <1>2, <2>1 DEF Local, PreOnly
  <2>3. Progress(r)'
    BY <1>1, <1>2, <2>1 DEF Progress, Silent, Recorded
  <2> QED
    BY <2>2, <2>3, Frame
<1>4. CASE ~Blocks(v)
  <2>1. pre'[r] = v /\ Passed(r)'
    BY <1>1, <1>4 DEF Passed, LetPass, Blocks
  <2>2. CASE task[r] = "running"
    <3>1. pc' = [pc EXCEPT ![r] = "provider"] /\ UNCHANGED <<task, usage, post, reply, charged>>
      BY <1>4, <2>2 DEF PreVerdict
    <3>2. RequestType' /\ Local(r)
      BY <1>1, <1>2, <3>1 DEF Local, PreOnly
    <3>3. Progress(r)'
      BY <1>1, <1>2, <2>1, <3>1 DEF Progress, Silent, Recorded
    <3> QED
      BY <3>2, <3>3, Frame
  <2>3. CASE task[r] # "running"
    <3>1. Settle(r, task[r])
      BY <1>4, <2>3 DEF PreVerdict
    <3>2. task[r] \in Outcomes
      BY <1>1, <2>3 DEF Progress
    <3> QED
      BY <1>1, <1>2, <2>1, <3>1, <3>2, SettleOK
  <2> QED
    BY <2>2, <2>3
<1> QED
  BY <1>3, <1>4

\* The exceptions that end a handler: before anything is recorded, or after the
\* usage of the answer has been.
LEMMA CrashKeeps ==
    ASSUME Inv, NEW r \in Requests, PreRaises(r) \/ TierEscapes(r) \/ PostRaises(r) PROVE Inv'
<1> USE DEF Inv, RequestType
<1>1. /\ pc' = [pc EXCEPT ![r] = "done"] /\ reply' = [reply EXCEPT ![r] = "crash"]
      /\ UNCHANGED <<kind, task, usage, events, charged>>
  BY DEF PreRaises, TierEscapes, PostRaises, Reply
<1>2. CASE PreRaises(r)
  <2>1. pc[r] = "guard" /\ pre' = [pre EXCEPT ![r] = "raised"] /\ UNCHANGED post
    BY <1>2 DEF PreRaises
  <2>2. RequestType' /\ Local(r)
    BY <1>1, <2>1 DEF VerdictType, Local
  <2>3. Silent(r) /\ post[r] = "none" /\ usage[r] = "none" /\ charged[r] = 0
    BY <2>1, Early
  <2>4. Progress(r)'
    BY <1>1, <2>1, <2>3 DEF Progress, Silent, Read, Recorded, Orphaned
  <2> QED
    BY <2>2, <2>4, Frame
<1>3. CASE TierEscapes(r)
  <2>1. pc[r] = "escalating" /\ UNCHANGED <<pre, post>>
    BY <1>3 DEF TierEscapes
  <2>2. RequestType' /\ Local(r)
    BY <1>1, <2>1 DEF Local
  <2>3. Silent(r) /\ post[r] = "none" /\ usage[r] = "none" /\ charged[r] = 0
    BY <2>1, Early
  <2>4. Progress(r)'
    BY <1>1, <2>1, <2>3 DEF Progress, Silent, Read, Recorded
  <2> QED
    BY <2>2, <2>4, Frame
<1>4. CASE PostRaises(r)
  <2>1. pc[r] = "postguard" /\ post' = [post EXCEPT ![r] = "raised"] /\ UNCHANGED pre
    BY <1>4 DEF PostRaises
  <2>2. RequestType' /\ Local(r)
    BY <1>1, <2>1 DEF VerdictType, Local
  <2>3. Progress(r)'
    BY <1>1, <2>1 DEF Progress, Silent, Read, Recorded
  <2> QED
    BY <2>2, <2>3, Frame
<1> QED
  BY <1>2, <1>3, <1>4

LEMMA CancelledKeeps == ASSUME Inv, NEW r \in Requests, Cancelled(r) PROVE Inv'
<1> USE DEF Inv, RequestType
<1>1. /\ pc[r] = "cancelling" /\ pc' = [pc EXCEPT ![r] = "done"]
      /\ reply' = [reply EXCEPT ![r] = "guard_block"]
      /\ task' = [task EXCEPT ![r] = IF @ = "running" THEN "cancelled" ELSE @]
      /\ UNCHANGED <<kind, pre, usage, post, events, charged>>
  BY DEF Cancelled, Reply
<1>2. RequestType'
  BY <1>1
<1>3. Local(r)
  BY <1>1 DEF Local
<1>4. Progress(r)'
  BY <1>1 DEF Progress, Silent, Read, Recorded
<1> QED
  BY <1>2, <1>3, <1>4, Frame

LEMMA ProviderKeeps ==
    ASSUME Inv, NEW r \in Requests, NEW outcome \in Outcomes, ProviderEnds(r, outcome) PROVE Inv'
<1> USE DEF Inv, RequestType
<1>1. /\ pc[r] \in {"guard", "provider", "done"} /\ task[r] = "running"
      /\ UNCHANGED <<kind, pre, events>>
  BY DEF ProviderEnds
<1>2. PreOnly(r)
  BY <1>1 DEF PreOnly
<1>3. CASE pc[r] \in {"guard", "done"}
  <2>1. task' = [task EXCEPT ![r] = outcome] /\ UNCHANGED <<pc, usage, post, reply, charged>>
    BY <1>3 DEF ProviderEnds
  <2>2. RequestType' /\ Local(r)
    BY <1>1, <2>1 DEF Local
  <2>3. task'[r] \in Outcomes /\ task'[r] # "running"
    BY <2>1 DEF Outcomes
  <2>4. pc[r] = "done" => reply[r] = "crash"
    BY <1>1 DEF Progress, Orphaned
  <2>5. Progress(r)'
    BY <1>1, <1>3, <2>1, <2>3, <2>4 DEF Progress, Silent, Passed, Read, Recorded
  <2> QED
    BY <2>2, <2>5, Frame
<1>4. CASE pc[r] = "provider"
  <2>1. Settle(r, outcome)
    BY <1>4 DEF ProviderEnds
  <2>2. Passed(r)'
    BY <1>1, <1>4 DEF Progress, Passed
  <2>3. Silent(r) /\ post[r] = "none" /\ usage[r] = "none" /\ charged[r] = 0
    BY <1>4, Early
  <2> QED
    BY <1>1, <1>2, <2>1, <2>2, <2>3, SettleOK
<1> QED
  BY <1>1, <1>3, <1>4

LEMMA TierKeeps ==
    ASSUME Inv, NEW r \in Requests, NEW outcome \in Outcomes, TierEnds(r, outcome) PROVE Inv'
<1> USE DEF Inv, RequestType
<1>1. pc[r] = "escalating" /\ UNCHANGED <<kind, pre, events>>
  BY DEF TierEnds
<1>2. /\ Silent(r) /\ Passed(r) /\ charged[r] = 0 /\ task[r] # "running"
      /\ post[r] = "none"
  BY <1>1, Early DEF Progress
<1>3. PreOnly(r) /\ Passed(r)'
  BY <1>1, <1>2 DEF PreOnly, Passed
<1>4. CASE outcome # "text" /\ tier[r] < MoreTiers
  <2>1. UNCHANGED <<pc, kind, pre, task, usage, post, reply, events, charged>>
    BY <1>1, <1>4 DEF TierEnds
  <2> QED
    BY <2>1 DEF Progress, Silent, Passed, Read, Recorded, Orphaned
<1>5. CASE ~(outcome # "text" /\ tier[r] < MoreTiers)
  <2> DEFINE answer == IF outcome = "failed" THEN task[r] ELSE outcome
  <2>1. Finish(r, answer)
    BY <1>5 DEF TierEnds
  <2>2. answer \in Outcomes \cup {"none", "cancelled"}
    BY <1>2
  <2> HIDE DEF answer
  <2> QED
    BY <1>1, <1>2, <1>3, <2>1, <2>2, FinishOK
<1> QED
  BY <1>4, <1>5

LEMMA PostVerdictKeeps ==
    ASSUME Inv, NEW r \in Requests, NEW v \in Verdicts, PostVerdict(r, v) PROVE Inv'
<1> USE DEF Inv, RequestType
<1>1. /\ pc[r] = "postguard" /\ Deliver(r, v)
      /\ UNCHANGED <<kind, pre, task, usage, events, charged>>
  BY DEF PostVerdict
<1>2. /\ Silent(r) /\ Passed(r) /\ task[r] # "running" /\ usage[r] \in {"counted", "absent"}
      /\ charged[r] = IF usage[r] = "counted" THEN 1 ELSE 0
  BY <1>1 DEF Progress, Silent, Recorded
<1>3. PreOnly(r) /\ Passed(r)'
  BY <1>1, <1>2 DEF PreOnly, Passed
<1>4. PICK u \in {"counted", "absent"}, t \in Outcomes \cup {"none", "cancelled"} :
         u = usage[r] /\ t = task[r]
  BY <1>2
<1>5. /\ task' = [task EXCEPT ![r] = t] /\ usage' = [usage EXCEPT ![r] = u]
      /\ charged' = [charged EXCEPT ![r] = IF u = "counted" THEN 1 ELSE 0]
      /\ v \in VerdictType /\ v # "raised"
  BY <1>1, <1>2, <1>4 DEF VerdictType, Verdicts
<1> HIDE DEF Inv, RequestType
<1> QED
  BY <1>1, <1>2, <1>3, <1>5, DeliverOK

\* The steps of a stream: nothing but events, the end and its verdict.
LEMMA StreamKeeps ==
    ASSUME Inv, NEW r \in Requests,
           \/ Chunk(r) \/ UpstreamDone(r) \/ UpstreamEnds(r) \/ UpstreamBreaks(r)
           \/ Disconnect(r) \/ StreamRaises(r) \/ \E v \in Verdicts : StreamVerdict(r, v)
    PROVE  Inv'
<1> USE DEF Inv, RequestType
<1>1. /\ pc[r] \in {"streaming", "streamguard"}
      /\ UNCHANGED <<kind, pre, task, usage, reply, charged>>
  BY DEF Chunk, UpstreamDone, UpstreamEnds, UpstreamBreaks, Disconnect, StreamRaises, StreamVerdict
<1>2. /\ pc' = pc \/ pc' = [pc EXCEPT ![r] = "streamguard"] \/ pc' = [pc EXCEPT ![r] = "done"]
         \/ pc' = [pc EXCEPT ![r] = "gone"]
      /\ post' = post \/ \E v \in Verdicts \cup {"raised"} : post' = [post EXCEPT ![r] = v]
  BY DEF Chunk, UpstreamDone, UpstreamEnds, UpstreamBreaks, Disconnect, StreamRaises, StreamVerdict
<1>3. \E log \in Logs : events' = [events EXCEPT ![r] = log]
  <2>1. events[r] \in Logs /\ events = [events EXCEPT ![r] = events[r]]
    OBVIOUS
  <2>2. CASE Chunk(r) \/ UpstreamDone(r) \/ Disconnect(r)
    BY <2>1, <2>2, LogsGrow DEF Chunk, UpstreamDone, Disconnect
  <2>3. CASE UpstreamEnds(r)
    BY <2>1, <2>3, LogsGrow DEF UpstreamEnds
  <2>4. CASE UpstreamBreaks(r)
    BY <2>1, <2>4, LogsGrow DEF UpstreamBreaks
  <2>5. CASE StreamRaises(r)
    BY <2>1, <2>5, LogsGrow DEF StreamRaises
  <2>6. ASSUME NEW v \in Verdicts, StreamVerdict(r, v)
        PROVE  \E log \in Logs : events' = [events EXCEPT ![r] = log]
    <3>1. /\ events[r] \o <<"warning">> \o Closing(events[r]) \in Logs
          /\ events[r] \o << >> \o Closing(events[r]) \in Logs
      BY <2>1, LogsGrow
    <3>2. CASE Blocks(v)
      BY <2>6, <3>1, <3>2 DEF StreamVerdict
    <3>3. CASE ~Blocks(v)
      BY <2>6, <3>1, <3>3 DEF StreamVerdict
    <3> QED
      BY <3>2, <3>3
  <2> QED
    BY <2>2, <2>3, <2>4, <2>5, <2>6
<1>4. RequestType'
  BY <1>1, <1>2, <1>3 DEF VerdictType
<1>5. Local(r)
  BY <1>1, <1>2, <1>3 DEF Local
<1>6. Progress(r)'
  <2>1. /\ reply[r] = "stream" /\ usage[r] = "none" /\ charged[r] = 0 /\ task[r] # "running"
        /\ post[r] = "none" /\ Passed(r)
    BY <1>1 DEF Progress, Recorded
  <2>2. Passed(r)' /\ pc[r] \in {"streaming", "streamguard"}
    BY <1>1, <2>1 DEF Passed
  <2>3. pc' = pc \/ pc'[r] = "streamguard" => post' = post
    BY DEF Chunk, UpstreamDone, UpstreamEnds, UpstreamBreaks, Disconnect, StreamRaises, StreamVerdict
  <2> QED
    BY <1>1, <1>2, <2>1, <2>2, <2>3 DEF Progress, Read, Recorded
<1> QED
  BY <1>4, <1>5, <1>6, Frame

LEMMA LeaveKeeps == ASSUME Inv, NEW r \in Requests, Leave(r) PROVE Inv'
<1> USE DEF Inv, RequestType, Leave
<1>1. RequestType'
  BY KindsTyped DEF VerdictType, Logs
<1>2. Local(r)
  BY DEF Local
<1>3. Progress(r)'
  BY DEF Progress, Silent, Recorded
<1> QED
  BY <1>1, <1>2, <1>3, Frame

LEMMA NextInv == Inv /\ [Next]_vars => Inv'
<1>1. ASSUME Inv, Tick \/ UNCHANGED vars PROVE Inv'
  <2>1. UNCHANGED <<pc, kind, pre, task, usage, post, reply, events, charged>>
    BY <1>1 DEF Tick, vars, requestVars
  <2>2. RequestType'
    BY <1>1, <2>1 DEF Inv, RequestType
  <2>3. ASSUME NEW r \in Requests PROVE Progress(r)'
    BY <1>1, <2>1 DEF Inv, Progress, Silent, Passed, Read, Recorded, Orphaned
  <2> QED
    BY <2>2, <2>3 DEF Inv
<1>2. ASSUME Inv, NEW r \in Requests, Step(r) PROVE Inv'
  BY <1>2, LookupKeeps, PreVerdictKeeps, PostVerdictKeeps, StreamKeeps, CancelledKeeps,
     CrashKeeps, ProviderKeeps, TierKeeps DEF Step
<1> QED
  BY <1>1, <1>2, ArriveKeeps, StreamKeeps, LeaveKeeps DEF Next

-----------------------------------------------------------------------------
(* What follows *)

\* The handler's variables say how far guard, provider and answer are, for
\* any requests and any cache.
THEOREM PipelineInductive == Spec => []Inv
<1> QED
  BY InitInv, NextInv, PTL DEF Spec

\* main.py:1519: a blocked prompt, or any other end, leaves no provider task;
\* the exception of a guard does, and its handler has recorded and kept nothing.
THEOREM NoTaskLeft == Spec => []NoOrphan
<1>1. Inv => NoOrphan
  BY DEF Inv, Progress, Orphaned, NoOrphan
<1> QED
  BY <1>1, PipelineInductive, PTL

\* record_usage is called once for a plain request whose answer is kept and
\* counts something, over any number of tiers and whatever the guard then says,
\* and for nothing else.
THEOREM UsageRecordedOnce == Spec => []ChargedOnce
<1>1. Inv => ChargedOnce
  BY DEF Inv, Progress, Recorded, ChargedOnce
<1> QED
  BY <1>1, PipelineInductive, PTL

-----------------------------------------------------------------------------
(* The cache *)

\* A set of numbers has a least one: what holds of each entry if it holds of
\* those before it holds of all.
LEMMA Least ==
    ASSUME NEW T, T \subseteq Nat, T # {}
    PROVE  \E n \in T : \A m \in T : n <= m
<1>1. \A m \in Nat, n \in Nat : m < n => <<m, n>> \in OpToRel(<, Nat)
  BY DEF OpToRel
<1>2. \E R : IsWellFoundedOn(R, Nat) /\ \A m, n \in Nat : m < n => <<m, n>> \in R
  BY <1>1, NatLessThanWellFounded, Zenon
<1>3. PICK R : IsWellFoundedOn(R, Nat) /\ \A m, n \in Nat : m < n => <<m, n>> \in R
  BY <1>2
<1>4. IsWellFoundedOn(R, Nat)
  BY <1>3
<1>5. \E n \in T : \A m \in T : ~(<<m, n>> \in R)
  <2> HIDE <1>3
  <2> QED
    BY <1>4, WFMin, Zenon
<1>6. PICK n \in T : \A m \in T : ~(<<m, n>> \in R)
  BY <1>5
<1>7. ASSUME NEW m \in T PROVE n <= m
  <2>1. m \in Nat /\ n \in Nat
    OBVIOUS
  <2>2. ~(m < n)
    BY <1>3, <1>6, <2>1
  <2> QED
    BY <2>1, <2>2
<1> QED
  BY <1>6, <1>7

\* f[m] is what a lookup has kept of the first m entries of c.
Filters(c, f, n) ==
    f = [m \in 0..n |->
            IF m = 0 THEN << >>
            ELSE IF Expired(c[m]) THEN f[m - 1] ELSE Append(f[m - 1], c[m])]

LEMMA LiveDefined ==
    ASSUME NEW S, NEW c \in Seq(S)
    PROVE  \E f : Filters(c, f, Len(c)) /\ Live(c) = f[Len(c)]
<1> DEFINE T == {n \in 0..Len(c) : ~\E f : Filters(c, f, n)}
<1>1. T = {}
  <2>1. SUFFICES ASSUME T # {} PROVE FALSE
    OBVIOUS
  <2>2. T \subseteq Nat
    OBVIOUS
  <2>3. PICK n \in T : \A m \in T : n <= m
    BY <2>1, <2>2, Least, Zenon
  <2>4. n \in 0..Len(c) /\ ~\E f : Filters(c, f, n)
    OBVIOUS
  <2>5. CASE n = 0
    <3>1. Filters(c, [m \in 0..n |-> << >>], n)
      BY <2>5 DEF Filters
    <3> QED
      BY <2>4, <3>1
  <2>6. CASE n # 0
    <3>1. n - 1 \in 0..Len(c) /\ n - 1 \notin T /\ n \in Nat
      BY <2>3, <2>4, <2>6
    <3>2. PICK f : Filters(c, f, n - 1)
      BY <3>1
    <3> DEFINE g == [m \in 0..n |->
                       IF m < n THEN f[m]
                       ELSE IF Expired(c[n]) THEN f[n - 1] ELSE Append(f[n - 1], c[n])]
    <3>3. ASSUME NEW m \in 0..n
          PROVE  g[m] = IF m = 0 THEN << >>
                        ELSE IF Expired(c[m]) THEN g[m - 1] ELSE Append(g[m - 1], c[m])
      <4>1. CASE m = n
        BY <2>6, <3>1, <4>1
      <4>2. CASE m < n
        <5>1. m \in 0..n - 1 /\ g[m] = f[m]
          BY <3>1, <4>2
        <5>2. m # 0 => g[m - 1] = f[m - 1]
          BY <3>1, <4>2
        <5>3. f[m] = IF m = 0 THEN << >>
                     ELSE IF Expired(c[m]) THEN f[m - 1] ELSE Append(f[m - 1], c[m])
          BY <3>2, <5>1 DEF Filters
        <5> QED
          BY <5>1, <5>2, <5>3
      <4> QED
        BY <3>1, <4>1, <4>2
    <3>4. Filters(c, g, n)
      BY <3>3 DEF Filters
    <3> QED
      BY <2>4, <3>4
  <2> QED
    BY <2>5, <2>6
<1>2. Len(c) \in 0..Len(c)
  OBVIOUS
<1>3. \E f : Filters(c, f, Len(c))
  BY <1>1, <1>2
<1> DEFINE kept == CHOOSE f : Filters(c, f, Len(c))
<1>4. Filters(c, kept, Len(c))
  BY <1>3, Zenon
<1>5. Live(c) = kept[Len(c)]
  BY DEF Live, Filters
<1> QED
  BY <1>4, <1>5

\* A lookup leaves entries that were there and have not expired.
LEMMA LiveKept ==
    ASSUME NEW S, NEW c \in Seq(S)
    PROVE  Live(c) \in Seq({e \in S : ~Expired(e)}) /\ Len(Live(c)) <= Len(c)
<1> DEFINE F == {e \in S : ~Expired(e)}
<1>1. PICK f : Filters(c, f, Len(c)) /\ Live(c) = f[Len(c)]
  BY LiveDefined
<1>2. \A n \in DOMAIN c : ~Expired(c[n]) => c[n] \in F
  OBVIOUS
<1> DEFINE Fine(n) == f[n] \in Seq(F) /\ Len(f[n]) <= n
           T == {n \in 0..Len(c) : ~Fine(n)}
<1> HIDE DEF F
<1>3. T = {}
  <2>1. SUFFICES ASSUME T # {} PROVE FALSE
    OBVIOUS
  <2>2. T \subseteq Nat
    OBVIOUS
  <2>3. PICK n \in T : \A m \in T : n <= m
    BY <2>1, <2>2, Least, Zenon
  <2>4. n \in 0..Len(c) /\ ~Fine(n)
    OBVIOUS
  <2> HIDE DEF Fine
  <2>5. f[n] = IF n = 0 THEN << >>
               ELSE IF Expired(c[n]) THEN f[n - 1] ELSE Append(f[n - 1], c[n])
    BY <1>1, <2>4 DEF Filters
  <2>6. CASE n = 0
    <3>1. Fine(n)
      BY <2>5, <2>6 DEF Fine
    <3> QED
      BY <2>4, <3>1
  <2>7. CASE n # 0
    <3>1. n - 1 \in 0..Len(c) /\ n - 1 \notin T /\ n \in DOMAIN c
      BY <2>3, <2>4, <2>7
    <3>2. PICK s : s = f[n - 1]
      OBVIOUS
    <3>3. s \in Seq(F) /\ Len(s) <= n - 1
      BY <3>1, <3>2 DEF Fine
    <3>4. CASE Expired(c[n])
      <4>1. Fine(n)
        BY <2>5, <2>7, <3>1, <3>2, <3>3, <3>4 DEF Fine
      <4> QED
        BY <2>4, <4>1
    <3>5. CASE ~Expired(c[n])
      <4>1. PICK e \in F : e = c[n]
        BY <1>2, <3>1, <3>5
      <4>2. f[n] = Append(s, e)
        BY <2>5, <2>7, <3>2, <3>5, <4>1
      <4>3. Append(s, e) \in Seq(F) /\ Len(Append(s, e)) = Len(s) + 1
        BY <3>3
      <4>4. Fine(n)
        BY <3>1, <3>3, <4>2, <4>3 DEF Fine
      <4> QED
        BY <2>4, <4>4
    <3> QED
      BY <3>4, <3>5
  <2> QED
    BY <2>6, <2>7
<1> HIDE DEF Fine
<1>4. Fine(Len(c))
  BY <1>3
<1> QED
  BY <1>1, <1>4 DEF Fine, F

\* Whenever an entry is close to a text, Nearest is one of them.
LEMMA NearestIsClose ==
    ASSUME NEW c \in Seq(EntryType), NEW t \in Texts, Close(c, t) # {}
    PROVE  Nearest(c, t) \in Close(c, t)
<1> DEFINE Near(i) == Similarity[t][c[i].text]
           Beats(i, j) == Near(j) < Near(i) \/ (Near(j) = Near(i) /\ j <= i)
           Best(n, i) == i \in Close(c, t) /\ i <= n /\ \A j \in Close(c, t) : j <= n => Beats(i, j)
           T == {n \in 0..Len(c) : /\ \E i \in Close(c, t) : i <= n
                                   /\ ~\E i \in Close(c, t) : Best(n, i)}
<1>1. ASSUME NEW i \in DOMAIN c PROVE Near(i) \in Nat
  <2>1. c[i] \in EntryType
    OBVIOUS
  <2>2. c[i].text \in Texts
    BY <2>1 DEF EntryType
  <2> QED
    BY <2>2, ChatAssumption
<1>2. Close(c, t) \subseteq 1..Len(c)
  BY DEF Close
<1> HIDE DEF Near
<1>3. T = {}
  <2>1. SUFFICES ASSUME T # {} PROVE FALSE
    OBVIOUS
  <2>2. T \subseteq Nat
    OBVIOUS
  <2>3. PICK n \in T : \A m \in T : n <= m
    BY <2>1, <2>2, Least, Zenon
  <2>4. /\ n \in 0..Len(c) /\ \E i \in Close(c, t) : i <= n
        /\ ~\E i \in Close(c, t) : Best(n, i)
    OBVIOUS
  <2>5. n \in 1..Len(c) /\ n - 1 \in 0..Len(c) /\ n - 1 \notin T
    <3>1. PICK i \in Close(c, t) : i <= n
      BY <2>4
    <3>2. n \in 1..Len(c) /\ n - 1 \in 0..Len(c) /\ ~(n <= n - 1)
      BY <1>2, <2>4, <3>1
    <3> HIDE DEF T
    <3> QED
      BY <2>3, <3>2
  <2>6. CASE n \notin Close(c, t)
    <3>1. \A i \in Close(c, t) : i <= n <=> i <= n - 1
      BY <1>2, <2>5, <2>6
    <3>2. PICK i \in Close(c, t) : Best(n - 1, i)
      BY <2>4, <2>5, <3>1
    <3>3. Best(n, i)
      BY <3>1, <3>2
    <3> QED
      BY <2>4, <3>3
  <2>7. CASE n \in Close(c, t) /\ ~\E i \in Close(c, t) : i <= n - 1
    <3>1. \A i \in Close(c, t) : i <= n => i = n
      BY <1>2, <2>5, <2>7
    <3>2. Best(n, n)
      BY <2>5, <2>7, <3>1
    <3> QED
      BY <2>4, <2>7, <3>2
  <2>8. CASE n \in Close(c, t) /\ \E i \in Close(c, t) : i <= n - 1
    <3>1. PICK i \in Close(c, t) : Best(n - 1, i)
      BY <2>5, <2>8
    <3>2. \A j \in Close(c, t) : j <= n => j = n \/ j <= n - 1
      BY <1>2, <2>5
    <3>3. Near(i) \in Nat /\ Near(n) \in Nat /\ i \in Nat /\ i <= n - 1
      BY <1>1, <1>2, <2>5, <3>1
    <3>4. CASE Near(n) < Near(i)
      <4>1. ASSUME NEW j \in Close(c, t), j <= n PROVE Beats(i, j)
        <5>1. CASE j = n
          BY <3>4, <5>1
        <5>2. CASE j <= n - 1
          BY <3>1, <5>2
        <5> QED
          BY <3>2, <4>1, <5>1, <5>2
      <4>2. Best(n, i)
        BY <2>5, <3>3, <4>1
      <4> QED
        BY <2>4, <4>2
    <3>5. CASE Near(i) <= Near(n)
      <4>1. ASSUME NEW j \in Close(c, t), j <= n PROVE Beats(n, j)
        <5>1. Near(j) \in Nat /\ j \in Nat
          BY <1>1, <1>2
        <5>2. CASE j = n
          BY <5>1, <5>2
        <5>3. CASE j <= n - 1
          <6>1. Beats(i, j)
            BY <3>1, <5>3
          <6>2. PICK x, y, z : x = Near(i) /\ y = Near(j) /\ z = Near(n)
            OBVIOUS
          <6>3. x \in Nat /\ y \in Nat /\ z \in Nat
            BY <3>3, <5>1, <6>2
          <6>4. x <= z
            BY <3>5, <6>2
          <6>5. y < x \/ y = x
            BY <6>1, <6>2
          <6> QED
            BY <4>1, <6>2, <6>3, <6>4, <6>5
        <5> QED
          BY <3>2, <4>1, <5>2, <5>3
      <4>2. Best(n, n)
        BY <2>5, <2>8, <4>1
      <4> QED
        BY <2>4, <2>8, <4>2
    <3> QED
      BY <3>3, <3>4, <3>5
  <2> QED
    BY <2>6, <2>7, <2>8
<1>4. PICK i \in Close(c, t) : \A j \in Close(c, t) : Beats(i, j)
  <2>1. Len(c) \in 0..Len(c) /\ \A j \in Close(c, t) : j <= Len(c)
    BY <1>2
  <2> QED
    BY <1>3, <2>1
<1> QED
  BY <1>4, Zenon DEF Nearest, Near

\* An entry taken out.
LEMMA RemoveAtType ==
    ASSUME NEW S, NEW c \in Seq(S), NEW i \in DOMAIN c
    PROVE  RemoveAt(c, i) \in Seq(S) /\ Len(RemoveAt(c, i)) = Len(c) - 1
<1>1. PICK l \in Nat : l = Len(c)
  OBVIOUS
<1>2. i \in 1..l /\ \A m \in 1..l : c[m] \in S
  BY <1>1
<1>3. PICK front, back : front = SubSeq(c, 1, i - 1) /\ back = SubSeq(c, i + 1, l)
  OBVIOUS
<1>4. front \in Seq(S) /\ Len(front) = i - 1
  <2>1. 1 \in Int /\ i - 1 \in Int /\ \A m \in 1..(i - 1) : c[m] \in S
    BY <1>2
  <2>2. front \in Seq(S) /\ Len(front) = IF 1 <= i - 1 THEN (i - 1) - 1 + 1 ELSE 0
    BY <1>3, <2>1, SubSeqProperties
  <2> QED
    BY <1>2, <2>2
<1>5. back \in Seq(S) /\ Len(back) = l - i
  <2>1. i + 1 \in Int /\ l \in Int /\ \A m \in (i + 1)..l : c[m] \in S
    BY <1>2
  <2>2. back \in Seq(S) /\ Len(back) = IF i + 1 <= l THEN l - (i + 1) + 1 ELSE 0
    BY <1>3, <2>1, SubSeqProperties
  <2> QED
    BY <1>2, <2>2
<1>6. RemoveAt(c, i) = front \o back
  BY <1>1, <1>3 DEF RemoveAt
<1>7. front \o back \in Seq(S) /\ Len(front \o back) = Len(front) + Len(back)
  BY <1>4, <1>5
<1>8. Len(front \o back) = l - 1
  BY <1>2, <1>4, <1>5, <1>7
<1> QED
  BY <1>1, <1>6, <1>7, <1>8

\* store: there is room for the new entry, and the cache keeps its capacity.
LEMMA StoreType ==
    ASSUME NEW S, NEW c \in Seq(S), NEW e \in S, NEW i \in 0..Len(c)
    PROVE  Store(c, e, i) \in Seq(S) /\ Len(Store(c, e, i)) <= MaxEntries
<1>1. PICK d : d = IF i = 0 THEN c ELSE RemoveAt(c, i)
  OBVIOUS
<1>2. d \in Seq(S)
  BY <1>1, RemoveAtType
<1>3. PICK w : w = Append(d, e)
  OBVIOUS
<1>4. w \in Seq(S)
  BY <1>2, <1>3
<1>5. PICK l \in Nat : l = Len(w)
  BY <1>4
<1>6. \A m \in 1..l : w[m] \in S
  BY <1>4, <1>5
<1>7. PICK a \in Nat : a = IF l > MaxEntries THEN l - MaxEntries + 1 ELSE 1
  <2>1. PICK n \in Nat : n = MaxEntries
    BY ChatAssumption
  <2>2. (IF l > n THEN l - n + 1 ELSE 1) \in Nat
    BY <1>5, <2>1
  <2> QED
    BY <2>1, <2>2
<1>8. a \in 1..(l + 1) /\ l - a + 1 <= MaxEntries /\ MaxEntries \in Nat
  BY <1>7, ChatAssumption
<1>9. /\ SubSeq(w, a, l) \in Seq(S)
      /\ Len(SubSeq(w, a, l)) = IF a <= l THEN l - a + 1 ELSE 0
  <2>1. a \in Int /\ l \in Int /\ \A m \in a..l : w[m] \in S
    BY <1>6, <1>8
  <2> QED
    BY <2>1, SubSeqProperties
<1>10. Store(c, e, i) = SubSeq(w, a, l)
  BY <1>1, <1>3, <1>5, <1>7 DEF Store, Evict
<1> QED
  BY <1>8, <1>9, <1>10

-----------------------------------------------------------------------------
(* The invariant of the cache and of the streams *)

\* An entry that may be served: nothing unguarded, and as old as its key says.
Servable == {e \in EntryType : e.origin \in {"passed", "skipped"} /\ e.created = e.old}

Kept == cache \in Seq(Servable) /\ Len(cache) <= MaxEntries

\* What the handlers remember of the cache and the cascade.
MemoryType ==
    /\ embedded \in [Requests -> BOOLEAN]
    /\ tier \in [Requests -> 0..MoreTiers]
    /\ served \in [Requests -> EntryType \cup {NoEntry}]

\* An entry is kept, and served, for the text it was looked up with.
Asking(r) ==
    /\ pc[r] = "embedding" \/ embedded[r] => kind[r].text \in Texts
    /\ pc[r] \in {"idle", "embedding"} => ~embedded[r]
    /\ reply[r] = "cached" =>
          /\ pc[r] = "done"
          /\ served[r].origin \in {"passed", "skipped"}
          /\ TTL > 0 => served[r].old < TTL
          /\ Similarity[kind[r].text][served[r].text] >= Threshold

\* What a stream that was read to its end looks like.
Whole(r) ==
    /\ Seen(r, "done")
    /\ Seen(r, "warning") <=> post[r] # "none" /\ Blocks(post[r])
    /\ Seen(r, "error") => Last(events[r]) = "done" /\ ~Seen(r, "warning")
    /\ Guarded(kind[r]) /\ Seen(r, "text") /\ ~Seen(r, "error")
          => post[r] \in Verdicts \cup {"raised"}

\* Errors and warnings come with the end of a stream.
Shape(r) ==
    /\ pc[r] \in {"streaming", "streamguard"} => ~Seen(r, "error") /\ ~Seen(r, "warning")
    /\ pc[r] = "done" /\ reply[r] = "stream" => Whole(r)

Outer == Kept /\ MemoryType /\ \A r \in Requests : Asking(r) /\ Shape(r)

-----------------------------------------------------------------------------
(* What steps do to it *)

\* Asking and Shape of one request do not depend on the others.
LEMMA OuterFrame ==
    ASSUME Inv, Outer, NEW r \in Requests, Local(r), Kept', MemoryType',
           \A q \in Requests \ {r} : embedded'[q] = embedded[q] /\ served'[q] = served[q],
           Asking(r)', Shape(r)'
    PROVE  Outer'
<1>1. ASSUME NEW q \in Requests \ {r} PROVE Asking(q)' /\ Shape(q)'
  <2>1. Asking(q) /\ Shape(q)
    BY DEF Outer
  <2>2. /\ pc'[q] = pc[q] /\ kind'[q] = kind[q] /\ post'[q] = post[q] /\ reply'[q] = reply[q]
        /\ events'[q] = events[q] /\ embedded'[q] = embedded[q] /\ served'[q] = served[q]
    BY DEF Local
  <2>3. Asking(q)'
    BY <2>1, <2>2 DEF Asking
  <2>4. Shape(q)'
    BY <2>1, <2>2 DEF Shape, Whole, Seen
  <2> QED
    BY <2>3, <2>4
<1> QED
  BY <1>1 DEF Outer

\* r goes on after its lookup: to its next await or to an answer of its own.
GoesOn(r) ==
    /\ Kept' /\ tier' \in [Requests -> 0..MoreTiers]
    /\ \A q \in Requests \ {r} : /\ pc'[q] = pc[q] /\ pre'[q] = pre[q] /\ task'[q] = task[q]
                                 /\ usage'[q] = usage[q] /\ post'[q] = post[q]
                                 /\ reply'[q] = reply[q] /\ charged'[q] = charged[q]
    /\ pc'[r] \notin {"idle", "embedding", "streamguard", "gone"}
    /\ reply'[r] # "cached"
    /\ reply'[r] = "stream" => pc'[r] = "streaming"

LEMMA GoingOn ==
    ASSUME Inv, Outer, NEW r \in Requests, Silent(r), GoesOn(r), pc[r] # "idle",
           UNCHANGED <<kind, embedded, served, events>>
    PROVE  Outer'
<1>1. Local(r)
  BY DEF Local, GoesOn
<1>2. Kept' /\ MemoryType'
  BY DEF GoesOn, Outer, MemoryType
<1>3. Asking(r)'
  BY DEF GoesOn, Outer, Asking
<1>4. Shape(r)'
  <2>1. events'[r] = << >>
    BY DEF Silent
  <2>2. ~Seen(r, "error")' /\ ~Seen(r, "warning")'
    BY <2>1 DEF Seen
  <2> QED
    BY <2>2 DEF GoesOn, Shape
<1> QED
  BY <1>1, <1>2, <1>3, <1>4, OuterFrame

\* The part of GoesOn that an answer is about.
Answers(r) ==
    /\ Kept'
    /\ \A q \in Requests \ {r} : /\ pc'[q] = pc[q] /\ task'[q] = task[q] /\ usage'[q] = usage[q]
                                 /\ post'[q] = post[q] /\ reply'[q] = reply[q]
                                 /\ charged'[q] = charged[q]
    /\ pc'[r] \notin {"idle", "embedding", "streamguard", "gone"}
    /\ reply'[r] # "cached"
    /\ reply'[r] = "stream" => pc'[r] = "streaming"

\* What is kept is an answer the guards have let pass, new.
LEMMA DeliverAnswers ==
    ASSUME Inv, Inv', Outer, NEW r \in Requests, NEW v, Deliver(r, v), pc[r] # "embedding",
           UNCHANGED kind,
           \A q \in Requests \ {r} :
               task'[q] = task[q] /\ usage'[q] = usage[q] /\ charged'[q] = charged[q]
    PROVE  Answers(r)
<1>1. /\ pc' = [pc EXCEPT ![r] = "done"] /\ post' = [post EXCEPT ![r] = v]
      /\ reply' = [reply EXCEPT ![r] = IF Blocks(v) THEN "refusal" ELSE "answer"]
  BY DEF Deliver, Reply
<1>2. Kept'
  <2>1. CASE UNCHANGED cache
    BY <2>1 DEF Outer, Kept
  <2>2. CASE Keep(r, v)
    <3>1. PICK e : e = [text |-> kind[r].text, origin |-> Origin(r, v), created |-> 0, old |-> 0]
      OBVIOUS
    <3>2. e \in Servable
      <4>1. kind[r].text \in Texts /\ ~Blocks(v)
        BY <2>2 DEF Keep, Outer, Asking
      <4>2. 0 \in 0..TTL
        BY ChatAssumption
      <4>3. pc'[r] = "done" /\ reply'[r] = "answer" /\ post'[r] = v /\ kind'[r] = kind[r]
        BY <1>1, <4>1 DEF Inv, RequestType
      <4>4. Passed(r)' /\ Read(r)'
        BY <4>3 DEF Inv, Progress
      <4>5. Guarded(kind[r]) => LetPass(pre'[r]) /\ (task'[r] = "text" => LetPass(v))
        BY <4>3, <4>4 DEF Passed, Read, LetPass, Blocks
      <4>6. Origin(r, v) \in {"passed", "skipped"}
        BY <4>5 DEF Origin
      <4> QED
        BY <3>1, <4>1, <4>2, <4>6 DEF Servable, EntryType, Origins
    <3>3. PICK i \in 0..Len(cache) : cache' = Store(cache, e, i)
      BY <2>2, <3>1 DEF Deliver
    <3> QED
      BY <3>2, <3>3, StoreType DEF Outer, Kept
  <2> QED
    BY <2>1, <2>2 DEF Deliver
<1> QED
  BY <1>1, <1>2 DEF Answers, Inv, RequestType

LEMMA FinishAnswers ==
    ASSUME Inv, Inv', Outer, NEW r \in Requests, NEW answer, Finish(r, answer), Silent(r),
           pc[r] \notin {"idle", "embedding", "done", "gone"}, UNCHANGED kind
    PROVE  Answers(r)
<1> USE DEF Inv, RequestType
<1>1. task' = [task EXCEPT ![r] = answer]
  BY DEF Finish
<1>2. PICK u \in Usages :
         /\ usage' = [usage EXCEPT ![r] = u]
         /\ charged' = [charged EXCEPT ![r] = IF u = "counted" THEN @ + 1 ELSE @]
         /\ \/ Reply(r, "crash") /\ UNCHANGED <<cache, post>>
            \/ pc' = [pc EXCEPT ![r] = "postguard"] /\ UNCHANGED <<cache, reply, post>>
            \/ Deliver(r, "none")
  BY DEF Finish
<1>3. CASE Reply(r, "crash") /\ UNCHANGED <<cache, post>>
  BY <1>1, <1>2, <1>3 DEF Answers, Reply, Outer, Kept
<1>4. CASE pc' = [pc EXCEPT ![r] = "postguard"] /\ UNCHANGED <<cache, reply, post>>
  BY <1>1, <1>2, <1>4 DEF Answers, Silent, Outer, Kept
<1>5. CASE Deliver(r, "none")
  BY <1>1, <1>2, <1>5, DeliverAnswers
<1> QED
  BY <1>2, <1>3, <1>4, <1>5

\* The tiers of the cascade are counted up to the last.
LEMMA SettleAnswers ==
    ASSUME Inv, Inv', Outer, NEW r \in Requests, NEW outcome, Settle(r, outcome), Silent(r),
           pc[r] \notin {"idle", "embedding", "done", "gone"}, UNCHANGED kind
    PROVE  Answers(r) /\ tier' \in [Requests -> 0..MoreTiers]
<1> USE DEF Inv, RequestType
<1>1. reply[r] = "none" /\ Kept /\ tier \in [Requests -> 0..MoreTiers]
  BY DEF Silent, Outer, MemoryType
<1>2. CASE outcome = "failed"
  <2>1. /\ task' = [task EXCEPT ![r] = outcome] /\ pc' = [pc EXCEPT ![r] = "done"]
        /\ reply' = [reply EXCEPT ![r] = "error"] /\ UNCHANGED <<cache, usage, post, tier, charged>>
    BY <1>2 DEF Settle, Reply
  <2> QED
    BY <1>1, <2>1 DEF Answers, Kept
<1>3. CASE outcome # "failed" /\ kind[r].stream
  <2>1. /\ task' = [task EXCEPT ![r] = outcome] /\ pc' = [pc EXCEPT ![r] = "streaming"]
        /\ reply' = [reply EXCEPT ![r] = "stream"] /\ UNCHANGED <<cache, usage, post, tier, charged>>
    BY <1>3 DEF Settle
  <2> QED
    BY <1>1, <2>1 DEF Answers, Kept
<1>4. CASE outcome # "failed" /\ ~kind[r].stream /\ outcome = "blank" /\ kind[r].cascade /\ MoreTiers > 0
  <2>1. /\ task' = [task EXCEPT ![r] = outcome] /\ pc' = [pc EXCEPT ![r] = "escalating"]
        /\ tier' = [tier EXCEPT ![r] = 1] /\ UNCHANGED <<cache, usage, post, reply, charged>>
    BY <1>4 DEF Settle
  <2>2. 1 \in 0..MoreTiers
    BY <1>4, ChatAssumption
  <2> QED
    BY <1>1, <2>1, <2>2 DEF Answers, Kept
<1>5. CASE /\ outcome # "failed" /\ ~kind[r].stream
           /\ ~(outcome = "blank" /\ kind[r].cascade /\ MoreTiers > 0)
  <2>1. Finish(r, outcome) /\ UNCHANGED tier
    BY <1>5 DEF Settle
  <2> QED
    BY <1>1, <2>1, FinishAnswers
<1> QED
  BY <1>2, <1>3, <1>4, <1>5

\* The hooks and the start of guard and provider.
LEMMA BeginGoesOn ==
    ASSUME Inv, Outer, NEW r \in Requests, NEW k, Begin(r, k), Silent(r),
           pc[r] \in {"idle", "embedding"}, Kept', UNCHANGED <<usage, tier, post, charged>>
    PROVE  GoesOn(r)
<1> USE DEF Inv, RequestType
<1>1. reply[r] = "none" /\ tier \in [Requests -> 0..MoreTiers]
  BY DEF Silent, Outer, MemoryType
<1>2. CASE Reply(r, "hook_block") /\ UNCHANGED <<pre, task>>
  BY <1>1, <1>2 DEF Reply, GoesOn
<1>3. CASE ~(Reply(r, "hook_block") /\ UNCHANGED <<pre, task>>)
  BY <1>1, <1>3 DEF Begin, GoesOn
<1> QED
  BY <1>2, <1>3

-----------------------------------------------------------------------------
(* Every step keeps it *)

LEMMA InitOuter == Init => Outer
<1> SUFFICES ASSUME Init PROVE Outer
  OBVIOUS
<1> USE DEF Init
<1>1. Kept
  BY ChatAssumption DEF Kept
<1>2. MemoryType
  BY ChatAssumption DEF MemoryType
<1>3. ASSUME NEW r \in Requests PROVE Asking(r) /\ Shape(r)
  BY DEF Asking, Shape
<1> QED
  BY <1>1, <1>2, <1>3 DEF Outer

LEMMA ArriveOuter ==
    ASSUME Inv, Inv', Outer, NEW r \in Requests, NEW k \in Kinds[r], Arrive(r, k) PROVE Outer'
<1> USE DEF Inv, RequestType
<1>1. /\ pc[r] = "idle" /\ kind' = [kind EXCEPT ![r] = k] /\ k \in KindType
      /\ UNCHANGED <<cache, embedded, usage, tier, post, events, charged, served>>
  BY KindsTyped DEF Arrive
<1>2. Kept' /\ MemoryType'
  BY <1>1 DEF Outer, Kept, MemoryType
<1>3. reply[r] = "none" /\ ~embedded[r]
  BY <1>1 DEF Outer, Asking, Progress, Silent
<1>4. /\ Local(r) /\ reply'[r] \in {"none", "hook_block"}
      /\ \/ pc'[r] = "embedding" /\ k.text \in Texts
         \/ pc'[r] \in {"done", "guard", "provider"}
  <2>1. CASE Begin(r, k)
    <3>1. CASE Reply(r, "hook_block") /\ UNCHANGED <<pre, task>>
      BY <1>1, <1>3, <3>1 DEF Reply, Local
    <3>2. CASE ~(Reply(r, "hook_block") /\ UNCHANGED <<pre, task>>)
      BY <1>1, <1>3, <2>1, <3>2 DEF Begin, Local
    <3> QED
      BY <3>1, <3>2
  <2>2. CASE /\ Cacheable(k) /\ k.text # NoText
             /\ pc' = [pc EXCEPT ![r] = "embedding"] /\ UNCHANGED <<pre, task, reply>>
    BY <1>1, <1>3, <2>2 DEF Local, KindType
  <2> QED
    BY <2>1, <2>2 DEF Arrive
<1>5. Asking(r)'
  BY <1>1, <1>3, <1>4 DEF Asking
<1>6. Shape(r)'
  BY <1>1, <1>3, <1>4 DEF Shape
<1> QED
  BY <1>1, <1>2, <1>4, <1>5, <1>6, OuterFrame

\* lookup: the entry served has not expired, and is close.
LEMMA HitOuter ==
    ASSUME Inv, Inv', Outer, NEW r \in Requests, Hit(r) PROVE Outer'
<1> USE DEF Inv, RequestType
<1>1. PICK live, i : live = Live(cache) /\ i = Nearest(live, kind[r].text)
  OBVIOUS
<1>2. /\ pc[r] = "embedding" /\ Close(live, kind[r].text) # {}
      /\ cache' = Touch(live, i) /\ served' = [served EXCEPT ![r] = live[i]]
      /\ pc' = [pc EXCEPT ![r] = "done"] /\ reply' = [reply EXCEPT ![r] = "cached"]
      /\ UNCHANGED <<kind, embedded, pre, task, usage, tier, post, events, charged>>
  BY <1>1 DEF Hit, Reply
<1>3. kind[r].text \in Texts /\ ~embedded[r]
  BY <1>2 DEF Outer, Asking
<1>4. live \in Seq({e \in Servable : ~Expired(e)}) /\ Len(live) <= MaxEntries
  <2>1. Len(live) <= Len(cache) /\ live \in Seq({e \in Servable : ~Expired(e)})
    BY <1>1, LiveKept DEF Outer, Kept
  <2>2. Len(live) \in Nat /\ Len(cache) \in Nat /\ MaxEntries \in Nat /\ Len(cache) <= MaxEntries
    BY <2>1, ChatAssumption DEF Outer, Kept
  <2> QED
    BY <2>1, <2>2
<1>5. live \in Seq(Servable) /\ live \in Seq(EntryType)
  BY <1>4 DEF Servable
<1>6. i \in Close(live, kind[r].text)
  BY <1>1, <1>2, <1>3, <1>5, NearestIsClose
<1>7. PICK e : e = live[i]
  OBVIOUS
<1>8. /\ i \in DOMAIN live /\ e \in Servable /\ ~Expired(e)
      /\ e.origin \in {"passed", "skipped"} /\ Similarity[kind[r].text][e.text] >= Threshold
  <2>1. i \in DOMAIN live /\ Similarity[kind[r].text][live[i].text] >= Threshold
    BY <1>6 DEF Close
  <2>2. live[i] \in {d \in Servable : ~Expired(d)}
    BY <1>4, <2>1
  <2> QED
    BY <1>7, <2>1, <2>2 DEF Servable
<1>9. Kept'
  <2>1. PICK rest : rest = RemoveAt(live, i)
    OBVIOUS
  <2>2. rest \in Seq(Servable) /\ Len(rest) = Len(live) - 1
    BY <1>5, <1>8, <2>1, RemoveAtType
  <2>3. cache' = Append(rest, e)
    BY <1>2, <1>7, <2>1 DEF Touch
  <2>4. Append(rest, e) \in Seq(Servable) /\ Len(Append(rest, e)) = Len(rest) + 1
    BY <1>8, <2>2
  <2>5. Len(live) \in Nat
    BY <1>5
  <2>6. Len(Append(rest, e)) <= MaxEntries
    BY <1>4, <2>2, <2>4, <2>5
  <2> QED
    BY <2>3, <2>4, <2>6 DEF Kept
<1>10. served'[r] = e /\ MemoryType'
  BY <1>2, <1>7, <1>8 DEF Outer, MemoryType, Servable
<1>11. TTL > 0 => e.old < TTL
  BY <1>8, ChatAssumption DEF Servable, EntryType, Expired
<1>12. Asking(r)'
  BY <1>2, <1>3, <1>8, <1>10, <1>11 DEF Asking
<1>13. Shape(r)'
  BY <1>2, <1>3 DEF Shape
<1>14. Local(r) /\ \A q \in Requests \ {r} : embedded'[q] = embedded[q] /\ served'[q] = served[q]
  BY <1>2 DEF Local, Outer, MemoryType
<1> QED
  BY <1>9, <1>10, <1>12, <1>13, <1>14, OuterFrame

LEMMA MissOuter ==
    ASSUME Inv, Inv', Outer, NEW r \in Requests, Miss(r) PROVE Outer'
<1> USE DEF Inv, RequestType
<1>1. /\ pc[r] = "embedding" /\ cache' = Live(cache) /\ Begin(r, kind[r])
      /\ embedded' = [embedded EXCEPT ![r] = TRUE]
      /\ UNCHANGED <<kind, usage, tier, post, events, charged, served>>
  BY DEF Miss
<1>2. Kept'
  <2>1. PICK live : live = Live(cache)
    OBVIOUS
  <2>2. Len(live) <= Len(cache) /\ live \in Seq({e \in Servable : ~Expired(e)})
    BY <2>1, LiveKept DEF Outer, Kept
  <2>3. Len(live) \in Nat /\ Len(cache) \in Nat /\ MaxEntries \in Nat /\ Len(cache) <= MaxEntries
    BY <2>2, ChatAssumption DEF Outer, Kept
  <2>4. live \in Seq(Servable)
    BY <2>2
  <2> QED
    BY <1>1, <2>1, <2>2, <2>3, <2>4 DEF Kept
<1>3. Silent(r) /\ kind[r].text \in Texts
  BY <1>1 DEF Progress, Outer, Asking
<1>4. GoesOn(r)
  BY <1>1, <1>2, <1>3, BeginGoesOn
<1>5. Local(r) /\ MemoryType' /\ \A q \in Requests \ {r} : embedded'[q] = embedded[q] /\ served'[q] = served[q]
  BY <1>1, <1>4 DEF Local, GoesOn, Outer, MemoryType
<1>6. Asking(r)'
  BY <1>1, <1>3, <1>4 DEF GoesOn, Asking
<1>7. Shape(r)'
  <2>1. events'[r] = << >>
    BY <1>1, <1>3 DEF Silent
  <2>2. ~Seen(r, "error")' /\ ~Seen(r, "warning")'
    BY <2>1 DEF Seen
  <2> QED
    BY <1>4, <2>2 DEF GoesOn, Shape
<1> QED
  BY <1>2, <1>5, <1>6, <1>7, OuterFrame

LEMMA EmbeddingFailsOuter ==
    ASSUME Inv, Inv', Outer, NEW r \in Requests, EmbeddingFails(r) PROVE Outer'
<1>1. /\ pc[r] = "embedding" /\ Begin(r, kind[r])
      /\ UNCHANGED <<cache, kind, embedded, usage, tier, post, events, charged, served>>
  BY DEF EmbeddingFails
<1>2. Silent(r) /\ Kept'
  BY <1>1 DEF Inv, Progress, Outer, Kept
<1> QED
  BY <1>1, <1>2, BeginGoesOn, GoingOn

\* A provider task that its handler has left running ends: nobody sees it.
LEMMA OrphanOuter ==
    ASSUME Inv, Outer, NEW r \in Requests, NEW o \in Outcomes, ProviderEnds(r, o), pc[r] = "done"
    PROVE  Outer'
<1>1. /\ task' = [task EXCEPT ![r] = o]
      /\ UNCHANGED <<cache, pc, kind, embedded, pre, usage, tier, post, reply, events, charged, served>>
  BY DEF ProviderEnds
<1>2. Local(r) /\ Kept' /\ MemoryType'
  BY <1>1 DEF Inv, RequestType, Local, Outer, Kept, MemoryType
<1>3. Asking(r)' /\ Shape(r)'
  BY <1>1 DEF Outer, Asking, Shape, Whole, Seen
<1> QED
  BY <1>1, <1>2, <1>3, OuterFrame

\* The guard, the provider, the tiers and the verdict on a plain answer.
LEMMA AnswerOuter ==
    ASSUME Inv, Inv', Outer, NEW r \in Requests, pc[r] # "done",
           \/ Cancelled(r) \/ PreRaises(r) \/ PostRaises(r) \/ TierEscapes(r)
           \/ \E v \in Verdicts : PreVerdict(r, v) \/ PostVerdict(r, v)
           \/ \E o \in Outcomes : ProviderEnds(r, o) \/ TierEnds(r, o)
    PROVE  Outer'
<1> USE DEF Inv, RequestType
<1>1. /\ pc[r] \in {"cancelling", "guard", "postguard", "provider", "escalating"}
      /\ UNCHANGED <<kind, embedded, served, events>>
  BY DEF Cancelled, PreRaises, PostRaises, TierEscapes, PreVerdict, PostVerdict, ProviderEnds, TierEnds
<1>2. /\ Silent(r) /\ reply[r] = "none" /\ Kept
      /\ tier \in [Requests -> 0..MoreTiers]
  BY <1>1 DEF Progress, Silent, Outer, MemoryType
<1>3. \A q \in Requests \ {r} : pre'[q] = pre[q]
  BY DEF Cancelled, PreRaises, PostRaises, TierEscapes, PreVerdict, PostVerdict, ProviderEnds, TierEnds
<1>4. Answers(r) /\ tier' \in [Requests -> 0..MoreTiers]
  <2>1. CASE Cancelled(r) \/ PreRaises(r) \/ PostRaises(r) \/ TierEscapes(r)
    <3>1. CASE Cancelled(r)
      BY <1>2, <3>1 DEF Cancelled, Reply, Answers, Kept
    <3>2. CASE PreRaises(r) \/ PostRaises(r) \/ TierEscapes(r)
      BY <1>2, <3>2 DEF PreRaises, PostRaises, TierEscapes, Reply, Answers, Kept
    <3> QED
      BY <2>1, <3>1, <3>2
  <2>2. ASSUME NEW v \in Verdicts, PreVerdict(r, v)
        PROVE  Answers(r) /\ tier' \in [Requests -> 0..MoreTiers]
    <3>1. CASE /\ pc' = [pc EXCEPT ![r] = "cancelling"] \/ pc' = [pc EXCEPT ![r] = "provider"]
               /\ UNCHANGED <<cache, task, usage, tier, post, reply, charged>>
      BY <1>2, <3>1 DEF Answers, Kept
    <3>2. CASE Settle(r, task[r])
      BY <1>1, <1>2, <3>2, SettleAnswers
    <3> QED
      BY <2>2, <3>1, <3>2 DEF PreVerdict
  <2>3. ASSUME NEW v \in Verdicts, PostVerdict(r, v)
        PROVE  Answers(r) /\ tier' \in [Requests -> 0..MoreTiers]
    BY <1>1, <1>2, <2>3, DeliverAnswers DEF PostVerdict
  <2>4. ASSUME NEW o \in Outcomes, ProviderEnds(r, o)
        PROVE  Answers(r) /\ tier' \in [Requests -> 0..MoreTiers]
    <3>1. CASE /\ task' = [task EXCEPT ![r] = o]
               /\ UNCHANGED <<cache, pc, usage, tier, post, reply, charged>>
      BY <1>1, <1>2, <3>1 DEF Answers, Kept
    <3>2. CASE Settle(r, o)
      BY <1>1, <1>2, <3>2, SettleAnswers
    <3> QED
      BY <2>4, <3>1, <3>2 DEF ProviderEnds
  <2>5. ASSUME NEW o \in Outcomes, TierEnds(r, o)
        PROVE  Answers(r) /\ tier' \in [Requests -> 0..MoreTiers]
    <3>1. CASE /\ tier[r] < MoreTiers /\ tier' = [tier EXCEPT ![r] = @ + 1]
               /\ UNCHANGED <<cache, pc, task, usage, post, reply, charged>>
      <4>1. tier[r] + 1 \in 0..MoreTiers
        BY <1>2, <3>1, ChatAssumption
      <4> QED
        BY <1>1, <1>2, <3>1, <4>1 DEF Answers, Kept
    <3>2. CASE Finish(r, IF o = "failed" THEN task[r] ELSE o) /\ UNCHANGED tier
      BY <1>1, <1>2, <3>2, FinishAnswers
    <3> QED
      BY <2>5, <3>1, <3>2 DEF TierEnds
  <2> QED
    BY <2>1, <2>2, <2>3, <2>4, <2>5
<1>5. GoesOn(r)
  BY <1>3, <1>4 DEF Answers, GoesOn
<1> QED
  BY <1>1, <1>2, <1>5, GoingOn

\* What is in a stream that goes on is what was in it and what was added.
Has(log, event) == \E i \in DOMAIN log : log[i] = event

LEMMA HasJoined ==
    ASSUME NEW s \in Logs, NEW t \in Logs
    PROVE  /\ s \o t \in Logs /\ Len(s \o t) = Len(s) + Len(t)
           /\ \A e : Has(s \o t, e) <=> Has(s, e) \/ Has(t, e)
           /\ t # << >> => Last(s \o t) = Last(t)
<1> DEFINE E == {"text", "done", "error", "warning"}
<1>1. s \in Seq(E) /\ t \in Seq(E)
  BY DEF Logs
<1> HIDE DEF E
<1>2. PICK w : w = s \o t
  OBVIOUS
<1>3. w \in Seq(E) /\ Len(w) = Len(s) + Len(t) /\ Len(s) \in Nat /\ Len(t) \in Nat
  BY <1>1, <1>2
<1>4. /\ \A i \in 1..Len(s) : w[i] = s[i]
      /\ \A j \in 1..Len(t) : w[Len(s) + j] = t[j]
  BY <1>1, <1>2
<1>5. DOMAIN w = 1..Len(w) /\ DOMAIN s = 1..Len(s) /\ DOMAIN t = 1..Len(t)
  BY <1>1, <1>3
<1>6. ASSUME NEW e, Has(w, e) PROVE Has(s, e) \/ Has(t, e)
  <2>1. PICK i \in 1..Len(w) : w[i] = e
    BY <1>5, <1>6 DEF Has
  <2>2. CASE i <= Len(s)
    BY <1>3, <1>4, <1>5, <2>1, <2>2 DEF Has
  <2>3. CASE i > Len(s)
    <3>1. i - Len(s) \in 1..Len(t) /\ Len(s) + (i - Len(s)) = i
      BY <1>3, <2>1, <2>3
    <3> QED
      BY <1>4, <1>5, <2>1, <3>1 DEF Has
  <2> QED
    BY <1>3, <2>1, <2>2, <2>3
<1>7. ASSUME NEW e, Has(s, e) PROVE Has(w, e)
  <2>1. PICK i \in 1..Len(s) : s[i] = e
    BY <1>5, <1>7 DEF Has
  <2>2. i \in 1..Len(w)
    BY <1>3, <2>1
  <2> QED
    BY <1>4, <1>5, <2>1, <2>2 DEF Has
<1>8. ASSUME NEW e, Has(t, e) PROVE Has(w, e)
  <2>1. PICK j \in 1..Len(t) : t[j] = e
    BY <1>5, <1>8 DEF Has
  <2>2. Len(s) + j \in 1..Len(w)
    BY <1>3, <2>1
  <2> QED
    BY <1>4, <1>5, <2>1, <2>2 DEF Has
<1>9. ASSUME t # << >> PROVE Last(w) = Last(t)
  <2>1. Len(t) \in 1..Len(t)
    BY <1>1, <1>9
  <2> QED
    BY <1>3, <1>4, <2>1 DEF Last
<1> QED
  BY <1>2, <1>3, <1>6, <1>7, <1>8, <1>9 DEF Logs, E

LEMMA Endings ==
    /\ << >> \in Logs /\ <<"done">> \in Logs /\ <<"warning">> \in Logs /\ <<"error", "done">> \in Logs
    /\ \A e : ~Has(<< >>, e)
    /\ \A e : Has(<<"done">>, e) <=> e = "done"
    /\ \A e : Has(<<"warning">>, e) <=> e = "warning"
    /\ \A e : Has(<<"error", "done">>, e) <=> e \in {"error", "done"}
    /\ Last(<<"error", "done">>) = "done" /\ <<"error", "done">> # << >>
<1>1. << >> \in Logs /\ <<"done">> \in Logs /\ <<"warning">> \in Logs /\ <<"error", "done">> \in Logs
  BY DEF Logs
<1>2. \A e : ~Has(<< >>, e)
  BY DEF Has
<1>3. \A e : Has(<<"done">>, e) <=> e = "done"
  BY DEF Has
<1>4. \A e : Has(<<"warning">>, e) <=> e = "warning"
  BY DEF Has
<1>5. \A e : Has(<<"error", "done">>, e) <=> e \in {"error", "done"}
  BY DEF Has
<1>6. Last(<<"error", "done">>) = "done" /\ <<"error", "done">> # << >>
  BY DEF Last
<1> QED
  BY <1>1, <1>2, <1>3, <1>4, <1>5, <1>6

\* stream_iter's end: the final marker is there, and nothing else is added.
LEMMA Closes ==
    ASSUME NEW log \in Logs, NEW more \in Logs, ~Has(more, "done")
    PROVE  /\ log \o more \o Closing(log) \in Logs
           /\ \A e : Has(log \o more \o Closing(log), e) <=> Has(log, e) \/ Has(more, e) \/ e = "done"
<1>1. Closing(log) = IF Has(log, "done") THEN << >> ELSE <<"done">>
  BY DEF Closing, Has
<1>2. PICK w : w = log \o more
  OBVIOUS
<1>3. w \in Logs /\ \A e : Has(w, e) <=> Has(log, e) \/ Has(more, e)
  BY <1>2, HasJoined
<1>4. CASE Has(log, "done")
  <2>1. w \o << >> \in Logs /\ \A e : Has(w \o << >>, e) <=> Has(w, e) \/ Has(<< >>, e)
    BY <1>3, Endings, HasJoined
  <2> QED
    BY <1>1, <1>2, <1>3, <1>4, <2>1, Endings
<1>5. CASE ~Has(log, "done")
  <2>1. w \o <<"done">> \in Logs /\ \A e : Has(w \o <<"done">>, e) <=> Has(w, e) \/ Has(<<"done">>, e)
    BY <1>3, Endings, HasJoined
  <2> QED
    BY <1>1, <1>2, <1>3, <1>5, <2>1, Endings
<1> QED
  BY <1>4, <1>5

\* A stream that is not at its end has neither error nor warning; one that is
\* has them for a reason.
LEMMA StreamOuter ==
    ASSUME Inv, Inv', Outer, NEW r \in Requests,
           \/ Chunk(r) \/ UpstreamDone(r) \/ UpstreamEnds(r) \/ UpstreamBreaks(r)
           \/ Disconnect(r) \/ StreamRaises(r) \/ \E v \in Verdicts : StreamVerdict(r, v)
    PROVE  Outer'
<1> USE DEF Inv, RequestType
<1>1. /\ pc[r] \in {"streaming", "streamguard"}
      /\ UNCHANGED <<cache, kind, embedded, pre, task, usage, tier, reply, charged, served>>
  BY DEF Chunk, UpstreamDone, UpstreamEnds, UpstreamBreaks, Disconnect, StreamRaises, StreamVerdict
<1>2. /\ pc' = pc \/ pc' = [pc EXCEPT ![r] = "streamguard"] \/ pc' = [pc EXCEPT ![r] = "done"]
         \/ pc' = [pc EXCEPT ![r] = "gone"]
      /\ post' = post \/ \E v \in Verdicts \cup {"raised"} : post' = [post EXCEPT ![r] = v]
      /\ events' = events \/ \E log : events' = [events EXCEPT ![r] = log]
  BY DEF Chunk, UpstreamDone, UpstreamEnds, UpstreamBreaks, Disconnect, StreamRaises, StreamVerdict
<1>3. Local(r) /\ Kept' /\ MemoryType'
  BY <1>1, <1>2 DEF Local, Outer, Kept, MemoryType
<1>4. reply[r] = "stream" /\ reply'[r] = "stream" /\ pc'[r] \notin {"idle", "embedding"}
  BY <1>1, <1>2 DEF Progress
<1>5. Asking(r)'
  BY <1>1, <1>4 DEF Outer, Asking
<1>6. PICK log \in Logs : log = events[r]
  OBVIOUS
<1>7. /\ \A e : Seen(r, e) <=> Has(log, e)
      /\ \A e : Seen(r, e)' <=> Has(events'[r], e)
  BY <1>6 DEF Seen, Has
<1>8. post[r] = "none" /\ ~Has(log, "error") /\ ~Has(log, "warning")
  BY <1>1, <1>7 DEF Outer, Shape, Progress
<1>9. \A e : Has(log \o Closing(log), e) <=> Has(log, e) \/ e = "done"
  <2>1. PICK more : more = << >>
    OBVIOUS
  <2>2. more \in Logs /\ \A e : ~Has(more, e)
    BY <2>1, Endings
  <2>3. \A e : Has(log \o more \o Closing(log), e) <=> Has(log, e) \/ Has(more, e) \/ e = "done"
    BY <2>2, Closes
  <2>4. log \o << >> = log
    BY DEF Logs
  <2> QED
    BY <2>1, <2>2, <2>3, <2>4
<1>10. Shape(r)'
  <2>1. CASE Chunk(r)
    <3>1. pc'[r] = "streaming" /\ post'[r] = "none" /\ events'[r] = <<"text">>
      BY <1>8, <2>1 DEF Chunk
    <3>2. ~Has(<<"text">>, "error") /\ ~Has(<<"text">>, "warning")
      BY DEF Has
    <3> QED
      BY <1>7, <3>1, <3>2 DEF Shape
  <2>2. CASE UpstreamDone(r)
    <3>1. PICK w : w = log \o <<"done">>
      OBVIOUS
    <3>2. Append(log, "done") = w
      BY <3>1 DEF Logs
    <3>3. pc'[r] = "streaming" /\ post'[r] = "none" /\ events'[r] = w
      BY <1>6, <1>8, <2>2, <3>2 DEF UpstreamDone
    <3>4. ~Has(w, "error") /\ ~Has(w, "warning")
      BY <1>8, <3>1, Endings, HasJoined
    <3>5. ~Has(events'[r], "error") /\ ~Has(events'[r], "warning")
      BY <3>3, <3>4, Zenon
    <3>6. ~Seen(r, "error")' /\ ~Seen(r, "warning")'
      BY <1>7, <3>5, Zenon
    <3> QED
      BY <3>3, <3>6 DEF Shape
  <2>3. CASE UpstreamEnds(r) /\ Guarded(kind[r]) /\ Seen(r, "text")
    <3>1. pc'[r] = "streamguard" /\ post'[r] = "none" /\ events'[r] = log
      BY <1>6, <1>8, <2>3 DEF UpstreamEnds
    <3> QED
      BY <1>7, <1>8, <3>1 DEF Shape
  <2>4. CASE UpstreamEnds(r) /\ ~(Guarded(kind[r]) /\ Seen(r, "text"))
    <3>1. pc'[r] = "done" /\ post'[r] = "none" /\ events'[r] = log \o Closing(log)
      BY <1>6, <1>8, <2>4 DEF UpstreamEnds
    <3>2. Whole(r)'
      BY <1>1, <1>7, <1>8, <1>9, <2>4, <3>1 DEF Whole
    <3> QED
      BY <3>1, <3>2 DEF Shape
  <2>5. CASE UpstreamBreaks(r)
    <3>1. pc'[r] = "done" /\ post'[r] = "none" /\ events'[r] = log \o <<"error", "done">>
      BY <1>6, <1>8, <2>5 DEF UpstreamBreaks
    <3>2. /\ \A e : Has(events'[r], e) <=> Has(log, e) \/ e \in {"error", "done"}
          /\ Last(events'[r]) = "done"
      <4>1. PICK more : more = <<"error", "done">>
        OBVIOUS
      <4>2. /\ more \in Logs /\ more # << >> /\ Last(more) = "done"
            /\ \A e : Has(more, e) <=> e \in {"error", "done"}
        BY <4>1, Endings
      <4>3. /\ \A e : Has(log \o more, e) <=> Has(log, e) \/ Has(more, e)
            /\ Last(log \o more) = Last(more)
        BY <4>2, HasJoined
      <4> QED
        BY <3>1, <4>1, <4>2, <4>3
    <3>3. Seen(r, "done")' /\ Seen(r, "error")' /\ ~Seen(r, "warning")'
      BY <1>7, <1>8, <3>2
    <3>4. Whole(r)'
      BY <3>1, <3>2, <3>3 DEF Whole
    <3> QED
      BY <3>1, <3>4 DEF Shape
  <2>6. ASSUME NEW v \in Verdicts, StreamVerdict(r, v) PROVE Shape(r)'
    <3>1. PICK more : more = IF Blocks(v) THEN <<"warning">> ELSE << >>
      OBVIOUS
    <3>2. /\ more \in Logs /\ ~Has(more, "done") /\ ~Has(more, "error")
          /\ Has(more, "warning") <=> Blocks(v)
      BY <3>1, Endings
    <3>3. pc'[r] = "done" /\ post'[r] = v /\ events'[r] = log \o more \o Closing(log)
      BY <1>6, <2>6, <3>1 DEF StreamVerdict
    <3>4. \A e : Has(events'[r], e) <=> Has(log, e) \/ Has(more, e) \/ e = "done"
      BY <3>2, <3>3, Closes
    <3>5. v # "none"
      BY DEF Verdicts
    <3>6. Whole(r)'
      BY <1>7, <1>8, <3>2, <3>3, <3>4, <3>5 DEF Whole
    <3> QED
      BY <3>3, <3>6 DEF Shape
  <2>7. CASE StreamRaises(r)
    <3>1. pc'[r] = "done" /\ post'[r] = "raised" /\ events'[r] = log \o Closing(log)
      BY <1>6, <2>7 DEF StreamRaises
    <3>2. ~Blocks("raised")
      BY DEF Blocks
    <3>3. Whole(r)'
      BY <1>7, <1>8, <1>9, <3>1, <3>2 DEF Whole
    <3> QED
      BY <3>1, <3>3 DEF Shape
  <2>8. CASE Disconnect(r)
    <3>1. pc'[r] = "gone"
      BY <2>8 DEF Disconnect
    <3> QED
      BY <3>1 DEF Shape
  <2> QED
    BY <2>1, <2>2, <2>3, <2>4, <2>5, <2>6, <2>7, <2>8
<1> QED
  BY <1>1, <1>3, <1>5, <1>10, OuterFrame

LEMMA LeaveOuter ==
    ASSUME Inv, Inv', Outer, NEW r \in Requests, Leave(r) PROVE Outer'
<1> USE DEF Inv, RequestType
<1>1. Local(r) /\ \A q \in Requests \ {r} : embedded'[q] = embedded[q] /\ served'[q] = served[q]
  BY DEF Leave, Local, Outer, MemoryType
<1>2. Kept' /\ MemoryType'
  BY ChatAssumption DEF Leave, Outer, Kept, MemoryType
<1>3. pc'[r] = "idle" /\ reply'[r] = "none" /\ ~embedded'[r]
  BY DEF Leave, Outer, MemoryType
<1>4. Asking(r)' /\ Shape(r)'
  BY <1>3 DEF Asking, Shape
<1> QED
  BY <1>1, <1>2, <1>4, OuterFrame

\* Entries age alike.
LEMMA TickOuter == ASSUME Inv, Inv', Outer, Tick PROVE Outer'
<1>1. /\ cache' = [i \in DOMAIN cache |->
                      [cache[i] EXCEPT !.created = Older(@), !.old = Older(@)]]
      /\ UNCHANGED requestVars
  BY DEF Tick
<1>2. ASSUME NEW i \in DOMAIN cache
      PROVE  [cache[i] EXCEPT !.created = Older(@), !.old = Older(@)] \in Servable
  <2>1. PICK e \in Servable : e = cache[i]
    BY DEF Outer, Kept
  <2>2. Older(e.old) \in 0..TTL /\ e.created = e.old
    BY ChatAssumption DEF Servable, EntryType, Older
  <2> QED
    BY <2>1, <2>2 DEF Servable, EntryType
<1>3. Kept'
  <2>1. DOMAIN cache = 1..Len(cache) /\ Len(cache) \in Nat /\ Len(cache) <= MaxEntries
    BY DEF Outer, Kept
  <2>2. cache' \in [1..Len(cache) -> Servable]
    BY <1>1, <1>2, <2>1
  <2>3. cache' \in Seq(Servable) /\ Len(cache') = Len(cache)
    BY <2>1, <2>2
  <2> QED
    BY <2>1, <2>3 DEF Kept
<1>4. MemoryType'
  BY <1>1 DEF requestVars, Outer, MemoryType
<1>5. ASSUME NEW r \in Requests PROVE Asking(r)' /\ Shape(r)'
  <2>1. Asking(r)'
    BY <1>1 DEF requestVars, Outer, Asking
  <2>2. Shape(r) /\ UNCHANGED <<pc, kind, post, reply, events>>
    BY <1>1 DEF requestVars, Outer
  <2>3. Shape(r)'
    BY <2>2 DEF Shape, Whole, Seen
  <2> QED
    BY <2>1, <2>3
<1> QED
  BY <1>3, <1>4, <1>5 DEF Outer

LEMMA NextOuter == Inv /\ Inv' /\ Outer /\ [Next]_vars => Outer'
<1>1. ASSUME Inv, Inv', Outer, UNCHANGED vars PROVE Outer'
  BY <1>1 DEF vars, requestVars, Outer, Kept, MemoryType, Asking, Shape, Whole, Seen
<1>2. ASSUME Inv, Inv', Outer, NEW r \in Requests, Step(r) PROVE Outer'
  <2>1. CASE \E o \in Outcomes : ProviderEnds(r, o) /\ pc[r] = "done"
    BY <1>2, <2>1, OrphanOuter
  <2>2. CASE ~\E o \in Outcomes : ProviderEnds(r, o) /\ pc[r] = "done"
    <3>1. CASE Hit(r) \/ Miss(r) \/ EmbeddingFails(r)
      BY <1>2, <3>1, HitOuter, MissOuter, EmbeddingFailsOuter
    <3>2. CASE \/ Cancelled(r) \/ PreRaises(r) \/ PostRaises(r) \/ TierEscapes(r)
               \/ \E v \in Verdicts : PreVerdict(r, v) \/ PostVerdict(r, v)
               \/ \E o \in Outcomes : ProviderEnds(r, o) \/ TierEnds(r, o)
      <4>1. pc[r] # "done"
        BY <2>2, <3>2 DEF Cancelled, PreRaises, PostRaises, TierEscapes, PreVerdict, PostVerdict, TierEnds
      <4> QED
        BY <1>2, <3>2, <4>1, AnswerOuter
    <3>3. CASE \/ Chunk(r) \/ UpstreamDone(r) \/ UpstreamEnds(r) \/ UpstreamBreaks(r)
               \/ StreamRaises(r) \/ \E v \in Verdicts : StreamVerdict(r, v)
      BY <1>2, <3>3, StreamOuter
    <3> QED
      BY <1>2, <3>1, <3>2, <3>3 DEF Step
  <2> QED
    BY <2>1, <2>2
<1> QED
  BY <1>1, <1>2, ArriveOuter, StreamOuter, LeaveOuter, TickOuter DEF Next

\* The cache holds what may be served, and streams are shaped by what ended
\* them.
THEOREM CacheInductive == Spec => []Outer
<1> QED
  BY InitOuter, NextOuter, PipelineInductive, PTL DEF Spec

\* The cache keeps its capacity whatever is stored, replaced, touched and
\* dropped, and every variable of the handlers its type.
THEOREM TypeCorrect == Spec => []TypeOK
<1>1. Inv /\ Outer => TypeOK
  <2> SUFFICES ASSUME Inv, Outer PROVE TypeOK
    OBVIOUS
  <2>1. cache \in Seq(EntryType) /\ Len(cache) <= MaxEntries
    BY DEF Outer, Kept, Servable
  <2> QED
    BY <2>1 DEF TypeOK, Inv, RequestType, Outer, MemoryType, Logs
<1> QED
  BY <1>1, PipelineInductive, CacheInductive, PTL

\* chat_completions and stream_iter: whichever of guard and provider ends first
\* and however they end, nothing goes out that the guard has not let pass; and
\* neither does anything from the cache.
THEOREM GuardsHold == Spec => []NothingUnchecked
<1>1. Inv /\ Outer => NothingUnchecked
  <2> SUFFICES ASSUME Inv, Outer, NEW r \in Requests, Guarded(kind[r])
               PROVE  /\ reply[r] \in {"answer", "refusal", "stream", "error"} \/ events[r] # << >>
                            => LetPass(pre[r])
                      /\ reply[r] = "answer" /\ task[r] = "text" => LetPass(post[r])
                      /\ reply[r] = "cached" => served[r].origin \in {"passed", "skipped"}
    BY DEF NothingUnchecked
  <2>1. reply[r] = "cached" => served[r].origin \in {"passed", "skipped"}
    BY DEF Outer, Asking
  <2> QED
    BY <2>1 DEF Inv, RequestType, Progress, Silent, Passed, Read
<1> QED
  BY <1>1, PipelineInductive, CacheInductive, PTL

\* lookup: an entry is served for a text within the threshold, and until it is
\* as old as the TTL, however often it was served and whatever replaced it.
THEOREM ServesFresh == Spec => []ServedFresh
<1>1. Outer => ServedFresh
  BY DEF Outer, Asking, ServedFresh
<1> QED
  BY <1>1, CacheInductive, PTL

\* stream_iter: a stream read to its end has its final marker, an error only
\* if it broke, and a warning exactly when the guard blocked its text.
THEOREM StreamsShaped == Spec => []StreamShape
<1>1. Outer => StreamShape
  BY DEF Outer, Shape, Whole, StreamShape
<1> QED
  BY <1>1, CacheInductive, PTL
=============================================================================
