----------------------------- MODULE Responses -----------------------------
(***************************************************************************)
(* The endpoints of the Responses API (app/main.py) in several gateway     *)
(* processes, and the store of responses they share                        *)
(* (app/responses_api.py, ResponseStore).  A handler translates what the   *)
(* chat handler gives it, and saves the result under the response's id.    *)
(*                                                                         *)
(* Of a finished output only the kinds of its items are kept here.         *)
(*                                                                         *)
(* The store's methods are synchronous: a process does nothing else until  *)
(* one is finished.  The store is Redis: between two of its commands other *)
(* processes run theirs.                                                   *)
(***************************************************************************)
EXTENDS ResponseStream, FiniteSets

CONSTANTS
    Ids,            \* response ids: each is created once
    NoId,
    Processes,
    Kinds,          \* Kinds[r]: the requests response r may be the answer to
    MaxCalls,       \* bound: tool calls of a stream
    MaxEvents,      \* bound: events after which a chat stream brings no more
    MaxCrashes,     \* bound: crashes of processes
    None

\* prev: previous_response_id.  at: the process the request is sent to.
KindType ==
    [stream : BOOLEAN, store : BOOLEAN, prev : Ids \cup {NoId}, at : Processes]

\* What the store tells apart of an output: the kinds of its items.
Outputs == Seq({"message", "call"})

ASSUME ResponsesAssumption ==
    /\ NoId \notin Ids /\ None \notin Outputs
    /\ Kinds \in [Ids -> SUBSET KindType]
    /\ MaxEvents \in Nat /\ MaxCalls \in Nat /\ MaxCrashes \in Nat

VARIABLES
    pc,         \* pc[r]: where r's handler is
    kind,       \* kind[r]: what was asked
    stream,     \* stream[r]: its translation, while there is one
    made,       \* made[r]: the output r's handler has produced, once it has
    out,        \* out[r]: the output the client was told, once it was
    history,    \* history[r]: what was found of the response before it
    op,         \* op[p]: the store method p is in, and how far it is
    obj,        \* resp:obj: the outputs stored
    msgs,       \* resp:msgs: ids whose input messages are stored
    index,      \* resp:index
    crashes,
    \* history
    deleted,    \* ids a delete has found
    torn,       \* ids two processes were at, at a time, or one crashed at
    overwritten \* some index was written over one its writer had not read

sessionVars == <<pc, kind, stream, made, out, history>>
storeVars == <<obj, msgs, index>>
ghostVars == <<deleted, torn, overwritten>>
vars == <<sessionVars, op, storeVars, crashes, ghostVars>>

Idle == [do |-> "idle", id |-> NoId, for |-> NoId, ids |-> << >>]

\* The process is between two store methods.
Free(p) == op[p].do = "idle"

\* What there is of r: its messages, its output, both, none.
Found(hasMessages, hasObject) ==
    CASE hasMessages /\ hasObject -> "whole"
      [] ~hasMessages /\ ~hasObject -> "nothing"
      [] OTHER -> "half"

\* Process p is at step `do` of a method on id, for the request `for`.
At(p, do, id, for) ==
    op' = [op EXCEPT ![p] = [do |-> do, id |-> id, for |-> for, ids |-> << >>]]

\* p begins a method on id.
Meet(p, id) ==
    torn' = IF \E q \in Processes \ {p} : op[q].id = id THEN torn \cup {id} ELSE torn

-----------------------------------------------------------------------------
(* Requests *)

\* The chain is looked up first: the messages of the response before.
Arrive(r, k) ==
    /\ pc[r] = "new" /\ Free(k.at)
    /\ kind' = [kind EXCEPT ![r] = k]
    /\ IF k.prev = NoId
       THEN /\ pc' = [pc EXCEPT ![r] = "calling"]
            /\ UNCHANGED <<history, op, torn>>
       ELSE /\ pc' = [pc EXCEPT ![r] = "chaining"]
            /\ history' = [history EXCEPT ![r] =
                              IF k.prev \in msgs THEN "messages" ELSE "no_messages"]
            /\ At(k.at, "chain", k.prev, r)
            /\ Meet(k.at, k.prev)
    /\ UNCHANGED <<stream, made, out, storeVars, crashes, deleted, overwritten>>

\* Then its output.
ChainOutput(p) ==
    /\ op[p].do = "chain"
    /\ LET r == op[p].for IN
          /\ history' = [history EXCEPT ![r] = Found(@ = "messages", obj[op[p].id] # None)]
          /\ pc' = [pc EXCEPT ![r] = "calling"]
    /\ op' = [op EXCEPT ![p] = Idle]
    /\ UNCHANGED <<kind, stream, made, out, storeVars, crashes, ghostVars>>

\* The chat handler blocks or fails, and its answer is passed on as it is.
Refused(r) ==
    /\ pc[r] = "calling" /\ Free(kind[r].at)
    /\ pc' = [pc EXCEPT ![r] = "refused"]
    /\ UNCHANGED <<kind, stream, made, out, history, op, storeVars, crashes, ghostVars>>

\* save, first command.
SaveObject(r, output) ==
    /\ obj' = [obj EXCEPT ![r] = output]
    /\ At(kind[r].at, "save_messages", r, r)
    /\ Meet(kind[r].at, r)

\* A variant that must fail: the answer goes out first.
AnswerEarly(r, output) ==
    /\ pc[r] = "calling" /\ ~kind[r].stream /\ Free(kind[r].at)
    /\ made' = [made EXCEPT ![r] = output]
    /\ out' = [out EXCEPT ![r] = output]
    /\ pc' = [pc EXCEPT ![r] = "over"]
    /\ IF kind[r].store THEN SaveObject(r, output) ELSE UNCHANGED <<obj, op, torn>>
    /\ UNCHANGED <<kind, stream, history, msgs, index, crashes, deleted, overwritten>>

\* A plain answer: it is sent when the whole save is done (Return), at once when
\* it is not to be stored.
Answer(r, output) ==
    /\ pc[r] = "calling" /\ ~kind[r].stream /\ Free(kind[r].at)
    /\ made' = [made EXCEPT ![r] = output]
    /\ \/ /\ kind[r].store
          /\ pc' = [pc EXCEPT ![r] = "saving"]
          /\ SaveObject(r, output)
          /\ UNCHANGED out
       \/ /\ ~kind[r].store
          /\ pc' = [pc EXCEPT ![r] = "over"]
          /\ out' = [out EXCEPT ![r] = output]
          /\ UNCHANGED <<obj, op, torn>>
    /\ UNCHANGED <<kind, stream, history, msgs, index, crashes, deleted, overwritten>>

\* The chat handler hands out a stream.
StreamBegins(r) ==
    /\ pc[r] = "calling" /\ kind[r].stream /\ Free(kind[r].at)
    /\ pc' = [pc EXCEPT ![r] = "streaming"]
    /\ stream' = [stream EXCEPT ![r] = Start]
    /\ UNCHANGED <<kind, made, out, history, op, storeVars, crashes, ghostVars>>

Shape(output) == [n \in DOMAIN output |-> output[n].kind]

\* Fragments are told apart by how many came before.
Fragment(r) ==
    Cardinality({e \in DOMAIN stream[r].log : stream[r].log[e].type \in {"text", "args"}})

\* A delta; what else the chat stream carries (errors, warnings of the guard,
\* usage) is passed over.  Indices of calls only tell them apart: here they are
\* numbered as they come.
Delta(r) ==
    /\ pc[r] = "streaming" /\ Free(kind[r].at)
    /\ Len(stream[r].log) < MaxEvents
    /\ stream' = [stream EXCEPT ![r] = TextDelta(@, Fragment(r))]
       \/ \E i \in 1..MaxCalls, args \in {<< >>, <<Fragment(r)>>} :
             /\ i <= Len(stream[r].calls) + 1
             /\ stream' = [stream EXCEPT ![r] = CallDelta(@, i, args)]
    /\ UNCHANGED <<pc, kind, made, out, history, op, storeVars, crashes, ghostVars>>

\* The chat stream ends, however it does: the message item is closed,
StreamEnds(r) ==
    /\ pc[r] = "streaming" /\ Free(kind[r].at)
    /\ pc' = [pc EXCEPT ![r] = "closing"]
    /\ stream' = [stream EXCEPT ![r] = CloseText(@)]
    /\ UNCHANGED <<kind, made, out, history, op, storeVars, crashes, ghostVars>>

\* then each call in their order,
EndCall(r) ==
    /\ pc[r] = "closing" /\ Free(kind[r].at)
    /\ stream[r].closed < Len(stream[r].calls)
    /\ stream' = [stream EXCEPT ![r] = CloseCall(@)]
    /\ UNCHANGED <<pc, kind, made, out, history, op, storeVars, crashes, ghostVars>>

\* and the response is reported, with the final marker.
Report(r) ==
    /\ pc[r] = "closing" /\ Free(kind[r].at)
    /\ stream[r].closed = Len(stream[r].calls)
    /\ pc' = [pc EXCEPT ![r] = "completed"]
    /\ stream' = [stream EXCEPT ![r] = Complete(@)]
    /\ made' = [made EXCEPT ![r] = Shape(stream[r].output)]
    /\ out' = [out EXCEPT ![r] = Shape(stream[r].output)]
    /\ UNCHANGED <<kind, history, op, storeVars, crashes, ghostVars>>

\* Once the final marker is sent, on_complete.
Persist(r) ==
    /\ pc[r] = "completed" /\ Free(kind[r].at)
    /\ stream' = [stream EXCEPT ![r] = None]
    /\ IF kind[r].store
       THEN pc' = [pc EXCEPT ![r] = "saving"] /\ SaveObject(r, made[r])
       ELSE pc' = [pc EXCEPT ![r] = "over"] /\ UNCHANGED <<obj, op, torn>>
    /\ UNCHANGED <<kind, made, out, history, msgs, index, crashes, deleted, overwritten>>

\* A variant that must fail: what there is is saved all the same.
DisconnectSaving(r) ==
    /\ pc[r] \in {"streaming", "closing", "completed"} /\ Free(kind[r].at)
    /\ pc' = [pc EXCEPT ![r] = "gone"]
    /\ stream' = [stream EXCEPT ![r] = None]
    /\ made' = [made EXCEPT ![r] = Shape(stream[r].output)]
    /\ SaveObject(r, Shape(stream[r].output))
    /\ UNCHANGED <<kind, out, history, msgs, index, crashes, deleted, overwritten>>

\* The client goes away: the translation is closed where it is, before
\* on_complete too.
Disconnect(r) ==
    /\ pc[r] \in {"streaming", "closing", "completed"} /\ Free(kind[r].at)
    /\ pc' = [pc EXCEPT ![r] = "gone"]
    /\ stream' = [stream EXCEPT ![r] = None]
    /\ UNCHANGED <<kind, made, out, history, op, storeVars, crashes, ghostVars>>

-----------------------------------------------------------------------------
(* The store's methods, a command at a time *)

SaveMessages(p) ==
    /\ op[p].do = "save_messages"
    /\ msgs' = msgs \cup {op[p].id}
    /\ At(p, "append", op[p].id, op[p].for)
    /\ UNCHANGED <<sessionVars, obj, index, crashes, ghostVars>>

\* The client knows the id since the response was created.  A delete that
\* finds nothing does nothing.
Delete(r, p) ==
    /\ Free(p) /\ obj[r] # None
    /\ deleted' = deleted \cup {r}
    /\ At(p, "delete_object", r, NoId)
    /\ Meet(p, r)
    /\ UNCHANGED <<sessionVars, storeVars, crashes, overwritten>>

DeleteObject(p) ==
    /\ op[p].do = "delete_object"
    /\ obj' = [obj EXCEPT ![op[p].id] = None]
    /\ At(p, "delete_messages", op[p].id, NoId)
    /\ UNCHANGED <<sessionVars, msgs, index, crashes, ghostVars>>

\* A variant that must fail: the messages are left behind.
DeleteMessagesNot(p) ==
    /\ op[p].do = "delete_messages"
    /\ At(p, "remove", op[p].id, NoId)
    /\ UNCHANGED <<sessionVars, obj, msgs, index, crashes, ghostVars>>

DeleteMessages(p) ==
    /\ op[p].do = "delete_messages"
    /\ msgs' = msgs \ {op[p].id}
    /\ At(p, "remove", op[p].id, NoId)
    /\ UNCHANGED <<sessionVars, obj, index, crashes, ghostVars>>

\* A variant that must fail: the list is cut off at the id.
WithoutFrom(ids, id) == SubSeq(ids, 1, (CHOOSE n \in 0..Len(ids) : ids[n + 1] = id))

\* The index holds an id once (TypeOK), and the id removed is one of it.
Without(ids, id) == RemoveAt(ids, CHOOSE n \in DOMAIN ids : ids[n] = id)

\* A variant that must fail: removing is appending.
UpdatedAppending(do, ids, id) == Append(ids, id)

\* The index with the id appended or removed.
Updated(do, ids, id) ==
    CASE do = "append_write" -> Append(ids, id)
      [] do = "remove_write" -> Without(ids, id)

\* r waits for the method that p is in.
Awaits(r, p) == r = op[p].for /\ pc[r] = "saving"

\* The method has returned; a request that was waiting for it is answered (the
\* client of a stream has been told before).
Return(p) ==
    /\ op' = [op EXCEPT ![p] = Idle]
    /\ pc' = [r \in Ids |-> IF Awaits(r, p) THEN "over" ELSE pc[r]]
    /\ out' = [r \in Ids |-> IF Awaits(r, p) THEN made[r] ELSE out[r]]

\* The index is read; when it need not change the method ends here.
ReadIndex(p) ==
    /\ op[p].do \in {"append", "remove"}
    /\ IF op[p].do = "append" <=> Contains(index, op[p].id)
       THEN Return(p)
       ELSE /\ op' = [op EXCEPT ![p].do = IF @ = "append" THEN "append_write" ELSE "remove_write",
                                ![p].ids = index]
            /\ UNCHANGED <<pc, out>>
    /\ UNCHANGED <<kind, stream, made, history, storeVars, crashes, ghostVars>>

\* And written back.
WriteIndex(p) ==
    /\ op[p].do \in {"append_write", "remove_write"}
    /\ index' = Updated(op[p].do, op[p].ids, op[p].id)
    /\ overwritten' = (overwritten \/ index # op[p].ids)
    /\ Return(p)
    /\ UNCHANGED <<kind, stream, made, history, obj, msgs, crashes, deleted, torn>>

\* Requests whose handler runs in p.
Handled(p) ==
    {r \in Ids : pc[r] \notin {"new", "over", "refused", "gone"} /\ kind[r].at = p}

\* A process ends, with all it was doing.
Crash(p) ==
    /\ crashes < MaxCrashes
    /\ crashes' = crashes + 1
    /\ torn' = torn \cup ({op[p].id} \ {NoId})
    /\ op' = [op EXCEPT ![p] = Idle]
    /\ pc' = [r \in Ids |-> IF r \in Handled(p) THEN "gone" ELSE pc[r]]
    /\ stream' = [r \in Ids |-> IF r \in Handled(p) THEN None ELSE stream[r]]
    /\ UNCHANGED <<kind, made, out, history, storeVars, deleted, overwritten>>

-----------------------------------------------------------------------------
(* Specification *)

Init ==
    /\ pc = [r \in Ids |-> "new"]
    /\ kind = [r \in Ids |-> None]
    /\ stream = [r \in Ids |-> None]
    /\ made = [r \in Ids |-> None]
    /\ out = [r \in Ids |-> None]
    /\ history = [r \in Ids |-> "none"]
    /\ op = [p \in Processes |-> Idle]
    /\ obj = [r \in Ids |-> None]
    /\ msgs = {} /\ index = << >> /\ crashes = 0
    /\ deleted = {} /\ torn = {} /\ overwritten = FALSE

\* The items of plain answers: a text or none, then tool calls.
PlainOutputs ==
    {<< >>, <<"message">>, <<"message", "call">>}

\* The handler of r goes on.
Handle(r) ==
    \/ Refused(r)
    \/ \E output \in PlainOutputs : Answer(r, output)
    \/ StreamBegins(r)
    \/ Delta(r)
    \/ StreamEnds(r)
    \/ EndCall(r)
    \/ Report(r)
    \/ Persist(r)

\* The store method that p is in goes on.
Command(p) ==
    \/ ChainOutput(p)
    \/ SaveMessages(p)
    \/ DeleteObject(p)
    \/ DeleteMessages(p)
    \/ ReadIndex(p)
    \/ WriteIndex(p)

Next ==
    \/ \E r \in Ids : \/ \E k \in Kinds[r] : Arrive(r, k)
                      \/ Handle(r)
                      \/ Disconnect(r)
                      \/ \E p \in Processes : Delete(r, p)
    \/ \E p \in Processes : Command(p) \/ Crash(p)

Spec == Init /\ [][Next]_vars

-----------------------------------------------------------------------------
(* Properties *)

Stages ==
    {"new", "chaining", "calling", "streaming", "closing", "completed", "saving", "over",
     "refused", "gone"}

\* The next command of a store method, the response it is about, the request
\* it is run for, and the index as it was read.
OpType ==
    [do : {"idle", "chain", "save_messages", "append", "append_write",
           "delete_object", "delete_messages", "remove", "remove_write"},
     id : Ids \cup {NoId}, for : Ids \cup {NoId}, ids : Seq(Ids)]

\* Commands, ids and stages have their types, and the index has an id once.
TypeOK ==
    /\ pc \in [Ids -> Stages]
    /\ kind \in [Ids -> KindType \cup {None}]
    /\ made \in [Ids -> Outputs \cup {None}]
    /\ out \in [Ids -> Outputs \cup {None}] /\ obj \in [Ids -> Outputs \cup {None}]
    /\ history \in [Ids -> {"none", "messages", "no_messages", "nothing", "half", "whole"}]
    /\ op \in [Processes -> OpType]
    /\ msgs \subseteq Ids /\ index \in Seq(Ids) /\ IsInjective(index)
    /\ crashes \in 0..MaxCrashes
    /\ deleted \subseteq Ids /\ torn \subseteq Ids /\ overwritten \in BOOLEAN

Streams == {stream[r] : r \in {s \in Ids : stream[s] # None}}

\* In whatever order text and tool calls come, every item that is begun is
\* ended once, and nothing is said of it before or after; events carry
\* consecutive numbers, and items distinct indices.
WellBracketed == \A t \in Streams : Bracketed(t) /\ Numbered(t)

\* What a stream reports at its end is what it has sent bit by bit: of a call the
\* arguments its own deltas brought, of a message all the text of the stream so
\* far, of the response the items that were done.
EndsFaithful == \A t \in Streams : Faithful(t)

\* A plain answer whose save is not over yet, or was cut off by a crash: stored,
\* and its client not told.
Unsent(r) ==
    /\ ~kind[r].stream /\ out[r] = None
    /\ pc[r] = "saving" \/ (pc[r] = "gone" /\ r \in torn)

\* Stored is the whole output of a handler, exactly as its client was told it,
\* or will be unless a crash comes between the save and a plain answer: nothing
\* of a request that was refused, broken off before its end or not to be stored.
StoredAsSent ==
    \A r \in Ids : obj[r] # None =>
        /\ obj[r] = made[r] /\ kind[r].store
        /\ pc[r] \in {"saving", "over", "gone"}
        /\ out[r] = obj[r] \/ Unsent(r)

\* A response whose handler is through can be read and continued, whatever
\* other processes save, delete or crash at, until it is deleted.
Durable ==
    \A r \in Ids : pc[r] = "over" /\ kind[r].store /\ r \notin deleted =>
        obj[r] = out[r] /\ r \in msgs

\* A stored response is listed, unless a crash or another process met its save
\* or delete, or an index was written over one its writer had not read.
Listed ==
    ~overwritten =>
        \A r \in Ids \ torn : obj[r] # None /\ (\A p \in Processes : op[p].id # r)
            => Contains(index, r)

\* A continued conversation has the messages and the output of the response
\* before, or neither, unless two processes were at it or one crashed at it.
HistoryWhole == \A r \in Ids : history[r] = "half" => kind[r].prev \in torn
=============================================================================
