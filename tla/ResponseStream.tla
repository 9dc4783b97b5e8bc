--------------------------- MODULE ResponseStream ---------------------------
(***************************************************************************)
(* The translation of a chat stream into the events of the Responses API   *)
(* (app/responses_api.py, translate_chat_stream_to_responses): the state   *)
(* of one translation, and what each delta of the chat stream and its end  *)
(* do to it.                                                               *)
(*                                                                         *)
(* Texts and arguments are sequences of the fragments they were received   *)
(* in.  Names and call ids of tools are data and left out.                 *)
(* response.created carries no number in the code; here it has number 0.   *)
(***************************************************************************)
EXTENDS Integers, SequencesExt

\* index: where the next item goes.  open: the message item being written, 0
\* for none.  said: the text so far.  calls: the tool calls in the order they
\* came.  closed: how many of them are finished.  output: the finished items.
\* log: the events sent.
Start ==
    [seq |-> 0, index |-> 0, open |-> 0, said |-> << >>, calls |-> << >>, closed |-> 0,
     output |-> << >>,
     log |-> <<[type |-> "created", seq |-> 0, index |-> 0, id |-> 0, body |-> << >>]>>]

\* A fresh item id.
NewId(t) == Len(t.log)

Emit(t, type, index, id, body) ==
    [t EXCEPT !.seq = @ + 1,
              !.log = Append(@, [type |-> type, seq |-> t.seq + 1, index |-> index,
                                 id |-> id, body |-> body])]

Item(kind, body) == [kind |-> kind, body |-> body]

-----------------------------------------------------------------------------

\* A variant that must fail: the item stays open.
CloseTextTwice(t) ==
    IF t.open = 0 THEN t
    ELSE [Emit(t, "done", t.index, t.open, t.said) EXCEPT
              !.output = Append(@, Item("message", t.said))]

\* The message item is done, with all the text there has been so far.
CloseText(t) ==
    IF t.open = 0 THEN t
    ELSE [Emit(t, "done", t.index, t.open, t.said) EXCEPT
              !.output = Append(@, Item("message", t.said)),
              !.open = 0]

OpenText(t) ==
    IF t.open # 0 THEN t
    ELSE [Emit(t, "added", t.index, NewId(t), << >>) EXCEPT !.open = NewId(t)]

\* A fragment of text.
TextDelta(t, x) ==
    LET o == OpenText(t) IN
       Emit([o EXCEPT !.said = Append(@, x)], "text", o.index, o.open, <<x>>)

\* The first delta of tool call i ends the message item.
OpenCall(t, i) ==
    LET c == CloseText(t)
        at == IF t.open = 0 THEN t.index ELSE t.index + 1
    IN [Emit(c, "added", at, NewId(c), << >>) EXCEPT
            !.calls = Append(@, [tool |-> i, index |-> at, id |-> NewId(c), args |-> << >>]),
            !.index = at + 1]

Known(t, i) == \E n \in DOMAIN t.calls : t.calls[n].tool = i

\* A variant that must fail: a fragment replaces the ones before it.
AddArgumentsLast(call, args) == [call EXCEPT !.args = args]

AddArguments(call, args) == [call EXCEPT !.args = @ \o args]

\* A delta of tool call i, with a fragment of its arguments or without.
CallDelta(t, i, args) ==
    LET k == IF Known(t, i) THEN t ELSE OpenCall(t, i)
        n == CHOOSE m \in DOMAIN k.calls : k.calls[m].tool = i
    IN IF args = << >> THEN k
       ELSE Emit([k EXCEPT !.calls[n] = AddArguments(@, args)],
                 "args", k.calls[n].index, k.calls[n].id, args)

\* The chat stream is over, and the message item closed: the next call is.
CloseCall(t) ==
    LET call == t.calls[t.closed + 1]
    IN [Emit(Emit(t, "args_done", call.index, call.id, call.args),
             "done", call.index, call.id, call.args) EXCEPT
           !.output = Append(@, Item("call", call.args)),
           !.closed = @ + 1]

\* Everything is closed: the whole is reported.
Complete(t) == Emit(t, "completed", 0, 0, t.output)

-----------------------------------------------------------------------------
(* Properties of a translation *)

Completed(t) == Last(t.log).type = "completed"

\* The events of one item, and its life.
Of(t, id, types) == {e \in DOMAIN t.log : t.log[e].id = id /\ t.log[e].type \in types}

\* What is said of an item is said between its beginning and its end; it has
\* one of each, the end at the latest before the response is completed.
Bracketed(t) ==
    \A e \in DOMAIN t.log : t.log[e].id # 0 =>
        LET id == t.log[e].id
            begin == Of(t, id, {"added"})
            end == Of(t, id, {"done"})
        IN /\ \E b \in begin : b <= e /\ begin = {b}
           /\ \A d \in end : e <= d
           /\ Completed(t) => end # {}

\* Events are numbered without a gap, and no two items have one index.
Numbered(t) ==
    /\ \A e \in DOMAIN t.log : t.log[e].seq = e - 1
    /\ \A d, e \in DOMAIN t.log :
          /\ t.log[d].type = "added" /\ t.log[e].type = "added" /\ d < e
          => t.log[d].index < t.log[e].index
    /\ \A d, e \in DOMAIN t.log :
          t.log[d].id = t.log[e].id /\ t.log[d].id # 0 => t.log[d].index = t.log[e].index

\* The fragments an item's deltas brought, in their order.
Received(log, id) ==
    FlattenSeq([e \in DOMAIN log |->
        IF log[e].id = id /\ log[e].type \in {"text", "args"} THEN log[e].body ELSE << >>])

\* The bodies of the items that are done, in their order.
DoneBodies(log) ==
    FlattenSeq([e \in DOMAIN log |->
        IF log[e].type = "done" THEN <<log[e].body>> ELSE << >>])

Bodies(items) == [n \in DOMAIN items |-> items[n].body]

\* The text of all messages that the first n events brought, in its order.
TextUpTo(log, n) ==
    FlattenSeq([e \in 1..n |-> IF log[e].type = "text" THEN log[e].body ELSE << >>])

\* The item is a call whose arguments are done.
Called(log, id) == \E e \in DOMAIN log : log[e].id = id /\ log[e].type = "args_done"

\* A call is done with the arguments its own deltas brought.  A message is done
\* with all the text the stream has brought so far, that of the messages before
\* it too: text_accumulated is never reset.  The response holds exactly the
\* items that were done, with the bodies they were done with.
Faithful(t) ==
    /\ \A e \in DOMAIN t.log :
          LET id == t.log[e].id IN
          /\ t.log[e].type = "args_done" => t.log[e].body = Received(t.log, id)
          /\ t.log[e].type = "done" =>
                t.log[e].body = IF Called(t.log, id) THEN Received(t.log, id)
                                ELSE TextUpTo(t.log, e)
    /\ Completed(t) => Bodies(Last(t.log).body) = DoneBodies(t.log)
=============================================================================
