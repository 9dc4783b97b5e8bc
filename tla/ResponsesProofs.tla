-------------------------- MODULE ResponsesProofs --------------------------
(***************************************************************************)
(* Proofs about Responses: what each delta does to a translation, and what *)
(* several processes do to the store.                                      *)
(***************************************************************************)
EXTENDS Responses, SequenceTheorems, FiniteSetTheorems, WellFoundedInduction, TLAPS

-----------------------------------------------------------------------------
(* The translation of a stream *)

EventTypes ==
    {"created", "added", "text", "args", "args_done", "done", "completed"}

ItemType == [kind : {"message", "call"}, body : Seq(Nat)]

EventType ==
    [type : EventTypes, seq : Nat, index : Nat, id : Nat, body : Seq(Nat) \cup Seq(ItemType)]

CallType == [tool : Nat, index : Nat, id : Nat, args : Seq(Nat)]

TranslationType ==
    [seq : Nat, index : Nat, open : Nat, said : Seq(Nat), calls : Seq(CallType), closed : Nat,
     output : Seq(ItemType), log : Seq(EventType)]

\* An item's id is one less than the place of the event that begins it.
Begun(log, id) == id # 0 /\ id + 1 \in DOMAIN log /\ log[id + 1].type = "added"

Ended(log, id) == \E d \in DOMAIN log : log[d].type = "done" /\ log[d].id = id

\* What holds of the events sent, wherever the translation is.
Ordered(log) ==
    /\ \A e \in DOMAIN log : log[e].seq = e - 1
    /\ \A e \in DOMAIN log : log[e].type = "added" => log[e].id = e - 1 /\ log[e].id # 0
    /\ \A e \in DOMAIN log : log[e].id # 0 =>
          log[e].id < e /\ Begun(log, log[e].id) /\ log[e].index = log[log[e].id + 1].index
    /\ \A e \in DOMAIN log : log[e].type = "done" => log[e].id # 0
    /\ \A d, e \in DOMAIN log : log[d].type = "done" /\ log[d].id = log[e].id => e <= d
    /\ \A d, e \in DOMAIN log : log[d].type = "added" /\ log[e].type = "added" /\ d < e
          => log[d].index < log[e].index

\* The items that are begun and not ended are the ones the translation holds
\* open: the message, and the calls it has not closed.
Accounted(t) ==
    /\ t.log # << >> /\ t.seq = Len(t.log) - 1
    /\ t.closed <= Len(t.calls)
    /\ t.open # 0 => /\ Begun(t.log, t.open) /\ ~Ended(t.log, t.open)
                     /\ t.log[t.open + 1].index = t.index
    /\ \A n \in DOMAIN t.calls :
          /\ Begun(t.log, t.calls[n].id)
          /\ t.log[t.calls[n].id + 1].index = t.calls[n].index
          /\ n > t.closed => ~Ended(t.log, t.calls[n].id)
          /\ t.calls[n].id # t.open
    /\ \A m, n \in DOMAIN t.calls : t.calls[m].id = t.calls[n].id => m = n
    /\ \A id \in Nat : Begun(t.log, id) =>
          \/ Ended(t.log, id)
          \/ id = t.open
          \/ \E n \in DOMAIN t.calls : n > t.closed /\ t.calls[n].id = id

Sound(t) == t \in TranslationType /\ Ordered(t.log) /\ Accounted(t)

\* Where the next item goes when no message is open.
Place(t) == IF t.open = 0 THEN t.index ELSE t.index + 1

\* While deltas come, no call is closed and the next index is a fresh one.
Flowing(t) ==
    /\ Sound(t) /\ ~Completed(t) /\ t.closed = 0
    /\ \A e \in DOMAIN t.log : t.log[e].type = "added" => t.log[e].index < Place(t)

\* An event that may follow: of no item, of a new one, or of one not ended.
Fits(log, ev) ==
    \/ ev.id = 0 /\ ev.type \notin {"added", "done"}
    \/ /\ ev.type = "added" /\ ev.id = Len(log) /\ ev.id # 0
       /\ \A e \in DOMAIN log : log[e].type = "added" => log[e].index < ev.index
    \/ /\ ev.type # "added" /\ Begun(log, ev.id) /\ ~Ended(log, ev.id)
       /\ ev.index = log[ev.id + 1].index

LEMMA Appended ==
    ASSUME NEW log \in Seq(EventType), NEW ev \in EventType
    PROVE  /\ Append(log, ev) \in Seq(EventType)
           /\ Len(Append(log, ev)) = Len(log) + 1 /\ Len(log) \in Nat
           /\ DOMAIN log = 1..Len(log) /\ DOMAIN Append(log, ev) = 1..(Len(log) + 1)
           /\ \A e \in 1..Len(log) : Append(log, ev)[e] = log[e]
           /\ Append(log, ev)[Len(log) + 1] = ev
<1>1. Append(log, ev) \in Seq(EventType) /\ Len(Append(log, ev)) = Len(log) + 1 /\ Len(log) \in Nat
  OBVIOUS
<1>2. DOMAIN log = 1..Len(log) /\ DOMAIN Append(log, ev) = 1..(Len(log) + 1)
  OBVIOUS
<1>3. \A e \in 1..Len(log) : Append(log, ev)[e] = log[e]
  OBVIOUS
<1>4. Append(log, ev)[Len(log) + 1] = ev
  OBVIOUS
<1> QED
  BY <1>1, <1>2, <1>3, <1>4

\* L is log and one event more.
Extends(L, log, ev) ==
    /\ Len(log) \in Nat /\ DOMAIN log = 1..Len(log) /\ DOMAIN L = 1..(Len(log) + 1)
    /\ \A e \in 1..Len(log) : L[e] = log[e]
    /\ L[Len(log) + 1] = ev

LEMMA Placing ==
    \A id, l \in Nat :
       /\ id + 1 \in 1..l \/ id = l \/ id > l
       /\ id > l => id + 1 \notin 1..l /\ id + 1 \notin 1..(l + 1) /\ id # l
OBVIOUS

\* What is begun or ended after one more event.
LEMMA AppendedItems ==
    ASSUME NEW log, NEW L, NEW ev, Extends(L, log, ev), NEW id \in Nat
    PROVE  /\ Begun(L, id) <=> Begun(log, id) \/ (id # 0 /\ id = Len(log) /\ ev.type = "added")
           /\ Ended(L, id) <=> Ended(log, id) \/ (ev.type = "done" /\ ev.id = id)
<1>1. /\ Len(log) \in Nat /\ DOMAIN log = 1..Len(log) /\ DOMAIN L = 1..(Len(log) + 1)
      /\ \A e \in 1..Len(log) : L[e] = log[e]
      /\ L[Len(log) + 1] = ev
  BY DEF Extends
<1>2. Begun(L, id) <=> Begun(log, id) \/ (id # 0 /\ id = Len(log) /\ ev.type = "added")
  <2>1. CASE id + 1 \in 1..Len(log)
    <3>1. L[id + 1] = log[id + 1]
      BY <1>1, <2>1
    <3>2. id + 1 \in DOMAIN L
      BY <1>1, <2>1
    <3>3. id + 1 \in DOMAIN log
      BY <1>1, <2>1
    <3>4. id # Len(log)
      BY <2>1
    <3> QED
      BY <3>1, <3>2, <3>3, <3>4 DEF Begun
  <2>2. CASE id = Len(log)
    <3>1. L[id + 1] = ev /\ id + 1 \in DOMAIN L /\ id + 1 \notin DOMAIN log
      BY <1>1, <2>2
    <3> QED
      BY <2>2, <3>1 DEF Begun
  <2>3. CASE id > Len(log)
    <3>1. id + 1 \notin DOMAIN L /\ id + 1 \notin DOMAIN log /\ id # Len(log)
      BY <1>1, <2>3, Placing, Zenon
    <3> QED
      BY <3>1 DEF Begun
  <2>4. id + 1 \in 1..Len(log) \/ id = Len(log) \/ id > Len(log)
    BY <1>1, Placing
  <2> QED
    BY <2>1, <2>2, <2>3, <2>4
<1>3. Ended(L, id) <=> Ended(log, id) \/ (ev.type = "done" /\ ev.id = id)
  BY <1>1 DEF Ended
<1> QED
  BY <1>2, <1>3

\* Events that fit keep the order.
LEMMA OrderedAppend ==
    ASSUME NEW log \in Seq(EventType), NEW ev \in EventType,
           Ordered(log), ev.seq = Len(log), Fits(log, ev)
    PROVE  Ordered(Append(log, ev))
<1> DEFINE L == Append(log, ev)
<1>1. /\ Len(log) \in Nat /\ DOMAIN log = 1..Len(log) /\ DOMAIN L = 1..(Len(log) + 1)
      /\ \A e \in 1..Len(log) : L[e] = log[e]
      /\ L[Len(log) + 1] = ev
  BY Appended
<1>2. \A id \in Nat : Begun(log, id) => Begun(L, id)
  <2> HIDE DEF L
  <2>1. Extends(L, log, ev)
    BY <1>1 DEF Extends
  <2> QED
    BY <2>1, AppendedItems
<1>3. ev.id \in Nat /\ ev.index \in Nat /\ \A e \in 1..Len(log) : log[e].id \in Nat /\ log[e].index \in Nat
  <2>1. \A e \in 1..Len(log) : log[e] \in EventType
    BY <1>1
  <2> QED
    BY <2>1 DEF EventType
<1> HIDE DEF L
<1>4. \A e \in DOMAIN L : L[e].seq = e - 1
  BY <1>1 DEF Ordered
<1>5. \A e \in DOMAIN L : L[e].type = "added" => L[e].id = e - 1 /\ L[e].id # 0
  BY <1>1 DEF Ordered, Fits
<1>6. \A e \in DOMAIN L : L[e].id # 0 =>
         L[e].id < e /\ Begun(L, L[e].id) /\ L[e].index = L[L[e].id + 1].index
  <2>1. ASSUME NEW e \in 1..Len(log), log[e].id # 0
        PROVE  L[e].id < e /\ Begun(L, L[e].id) /\ L[e].index = L[L[e].id + 1].index
    <3>1. L[e] = log[e] /\ log[e].id \in Nat
      BY <1>1, <1>3
    <3>2. log[e].id < e /\ Begun(log, log[e].id) /\ log[e].index = log[log[e].id + 1].index
      BY <1>1, <2>1 DEF Ordered
    <3>3. L[log[e].id + 1] = log[log[e].id + 1]
      BY <1>1, <3>2 DEF Begun
    <3> QED
      BY <1>2, <3>1, <3>2, <3>3
  <2>2. ASSUME ev.id # 0, ev.type = "added"
        PROVE  ev.id < Len(log) + 1 /\ Begun(L, ev.id) /\ ev.index = L[ev.id + 1].index
    BY <1>1, <2>2 DEF Fits, Begun
  <2>3. ASSUME ev.id # 0, ev.type # "added"
        PROVE  ev.id < Len(log) + 1 /\ Begun(L, ev.id) /\ ev.index = L[ev.id + 1].index
    BY <1>1, <1>2, <1>3, <2>3 DEF Fits, Begun
  <2> QED
    BY <1>1, <2>1, <2>2, <2>3
<1>7. ASSUME NEW d \in DOMAIN L, NEW e \in DOMAIN L, L[d].type = "done", L[d].id = L[e].id
      PROVE  e <= d
  <2>1. CASE d \in 1..Len(log) /\ e \in 1..Len(log)
    BY <1>1, <1>7, <2>1 DEF Ordered
  <2>2. CASE d = Len(log) + 1
    BY <1>1, <2>2
  <2>3. CASE d \in 1..Len(log) /\ e = Len(log) + 1
    <3>1. Ended(log, ev.id) /\ log[d].id = ev.id
      BY <1>1, <1>7, <2>3 DEF Ended
    <3>2. log[d].id # 0 /\ log[d].id < Len(log)
      BY <1>1, <1>3, <1>7, <2>3 DEF Ordered
    <3> QED
      BY <1>1, <3>1, <3>2 DEF Fits
  <2> QED
    BY <1>1, <2>1, <2>2, <2>3
<1>8. ASSUME NEW d \in DOMAIN L, NEW e \in DOMAIN L, L[d].type = "added", L[e].type = "added", d < e
      PROVE  L[d].index < L[e].index
  <2>1. CASE e \in 1..Len(log)
    BY <1>1, <1>8, <2>1 DEF Ordered
  <2>2. CASE e = Len(log) + 1
    <3>1. d \in 1..Len(log) /\ log[d].type = "added" /\ L[d] = log[d] /\ L[e] = ev
      BY <1>1, <1>8, <2>2
    <3> QED
      BY <1>8, <3>1 DEF Fits
  <2> QED
    BY <1>1, <2>1, <2>2
<1>9. \A e \in DOMAIN L : L[e].type = "done" => L[e].id # 0
  BY <1>1 DEF Ordered, Fits, Begun
<1> QED
  BY <1>4, <1>5, <1>6, <1>7, <1>8, <1>9 DEF Ordered, L

\* u is t after one more event ev, which is of that type, place and item.
Sent(t, u, ev, type, at, id) ==
    /\ ev.seq = Len(t.log) /\ ev.type = type /\ ev.index = at /\ ev.id = id
    /\ u.log = Append(t.log, ev) /\ u.seq = Len(t.log)
    /\ u.index = t.index /\ u.open = t.open /\ u.said = t.said /\ u.calls = t.calls
    /\ u.closed = t.closed /\ u.output = t.output
    /\ t.log \in Seq(EventType) /\ u.log \in Seq(EventType) /\ u.log # << >>
    /\ Len(t.log) \in Nat /\ Len(u.log) = Len(t.log) + 1
    /\ DOMAIN t.log = 1..Len(t.log) /\ DOMAIN u.log = 1..(Len(t.log) + 1)
    /\ \A e \in 1..Len(t.log) : u.log[e] = t.log[e]
    /\ u.log[Len(t.log) + 1] = ev
    /\ \A i \in Nat : Begun(u.log, i) <=>
          Begun(t.log, i) \/ (i # 0 /\ i = Len(t.log) /\ type = "added")
    /\ \A i \in Nat : Ended(u.log, i) <=> Ended(t.log, i) \/ (type = "done" /\ id = i)

LEMMA Emitted ==
    ASSUME NEW t \in TranslationType, t.seq = Len(t.log) - 1,
           NEW type \in EventTypes, NEW at \in Nat, NEW id \in Nat,
           NEW body \in Seq(Nat) \cup Seq(ItemType),
           NEW u, u = Emit(t, type, at, id, body)
    PROVE  u \in TranslationType /\ \E ev \in EventType : Sent(t, u, ev, type, at, id)
<1>1. t.log \in Seq(EventType) /\ Len(t.log) \in Nat /\ t.seq + 1 = Len(t.log)
  BY DEF TranslationType
<1>2. PICK ev \in EventType :
         /\ ev = [type |-> type, seq |-> Len(t.log), index |-> at, id |-> id, body |-> body]
         /\ ev.seq = Len(t.log) /\ ev.type = type /\ ev.index = at /\ ev.id = id
  <2>1. [type |-> type, seq |-> Len(t.log), index |-> at, id |-> id, body |-> body] \in EventType
    BY <1>1 DEF EventType
  <2> QED
    BY <2>1
<1>3. u = [t EXCEPT !.seq = Len(t.log), !.log = Append(t.log, ev)]
  BY <1>1, <1>2 DEF Emit
<1>4. Append(t.log, ev) \in Seq(EventType)
  BY <1>1, Appended
<1>5. u \in TranslationType
  <2>1. [t EXCEPT !.seq = Len(t.log), !.log = Append(t.log, ev)] \in TranslationType
    BY <1>1, <1>4 DEF TranslationType
  <2> QED
    BY <1>3, <2>1
<1>6. /\ u.log = Append(t.log, ev) /\ u.seq = Len(t.log)
      /\ u.index = t.index /\ u.open = t.open /\ u.said = t.said /\ u.calls = t.calls
      /\ u.closed = t.closed /\ u.output = t.output
  BY <1>3 DEF TranslationType
<1>7. /\ Len(u.log) = Len(t.log) + 1
      /\ DOMAIN t.log = 1..Len(t.log) /\ DOMAIN u.log = 1..(Len(t.log) + 1)
      /\ \A e \in 1..Len(t.log) : u.log[e] = t.log[e]
      /\ u.log[Len(t.log) + 1] = ev
  BY <1>1, <1>6, Appended
<1>8. u.log # << >>
  BY <1>1, <1>6
<1>9. ASSUME NEW i \in Nat
      PROVE  /\ Begun(u.log, i) <=> Begun(t.log, i) \/ (i # 0 /\ i = Len(t.log) /\ type = "added")
             /\ Ended(u.log, i) <=> Ended(t.log, i) \/ (type = "done" /\ id = i)
  <2>2. Extends(u.log, t.log, ev)
    BY <1>1, <1>7 DEF Extends
  <2>1. /\ Begun(u.log, i) <=> Begun(t.log, i) \/ (i # 0 /\ i = Len(t.log) /\ ev.type = "added")
        /\ Ended(u.log, i) <=> Ended(t.log, i) \/ (ev.type = "done" /\ ev.id = i)
    BY <2>2, AppendedItems
  <2> QED
    BY <1>2, <2>1
<1>10. Sent(t, u, ev, type, at, id)
  BY <1>1, <1>2, <1>4, <1>6, <1>7, <1>8, <1>9 DEF Sent
<1> QED
  BY <1>5, <1>10

LEMMA CallTyped ==
    ASSUME NEW t \in TranslationType
    PROVE  /\ t.seq \in Nat /\ t.index \in Nat /\ t.open \in Nat /\ t.closed \in Nat
           /\ t.said \in Seq(Nat) /\ t.output \in Seq(ItemType) /\ t.log \in Seq(EventType)
           /\ t.calls \in Seq(CallType) /\ Len(t.calls) \in Nat /\ DOMAIN t.calls = 1..Len(t.calls)
           /\ \A n \in DOMAIN t.calls :
                 /\ t.calls[n] \in CallType /\ t.calls[n].tool \in Nat /\ t.calls[n].index \in Nat
                 /\ t.calls[n].id \in Nat /\ t.calls[n].args \in Seq(Nat)
<1>1. /\ t.seq \in Nat /\ t.index \in Nat /\ t.open \in Nat /\ t.closed \in Nat
      /\ t.said \in Seq(Nat) /\ t.output \in Seq(ItemType) /\ t.log \in Seq(EventType)
      /\ t.calls \in Seq(CallType)
  BY DEF TranslationType
<1>2. Len(t.calls) \in Nat /\ DOMAIN t.calls = 1..Len(t.calls)
  BY <1>1
<1>3. \A n \in DOMAIN t.calls : t.calls[n] \in CallType
  BY <1>1
<1>4. \A n \in DOMAIN t.calls :
         /\ t.calls[n].tool \in Nat /\ t.calls[n].index \in Nat
         /\ t.calls[n].id \in Nat /\ t.calls[n].args \in Seq(Nat)
  BY <1>3 DEF CallType
<1> QED
  BY <1>1, <1>2, <1>3, <1>4

\* u is t, with more said of items that are not ended.
Said(t, u) ==
    /\ Sound(u) /\ ~Completed(u)
    /\ u.index = t.index /\ u.open = t.open /\ u.said = t.said /\ u.calls = t.calls
    /\ u.closed = t.closed /\ u.output = t.output
    /\ \A i \in Nat : Begun(u.log, i) <=> Begun(t.log, i)
    /\ \A i \in Nat : Ended(u.log, i) <=> Ended(t.log, i)
    /\ \A i \in Nat : Begun(t.log, i) => u.log[i + 1] = t.log[i + 1]
    /\ Flowing(t) => Flowing(u)

\* A fragment, or the arguments as a whole, of an item that is not ended.
LEMMA Speaks ==
    ASSUME NEW t, Sound(t), NEW type \in {"text", "args", "args_done"},
           NEW at \in Nat, NEW id \in Nat, NEW body \in Seq(Nat),
           Begun(t.log, id), ~Ended(t.log, id), t.log[id + 1].index = at,
           NEW u, u = Emit(t, type, at, id, body)
    PROVE  Said(t, u)
<1>1. t \in TranslationType /\ t.seq = Len(t.log) - 1 /\ Ordered(t.log) /\ Accounted(t)
  BY DEF Sound, Accounted
<1>2. type \in EventTypes /\ body \in Seq(Nat) \cup Seq(ItemType) /\ type \notin {"added", "done", "completed"}
  BY DEF EventTypes
<1>3. u \in TranslationType /\ \E ev \in EventType : Sent(t, u, ev, type, at, id)
  BY <1>1, <1>2, Emitted
<1>4. PICK ev \in EventType : Sent(t, u, ev, type, at, id)
  BY <1>3
<1>5. Ordered(u.log)
  <2>1. Fits(t.log, ev)
    BY <1>2, <1>4 DEF Fits, Sent
  <2> QED
    BY <1>1, <1>4, <2>1, OrderedAppend DEF Sent
<1>6. \A i \in Nat : Begun(t.log, i) => u.log[i + 1] = t.log[i + 1]
  BY <1>4 DEF Begun, Sent
<1>7. /\ \A i \in Nat : Begun(u.log, i) <=> Begun(t.log, i)
      /\ \A i \in Nat : Ended(u.log, i) <=> Ended(t.log, i)
      /\ u.index = t.index /\ u.open = t.open /\ u.said = t.said /\ u.calls = t.calls
      /\ u.closed = t.closed /\ u.output = t.output
      /\ u.log # << >> /\ u.seq = Len(u.log) - 1
  BY <1>2, <1>4 DEF Sent
<1>8. Accounted(u)
  <2>1. u.closed <= Len(u.calls)
    BY <1>1, <1>7 DEF Accounted
  <2>2. u.open # 0 => Begun(u.log, u.open) /\ ~Ended(u.log, u.open) /\ u.log[u.open + 1].index = u.index
    <3>1. t.open \in Nat
      BY <1>1, CallTyped
    <3>2. t.open # 0 => Begun(t.log, t.open) /\ ~Ended(t.log, t.open) /\ t.log[t.open + 1].index = t.index
      BY <1>1 DEF Accounted
    <3> QED
      BY <1>6, <1>7, <3>1, <3>2
  <2>3. ASSUME NEW n \in DOMAIN u.calls
        PROVE  /\ Begun(u.log, u.calls[n].id)
               /\ u.log[u.calls[n].id + 1].index = u.calls[n].index
               /\ n > u.closed => ~Ended(u.log, u.calls[n].id)
               /\ u.calls[n].id # u.open
    <3>1. n \in DOMAIN t.calls /\ t.calls[n].id \in Nat /\ u.calls[n] = t.calls[n]
      BY <1>1, <1>7, CallTyped
    <3>2. /\ Begun(t.log, t.calls[n].id) /\ t.log[t.calls[n].id + 1].index = t.calls[n].index
          /\ n > t.closed => ~Ended(t.log, t.calls[n].id)
          /\ t.calls[n].id # t.open
      BY <1>1, <3>1 DEF Accounted
    <3>3. /\ Begun(u.log, t.calls[n].id) /\ u.log[t.calls[n].id + 1] = t.log[t.calls[n].id + 1]
          /\ Ended(u.log, t.calls[n].id) <=> Ended(t.log, t.calls[n].id)
      BY <1>6, <1>7, <3>1, <3>2
    <3> QED
      BY <1>7, <3>1, <3>2, <3>3
  <2>4. \A m, n \in DOMAIN u.calls : u.calls[m].id = u.calls[n].id => m = n
    BY <1>1, <1>7 DEF Accounted
  <2>5. ASSUME NEW i \in Nat, Begun(u.log, i)
        PROVE  Ended(u.log, i) \/ i = u.open \/ \E n \in DOMAIN u.calls : n > u.closed /\ u.calls[n].id = i
    BY <1>1, <1>7, <2>5 DEF Accounted
  <2> QED
    BY <1>7, <2>1, <2>2, <2>3, <2>4, <2>5 DEF Accounted
<1>9. ~Completed(u)
  BY <1>2, <1>4 DEF Completed, Last, Sent
<1>10. Flowing(t) => Flowing(u)
  <2>1. \A e \in DOMAIN u.log : u.log[e].type = "added" => e \in DOMAIN t.log /\ t.log[e] = u.log[e]
    BY <1>2, <1>4 DEF Sent
  <2> QED
    BY <1>3, <1>5, <1>7, <1>8, <1>9, <2>1 DEF Flowing, Sound, Place
<1> QED
  BY <1>3, <1>5, <1>6, <1>7, <1>8, <1>9, <1>10 DEF Said, Sound

\* Ids of items are places of the log.
LEMMA Placed ==
    ASSUME NEW t, Sound(t)
    PROVE  /\ Len(t.log) \in Nat /\ Len(t.log) # 0
           /\ \A i \in Nat : Begun(t.log, i) => i < Len(t.log)
           /\ \A i \in Nat : Ended(t.log, i) => i < Len(t.log) /\ i # 0
<1>1. t.log \in Seq(EventType) /\ Ordered(t.log) /\ t.log # << >>
  BY DEF Sound, TranslationType, Accounted
<1>2. Len(t.log) \in Nat /\ DOMAIN t.log = 1..Len(t.log)
  BY <1>1
<1>3. Len(t.log) # 0
  BY <1>1
<1>4. \A i \in Nat : Begun(t.log, i) => i < Len(t.log)
  BY <1>2 DEF Begun
<1>5. \A i \in Nat : Ended(t.log, i) => i < Len(t.log) /\ i # 0
  BY <1>1, <1>2 DEF Ended, Ordered
<1> QED
  BY <1>2, <1>3, <1>4, <1>5

\* u is t after the event that begins an item at that place.
Opened(t, u, at) ==
    /\ u \in TranslationType /\ Ordered(u.log) /\ ~Completed(u)
    /\ u.log # << >> /\ u.seq = Len(u.log) - 1
    /\ u.index = t.index /\ u.open = t.open /\ u.said = t.said /\ u.calls = t.calls
    /\ u.closed = t.closed /\ u.output = t.output
    /\ \A i \in Nat : Begun(u.log, i) <=> Begun(t.log, i) \/ i = Len(t.log)
    /\ \A i \in Nat : Ended(u.log, i) <=> Ended(t.log, i)
    /\ \A i \in Nat : Begun(t.log, i) => u.log[i + 1] = t.log[i + 1]
    /\ u.log[Len(t.log) + 1].index = at
    /\ \A e \in DOMAIN u.log : u.log[e].type = "added" => u.log[e].index < at + 1

LEMMA Opens ==
    ASSUME NEW t, Sound(t), NEW at \in Nat,
           \A e \in DOMAIN t.log : t.log[e].type = "added" => t.log[e].index < at,
           NEW u, u = Emit(t, "added", at, NewId(t), << >>)
    PROVE  Opened(t, u, at)
<1>1. t \in TranslationType /\ t.seq = Len(t.log) - 1 /\ Ordered(t.log)
  BY DEF Sound, Accounted
<1>2. "added" \in EventTypes /\ << >> \in Seq(Nat) \cup Seq(ItemType)
  BY DEF EventTypes
<1>3. NewId(t) = Len(t.log) /\ Len(t.log) \in Nat /\ Len(t.log) # 0
  BY Placed DEF NewId
<1>4. u \in TranslationType /\ \E ev \in EventType : Sent(t, u, ev, "added", at, Len(t.log))
  BY <1>1, <1>2, <1>3, Emitted
<1>5. PICK ev \in EventType : Sent(t, u, ev, "added", at, Len(t.log))
  BY <1>4
<1>6. Ordered(u.log)
  <2>1. Fits(t.log, ev)
    BY <1>3, <1>5 DEF Fits, Sent
  <2> QED
    BY <1>1, <1>5, <2>1, OrderedAppend DEF Sent
<1>7. \A i \in Nat : Begun(t.log, i) => u.log[i + 1] = t.log[i + 1]
  BY <1>5 DEF Begun, Sent
<1>8. /\ \A i \in Nat : Begun(u.log, i) <=> Begun(t.log, i) \/ i = Len(t.log)
      /\ \A i \in Nat : Ended(u.log, i) <=> Ended(t.log, i)
      /\ u.index = t.index /\ u.open = t.open /\ u.said = t.said /\ u.calls = t.calls
      /\ u.closed = t.closed /\ u.output = t.output
      /\ u.log # << >> /\ u.seq = Len(u.log) - 1
      /\ u.log[Len(t.log) + 1].index = at
  BY <1>3, <1>5 DEF Sent
<1>9. ~Completed(u)
  BY <1>5 DEF Completed, Last, Sent
<1>10. ASSUME NEW e \in DOMAIN u.log, u.log[e].type = "added" PROVE u.log[e].index < at + 1
  <2>1. CASE e \in 1..Len(t.log)
    <3>1. t.log[e] \in EventType /\ u.log[e] = t.log[e] /\ e \in DOMAIN t.log
      BY <1>5, <2>1 DEF Sent
    <3> QED
      BY <1>10, <3>1 DEF EventType
  <2>2. CASE e = Len(t.log) + 1
    BY <1>8, <2>2
  <2> QED
    BY SMTT(30), <1>3, <1>5, <2>1, <2>2 DEF Sent
<1> QED
  BY <1>4, <1>6, <1>7, <1>8, <1>9, <1>10 DEF Opened

\* u is t after the event that ends item id.
Finished(t, u, id) ==
    /\ u \in TranslationType /\ Ordered(u.log) /\ ~Completed(u)
    /\ u.log # << >> /\ u.seq = Len(u.log) - 1
    /\ u.index = t.index /\ u.open = t.open /\ u.said = t.said /\ u.calls = t.calls
    /\ u.closed = t.closed /\ u.output = t.output
    /\ \A i \in Nat : Begun(u.log, i) <=> Begun(t.log, i)
    /\ \A i \in Nat : Ended(u.log, i) <=> Ended(t.log, i) \/ i = id
    /\ \A i \in Nat : Begun(t.log, i) => u.log[i + 1] = t.log[i + 1]
    /\ \A e \in DOMAIN u.log : u.log[e].type = "added" => e \in DOMAIN t.log /\ u.log[e] = t.log[e]

LEMMA Finishes ==
    ASSUME NEW t, Sound(t), NEW at \in Nat, NEW id \in Nat, NEW body \in Seq(Nat),
           Begun(t.log, id), ~Ended(t.log, id), t.log[id + 1].index = at,
           NEW u, u = Emit(t, "done", at, id, body)
    PROVE  Finished(t, u, id)
<1>1. t \in TranslationType /\ t.seq = Len(t.log) - 1 /\ Ordered(t.log)
  BY DEF Sound, Accounted
<1>2. "done" \in EventTypes /\ body \in Seq(Nat) \cup Seq(ItemType)
  BY DEF EventTypes
<1>3. u \in TranslationType /\ \E ev \in EventType : Sent(t, u, ev, "done", at, id)
  BY <1>1, <1>2, Emitted
<1>4. PICK ev \in EventType : Sent(t, u, ev, "done", at, id)
  BY <1>3
<1>5. Ordered(u.log)
  <2>1. Fits(t.log, ev)
    BY <1>4 DEF Fits, Sent
  <2> QED
    BY <1>1, <1>4, <2>1, OrderedAppend DEF Sent
<1>6. \A i \in Nat : Begun(t.log, i) => u.log[i + 1] = t.log[i + 1]
  BY <1>4 DEF Begun, Sent
<1>7. /\ \A i \in Nat : Begun(u.log, i) <=> Begun(t.log, i)
      /\ \A i \in Nat : Ended(u.log, i) <=> Ended(t.log, i) \/ i = id
      /\ u.index = t.index /\ u.open = t.open /\ u.said = t.said /\ u.calls = t.calls
      /\ u.closed = t.closed /\ u.output = t.output
      /\ u.log # << >> /\ u.seq = Len(u.log) - 1
  BY SMTT(30), <1>4 DEF Sent
<1>8. ~Completed(u)
  BY <1>4 DEF Completed, Last, Sent
<1>9. \A e \in DOMAIN u.log : u.log[e].type = "added" => e \in DOMAIN t.log /\ u.log[e] = t.log[e]
  BY SMTT(30), <1>4 DEF Sent
<1> QED
  BY <1>3, <1>5, <1>6, <1>7, <1>8, <1>9 DEF Finished

\* What a sound translation's account says of one item.
LEMMA OpenItem ==
    ASSUME NEW t, Sound(t), t.open # 0
    PROVE  Begun(t.log, t.open) /\ ~Ended(t.log, t.open) /\ t.log[t.open + 1].index = t.index
BY DEF Sound, Accounted

LEMMA CallItem ==
    ASSUME NEW t, Sound(t), NEW n \in DOMAIN t.calls
    PROVE  /\ Begun(t.log, t.calls[n].id)
           /\ t.log[t.calls[n].id + 1].index = t.calls[n].index
           /\ n > t.closed => ~Ended(t.log, t.calls[n].id)
           /\ t.calls[n].id # t.open
           /\ t.calls[n].id \in Nat /\ t.calls[n].index \in Nat /\ t.calls[n].args \in Seq(Nat)
           /\ t.calls[n].id < Len(t.log)
<1>1. t \in TranslationType
  BY DEF Sound
<1>2. t.calls[n].id \in Nat /\ t.calls[n].index \in Nat /\ t.calls[n].args \in Seq(Nat)
  BY <1>1, CallTyped
<1>3. /\ Begun(t.log, t.calls[n].id)
      /\ t.log[t.calls[n].id + 1].index = t.calls[n].index
      /\ n > t.closed => ~Ended(t.log, t.calls[n].id)
      /\ t.calls[n].id # t.open
  BY DEF Sound, Accounted
<1> QED
  BY <1>2, <1>3, Placed

\* The message item is opened: deltas may go on coming, and it is the open one.
LEMMA OpensText ==
    ASSUME NEW t, Flowing(t), NEW u, u = OpenText(t)
    PROVE  Flowing(u) /\ u.open # 0 /\ u.index = t.index /\ u.said = t.said
<1>1. CASE t.open # 0
  BY <1>1 DEF OpenText
<1>2. CASE t.open = 0
  <2>1. t \in TranslationType /\ Sound(t) /\ t.closed = 0 /\ t.index \in Nat
    BY CallTyped DEF Flowing, Sound
  <2>2. PICK v : v = Emit(t, "added", t.index, NewId(t), << >>)
    OBVIOUS
  <2>3. Opened(t, v, t.index)
    BY <1>2, <2>1, <2>2, Opens DEF Flowing, Place
  <2>4. u = [v EXCEPT !.open = Len(t.log)]
    BY <1>2, <2>2 DEF OpenText, NewId
  <2>5. Len(t.log) \in Nat /\ Len(t.log) # 0
    BY <2>1, Placed
  <2>6. /\ u \in TranslationType /\ u.log = v.log /\ u.seq = v.seq /\ u.index = t.index
        /\ u.open = Len(t.log) /\ u.said = t.said /\ u.calls = t.calls /\ u.closed = t.closed
    BY <2>3, <2>4, <2>5 DEF Opened, TranslationType
  <2>7. Accounted(u)
    <3>1. u.closed <= Len(u.calls)
      BY <2>1, <2>6 DEF Sound, Accounted
    <3>2. /\ Begun(u.log, u.open) /\ ~Ended(u.log, u.open)
          /\ u.log[u.open + 1].index = u.index
      BY <2>1, <2>3, <2>5, <2>6, Placed DEF Opened
    <3>3. ASSUME NEW n \in DOMAIN u.calls
          PROVE  /\ Begun(u.log, u.calls[n].id)
                 /\ u.log[u.calls[n].id + 1].index = u.calls[n].index
                 /\ n > u.closed => ~Ended(u.log, u.calls[n].id)
                 /\ u.calls[n].id # u.open
      <4>1. n \in DOMAIN t.calls /\ u.calls[n] = t.calls[n]
        BY <2>6
      <4>2. /\ Begun(t.log, t.calls[n].id)
            /\ t.log[t.calls[n].id + 1].index = t.calls[n].index
            /\ n > t.closed => ~Ended(t.log, t.calls[n].id)
            /\ t.calls[n].id \in Nat /\ t.calls[n].id < Len(t.log)
        BY <2>1, <4>1, CallItem
      <4>3. t.calls[n].id # Len(t.log)
        BY <2>5, <4>2
      <4>4. /\ Begun(u.log, t.calls[n].id) /\ u.log[t.calls[n].id + 1] = t.log[t.calls[n].id + 1]
            /\ Ended(u.log, t.calls[n].id) <=> Ended(t.log, t.calls[n].id)
        BY <2>3, <2>6, <4>2 DEF Opened
      <4> QED
        BY <2>6, <4>1, <4>2, <4>3, <4>4
    <3>4. \A m, n \in DOMAIN u.calls : u.calls[m].id = u.calls[n].id => m = n
      BY <2>1, <2>6 DEF Sound, Accounted
    <3>5. ASSUME NEW i \in Nat, Begun(u.log, i)
          PROVE  Ended(u.log, i) \/ i = u.open \/ \E n \in DOMAIN u.calls : n > u.closed /\ u.calls[n].id = i
      <4>1. CASE i = Len(t.log)
        BY <2>6, <4>1
      <4>2. CASE Begun(t.log, i)
        <5>1. i # 0
          BY <4>2 DEF Begun
        <5>2. Ended(t.log, i) \/ \E n \in DOMAIN t.calls : n > t.closed /\ t.calls[n].id = i
          BY <1>2, <2>1, <4>2, <5>1 DEF Sound, Accounted
        <5> QED
          BY <2>3, <2>6, <5>2 DEF Opened
      <4> QED
        BY <2>3, <2>6, <3>5, <4>1, <4>2 DEF Opened
    <3> QED
      BY <2>3, <2>6, <3>1, <3>2, <3>3, <3>4, <3>5 DEF Accounted, Opened
  <2>8. Flowing(u)
    BY <2>1, <2>3, <2>5, <2>6, <2>7 DEF Flowing, Sound, Opened, Completed, Place
  <2> QED
    BY <2>5, <2>6, <2>8
<1> QED
  BY <1>1, <1>2

\* A text delta.
LEMMA TextDeltaFlows ==
    ASSUME NEW t, Flowing(t), NEW x \in Nat
    PROVE  Flowing(TextDelta(t, x))
<1>1. PICK o : o = OpenText(t)
  OBVIOUS
<1>2. Flowing(o) /\ o.open # 0
  BY <1>1, OpensText
<1>3. PICK v : v = [o EXCEPT !.said = Append(@, x)]
  OBVIOUS
<1>4. o \in TranslationType /\ Sound(o) /\ o.said \in Seq(Nat)
  BY <1>2, CallTyped DEF Flowing, Sound
<1>5. Append(o.said, x) \in Seq(Nat)
  BY <1>4
<1>6. /\ v \in TranslationType /\ v.log = o.log /\ v.seq = o.seq /\ v.index = o.index
      /\ v.open = o.open /\ v.calls = o.calls /\ v.closed = o.closed
  BY <1>3, <1>4, <1>5 DEF TranslationType
<1>7. Sound(v) /\ Flowing(v)
  BY <1>2, <1>4, <1>6 DEF Flowing, Sound, Accounted, Completed, Place
<1>8. /\ Begun(v.log, o.open) /\ ~Ended(v.log, o.open) /\ v.log[o.open + 1].index = o.index
      /\ o.index \in Nat /\ o.open \in Nat /\ <<x>> \in Seq(Nat)
  BY <1>2, <1>4, <1>6, OpenItem, CallTyped
<1>9. PICK u : u = Emit(v, "text", o.index, o.open, <<x>>)
  OBVIOUS
<1>10. Said(v, u)
  BY <1>7, <1>8, <1>9, Speaks
<1>11. u = TextDelta(t, x)
  BY <1>1, <1>3, <1>9 DEF TextDelta
<1> QED
  BY <1>7, <1>10, <1>11 DEF Said

\* u is t with the message item closed, if one was open.
Quiet(t, u) ==
    /\ Sound(u) /\ ~Completed(u) /\ u.open = 0
    /\ u.index = t.index /\ u.calls = t.calls /\ u.closed = t.closed
    /\ \A e \in DOMAIN u.log : u.log[e].type = "added" => e \in DOMAIN t.log /\ u.log[e] = t.log[e]

LEMMA ClosesText ==
    ASSUME NEW t, Sound(t), ~Completed(t), NEW u, u = CloseText(t)
    PROVE  Quiet(t, u)
<1>1. CASE t.open = 0
  BY <1>1 DEF CloseText, Quiet
<1>2. CASE t.open # 0
  <2>1. /\ t \in TranslationType /\ t.index \in Nat /\ t.open \in Nat /\ t.said \in Seq(Nat)
        /\ t.output \in Seq(ItemType)
    BY CallTyped DEF Sound
  <2>2. Begun(t.log, t.open) /\ ~Ended(t.log, t.open) /\ t.log[t.open + 1].index = t.index
    BY <1>2, OpenItem
  <2>3. PICK v : v = Emit(t, "done", t.index, t.open, t.said)
    OBVIOUS
  <2>4. Finished(t, v, t.open)
    BY <2>1, <2>2, <2>3, Finishes
  <2>5. PICK w : w = [v EXCEPT !.output = Append(@, Item("message", t.said))]
    OBVIOUS
  <2>6. u = [w EXCEPT !.open = 0]
    BY <1>2, <2>3, <2>5 DEF CloseText
  <2>7. /\ w \in TranslationType /\ w.log = v.log /\ w.seq = v.seq /\ w.index = v.index
        /\ w.calls = v.calls /\ w.closed = v.closed
    <3>1. Append(v.output, Item("message", t.said)) \in Seq(ItemType)
      BY <2>1, <2>4 DEF Finished, Item, ItemType
    <3> QED
      BY <2>4, <2>5, <3>1 DEF Finished, TranslationType
  <2>8. /\ u \in TranslationType /\ u.log = v.log /\ u.seq = v.seq /\ u.index = t.index
        /\ u.open = 0 /\ u.calls = t.calls /\ u.closed = t.closed
    <3>1. PICK none \in Nat : none = 0
      OBVIOUS
    <3>2. u = [w EXCEPT !.open = none]
      BY <2>6, <3>1
    <3>3. /\ u \in TranslationType /\ u.log = w.log /\ u.seq = w.seq /\ u.index = w.index
          /\ u.open = none /\ u.calls = w.calls /\ u.closed = w.closed
      BY <2>7, <3>2 DEF TranslationType
    <3> QED
      BY <2>4, <2>7, <3>1, <3>3 DEF Finished
  <2>9. Accounted(u)
    <3>1. u.closed <= Len(u.calls) /\ \A m, n \in DOMAIN u.calls : u.calls[m].id = u.calls[n].id => m = n
      BY <2>8 DEF Sound, Accounted
    <3>2. ASSUME NEW n \in DOMAIN u.calls
          PROVE  /\ Begun(u.log, u.calls[n].id)
                 /\ u.log[u.calls[n].id + 1].index = u.calls[n].index
                 /\ n > u.closed => ~Ended(u.log, u.calls[n].id)
                 /\ u.calls[n].id # u.open
      <4>1. n \in DOMAIN t.calls /\ u.calls[n] = t.calls[n]
        BY <2>8
      <4>2. /\ Begun(t.log, t.calls[n].id)
            /\ t.log[t.calls[n].id + 1].index = t.calls[n].index
            /\ n > t.closed => ~Ended(t.log, t.calls[n].id)
            /\ t.calls[n].id \in Nat /\ t.calls[n].id # t.open
        BY <4>1, CallItem
      <4>3. t.calls[n].id # 0
        BY <4>2 DEF Begun
      <4>4. /\ Begun(u.log, t.calls[n].id) /\ u.log[t.calls[n].id + 1] = t.log[t.calls[n].id + 1]
            /\ Ended(u.log, t.calls[n].id) <=> Ended(t.log, t.calls[n].id)
        BY <2>4, <2>8, <4>2 DEF Finished
      <4> QED
        BY <2>8, <4>1, <4>2, <4>3, <4>4
    <3>3. ASSUME NEW i \in Nat, Begun(u.log, i)
          PROVE  Ended(u.log, i) \/ \E n \in DOMAIN u.calls : n > u.closed /\ u.calls[n].id = i
      <4>1. Begun(t.log, i)
        BY <2>4, <2>8, <3>3 DEF Finished
      <4>2. Ended(t.log, i) \/ i = t.open \/ \E n \in DOMAIN t.calls : n > t.closed /\ t.calls[n].id = i
        BY <4>1 DEF Sound, Accounted
      <4> QED
        BY <2>4, <2>8, <4>2 DEF Finished
    <3> QED
      BY <2>4, <2>8, <3>1, <3>2, <3>3 DEF Accounted, Finished
  <2> QED
    BY <2>4, <2>8, <2>9 DEF Quiet, Sound, Finished, Completed
<1> QED
  BY <1>1, <1>2

\* The first delta of a tool call.
LEMMA OpensCall ==
    ASSUME NEW t, Flowing(t), NEW i \in Nat, NEW u, u = OpenCall(t, i)
    PROVE  Flowing(u) /\ Known(u, i)
<1>1. PICK c : c = CloseText(t)
  OBVIOUS
<1>2. Quiet(t, c)
  BY <1>1, ClosesText DEF Flowing
<1>3. PICK at \in Nat : at = Place(t)
  BY CallTyped DEF Place, Flowing, Sound
<1>4. PICK v : v = Emit(c, "added", at, NewId(c), << >>)
  OBVIOUS
<1>5. Sound(c) /\ c \in TranslationType /\ c.open = 0 /\ c.closed = 0 /\ c.calls = t.calls
  BY <1>2 DEF Quiet, Flowing, Sound
<1>6. Opened(c, v, at)
  BY <1>2, <1>3, <1>4, <1>5, Opens DEF Quiet, Flowing
<1>7. PICK call : call = [tool |-> i, index |-> at, id |-> Len(c.log), args |-> << >>]
  OBVIOUS
<1>8. Len(c.log) \in Nat /\ Len(c.log) # 0
  BY <1>5, Placed
<1>9. call \in CallType /\ call.tool = i /\ call.index = at /\ call.id = Len(c.log)
  BY <1>7, <1>8 DEF CallType
<1>10. PICK w : w = [v EXCEPT !.calls = Append(@, call)]
  OBVIOUS
<1>11. u = [w EXCEPT !.index = at + 1]
  BY <1>1, <1>3, <1>4, <1>7, <1>10 DEF OpenCall, NewId, Place
<1>12. /\ c.calls \in Seq(CallType) /\ Append(c.calls, call) \in Seq(CallType)
       /\ Len(c.calls) \in Nat /\ DOMAIN c.calls = 1..Len(c.calls)
       /\ DOMAIN Append(c.calls, call) = 1..(Len(c.calls) + 1)
       /\ Len(Append(c.calls, call)) = Len(c.calls) + 1
       /\ \A n \in 1..Len(c.calls) : Append(c.calls, call)[n] = c.calls[n]
       /\ Append(c.calls, call)[Len(c.calls) + 1] = call
  <2>1. c.calls \in Seq(CallType)
    BY <1>5, CallTyped
  <2>2. PICK calls \in Seq(CallType) : calls = c.calls
    BY <2>1
  <2>3. Append(calls, call) \in Seq(CallType) /\ Len(calls) \in Nat /\ DOMAIN calls = 1..Len(calls)
    BY <1>9
  <2>4. /\ DOMAIN Append(calls, call) = 1..(Len(calls) + 1)
        /\ Len(Append(calls, call)) = Len(calls) + 1
    BY <1>9
  <2>5. \A n \in 1..Len(calls) : Append(calls, call)[n] = calls[n]
    BY <1>9
  <2>6. Append(calls, call)[Len(calls) + 1] = call
    BY <1>9
  <2> QED
    BY <2>1, <2>2, <2>3, <2>4, <2>5, <2>6
<1>13. /\ w \in TranslationType /\ w.log = v.log /\ w.seq = v.seq /\ w.open = 0 /\ w.closed = 0
       /\ w.calls = Append(c.calls, call)
  BY <1>5, <1>6, <1>10, <1>12 DEF Opened, TranslationType
<1>14. /\ u \in TranslationType /\ u.log = v.log /\ u.seq = v.seq /\ u.open = 0 /\ u.closed = 0
       /\ u.calls = Append(c.calls, call) /\ u.index = at + 1
  <2>1. at + 1 \in Nat
    OBVIOUS
  <2>2. /\ u \in TranslationType /\ u.log = w.log /\ u.seq = w.seq /\ u.open = w.open
        /\ u.closed = w.closed /\ u.calls = w.calls /\ u.index = at + 1
    BY <1>11, <1>13, <2>1 DEF TranslationType
  <2> QED
    BY <1>13, <2>2
<1>15. Accounted(u)
  <2>1. ASSUME NEW n \in 1..Len(c.calls)
        PROVE  /\ u.calls[n] = c.calls[n]
               /\ c.calls[n].id \in Nat /\ c.calls[n].id # Len(c.log) /\ c.calls[n].id # 0
               /\ Begun(u.log, c.calls[n].id) /\ ~Ended(u.log, c.calls[n].id)
               /\ u.log[c.calls[n].id + 1].index = c.calls[n].index
    <3>1. n \in DOMAIN c.calls /\ u.calls[n] = c.calls[n] /\ n > c.closed
      BY <1>5, <1>12, <1>14
    <3>2. /\ Begun(c.log, c.calls[n].id) /\ ~Ended(c.log, c.calls[n].id)
          /\ c.log[c.calls[n].id + 1].index = c.calls[n].index
          /\ c.calls[n].id \in Nat /\ c.calls[n].id < Len(c.log)
      BY <1>5, <3>1, CallItem
    <3>3. c.calls[n].id # Len(c.log) /\ c.calls[n].id # 0
      BY <1>8, <3>2 DEF Begun
    <3> QED
      BY <1>6, <1>14, <3>1, <3>2, <3>3 DEF Opened
  <2>2. /\ u.calls[Len(c.calls) + 1] = call
        /\ Begun(u.log, call.id) /\ ~Ended(u.log, call.id) /\ u.log[call.id + 1].index = at
    <3>1. ~Ended(c.log, Len(c.log))
      BY <1>5, <1>8, Placed
    <3>2. Begun(v.log, Len(c.log)) /\ ~Ended(v.log, Len(c.log)) /\ v.log[Len(c.log) + 1].index = at
      BY <1>6, <1>8, <3>1 DEF Opened
    <3>3. u.calls[Len(c.calls) + 1] = call
      BY <1>12, <1>14
    <3> QED
      BY <1>9, <1>14, <3>2, <3>3
  <2>3. ASSUME NEW n \in DOMAIN u.calls
        PROVE  /\ Begun(u.log, u.calls[n].id)
               /\ u.log[u.calls[n].id + 1].index = u.calls[n].index
               /\ n > u.closed => ~Ended(u.log, u.calls[n].id)
               /\ u.calls[n].id # u.open
    <3>1. CASE n \in 1..Len(c.calls)
      BY <1>14, <2>1, <3>1
    <3>2. CASE n = Len(c.calls) + 1
      BY <1>8, <1>9, <1>14, <2>2, <3>2
    <3> QED
      BY <1>12, <1>14, <3>1, <3>2
  <2>4. ASSUME NEW m \in DOMAIN u.calls, NEW n \in DOMAIN u.calls, u.calls[m].id = u.calls[n].id
        PROVE  m = n
    <3>1. CASE m \in 1..Len(c.calls) /\ n \in 1..Len(c.calls)
      <4>1. c.calls[m].id = c.calls[n].id /\ m \in DOMAIN c.calls /\ n \in DOMAIN c.calls
        BY <1>12, <2>1, <2>4, <3>1
      <4> QED
        BY <1>5, <4>1 DEF Sound, Accounted
    <3>2. CASE m = Len(c.calls) + 1 /\ n \in 1..Len(c.calls)
      BY <1>9, <2>1, <2>2, <2>4, <3>2
    <3>3. CASE n = Len(c.calls) + 1 /\ m \in 1..Len(c.calls)
      BY <1>9, <2>1, <2>2, <2>4, <3>3
    <3> QED
      BY <1>12, <1>14, <3>1, <3>2, <3>3
  <2>5. ASSUME NEW j \in Nat, Begun(u.log, j)
        PROVE  Ended(u.log, j) \/ \E n \in DOMAIN u.calls : n > u.closed /\ u.calls[n].id = j
    <3>1. CASE j = Len(c.log)
      <4>1. Len(c.calls) + 1 \in DOMAIN u.calls /\ Len(c.calls) + 1 > u.closed
        BY <1>12, <1>14
      <4> QED
        BY <1>9, <2>2, <3>1, <4>1
    <3>2. CASE Begun(c.log, j)
      <4>1. j # 0
        BY <3>2 DEF Begun
      <4>2. Ended(c.log, j) \/ \E n \in DOMAIN c.calls : c.calls[n].id = j
        BY <1>5, <3>2, <4>1 DEF Sound, Accounted
      <4>3. Ended(c.log, j) \/ \E n \in 1..Len(c.calls) : u.calls[n].id = j
        BY <1>12, <2>1, <4>2
      <4>4. \A n \in 1..Len(c.calls) : n \in DOMAIN u.calls /\ n > u.closed
        BY <1>12, <1>14
      <4> QED
        BY <1>6, <1>14, <4>3, <4>4 DEF Opened
    <3> QED
      BY <1>6, <1>14, <2>5, <3>1, <3>2 DEF Opened
  <2>6. u.closed <= Len(u.calls)
    BY <1>12, <1>14
  <2> QED
    BY <1>6, <1>14, <2>3, <2>4, <2>5, <2>6 DEF Accounted, Opened
<1>16. Flowing(u)
  BY <1>6, <1>14, <1>15 DEF Flowing, Sound, Opened, Completed, Place
<1>17. Known(u, i)
  BY <1>9, <1>12, <1>14 DEF Known
<1> QED
  BY <1>16, <1>17

\* A delta of tool call i.
LEMMA CallDeltaFlows ==
    ASSUME NEW t, Flowing(t), NEW i \in Nat, NEW args \in Seq(Nat)
    PROVE  Flowing(CallDelta(t, i, args))
<1>1. PICK k : k = IF Known(t, i) THEN t ELSE OpenCall(t, i)
  OBVIOUS
<1>2. Flowing(k) /\ Known(k, i)
  BY <1>1, OpensCall
<1>3. PICK n : n = CHOOSE m \in DOMAIN k.calls : k.calls[m].tool = i
  OBVIOUS
<1>4. n \in DOMAIN k.calls
  BY <1>2, <1>3 DEF Known
<1>5. CASE args = << >>
  BY <1>1, <1>2, <1>3, <1>5 DEF CallDelta
<1>6. CASE args # << >>
  <2>1. Sound(k) /\ k \in TranslationType /\ k.closed = 0
    BY <1>2 DEF Flowing, Sound
  <2>2. PICK call : call = AddArguments(k.calls[n], args)
    OBVIOUS
  <2>3. PICK calls : calls = [k.calls EXCEPT ![n] = call]
    OBVIOUS
  <2>4. PICK v : v = [k EXCEPT !.calls = calls]
    OBVIOUS
  <2>5. CallDelta(t, i, args) = Emit(v, "args", k.calls[n].index, k.calls[n].id, args)
    BY <1>1, <1>3, <1>6, <2>2, <2>3, <2>4 DEF CallDelta
  <2>6. call \in CallType /\ call.id = k.calls[n].id /\ call.index = k.calls[n].index
    <3>1. k.calls[n] \in CallType /\ k.calls[n].args \o args \in Seq(Nat)
      BY <1>4, <2>1, CallTyped
    <3> QED
      BY <2>2, <3>1 DEF AddArguments, CallType
  <2>7. k.calls \in Seq(CallType) /\ DOMAIN k.calls = 1..Len(k.calls) /\ Len(k.calls) \in Nat
    BY <2>1, CallTyped
  <2>8. /\ calls \in Seq(CallType) /\ DOMAIN calls = DOMAIN k.calls /\ Len(calls) = Len(k.calls)
        /\ \A m \in DOMAIN calls : calls[m].id = k.calls[m].id /\ calls[m].index = k.calls[m].index
    <3>1. calls \in Seq(CallType) /\ DOMAIN calls = DOMAIN k.calls /\ Len(calls) = Len(k.calls)
      BY <1>4, <2>3, <2>6, <2>7
    <3>2. \A m \in DOMAIN calls : calls[m] = IF m = n THEN call ELSE k.calls[m]
      BY <1>4, <2>3, <2>7
    <3> QED
      BY <2>6, <3>1, <3>2
  <2>9. /\ v \in TranslationType /\ v.log = k.log /\ v.seq = k.seq /\ v.index = k.index
        /\ v.open = k.open /\ v.closed = k.closed /\ v.calls = calls
    BY <2>1, <2>4, <2>8 DEF TranslationType
  <2>10. Accounted(v)
    <3>1. Accounted(k)
      BY <2>1 DEF Sound
    <3> QED
      BY SMTT(30), <2>8, <2>9, <3>1 DEF Accounted
  <2>11. Sound(v) /\ Flowing(v)
    BY <1>2, <2>1, <2>9, <2>10 DEF Flowing, Sound, Completed, Place
  <2>12. /\ Begun(v.log, k.calls[n].id) /\ ~Ended(v.log, k.calls[n].id)
         /\ v.log[k.calls[n].id + 1].index = k.calls[n].index
         /\ k.calls[n].id \in Nat /\ k.calls[n].index \in Nat
    <3>1. n > k.closed
      BY <1>4, <2>1, <2>7
    <3> QED
      BY <1>4, <2>1, <2>9, <3>1, CallItem
  <2>13. Said(v, CallDelta(t, i, args))
    BY <2>5, <2>11, <2>12, Speaks
  <2> QED
    BY <2>11, <2>13 DEF Said
<1> QED
  BY <1>5, <1>6

\* After the chat stream, a call is closed.
LEMMA ClosesCall ==
    ASSUME NEW t, Sound(t), t.open = 0, t.closed < Len(t.calls), NEW u, u = CloseCall(t)
    PROVE  Sound(u) /\ ~Completed(u) /\ u.open = 0
<1>1. t \in TranslationType /\ t.closed \in Nat /\ Len(t.calls) \in Nat /\ DOMAIN t.calls = 1..Len(t.calls)
  BY CallTyped DEF Sound
<1>2. PICK n \in DOMAIN t.calls : n = t.closed + 1
  BY <1>1
<1>3. PICK call : call = t.calls[n]
  OBVIOUS
<1>4. /\ Begun(t.log, call.id) /\ ~Ended(t.log, call.id) /\ t.log[call.id + 1].index = call.index
      /\ call.id \in Nat /\ call.index \in Nat /\ call.args \in Seq(Nat)
  <2>1. n > t.closed
    BY <1>1, <1>2
  <2>2. /\ Begun(t.log, t.calls[n].id)
        /\ t.log[t.calls[n].id + 1].index = t.calls[n].index
        /\ ~Ended(t.log, t.calls[n].id)
        /\ t.calls[n].id \in Nat /\ t.calls[n].index \in Nat /\ t.calls[n].args \in Seq(Nat)
    BY <2>1, CallItem
  <2> QED
    BY <1>3, <2>2
<1>5. PICK s : s = Emit(t, "args_done", call.index, call.id, call.args)
  OBVIOUS
<1>6. Said(t, s)
  BY <1>4, <1>5, Speaks
<1>7. PICK v : v = Emit(s, "done", call.index, call.id, call.args)
  OBVIOUS
<1>8. /\ Sound(s) /\ Begun(s.log, call.id) /\ ~Ended(s.log, call.id)
      /\ s.log[call.id + 1].index = call.index
      /\ s.open = 0 /\ s.calls = t.calls /\ s.closed = t.closed
  BY <1>4, <1>6 DEF Said
<1>9. Finished(s, v, call.id)
  BY <1>4, <1>7, <1>8, Finishes
<1>10. PICK w : w = [v EXCEPT !.output = Append(@, Item("call", call.args))]
  BY Zenon
<1>11. u = [w EXCEPT !.closed = @ + 1]
  <2>1. call = t.calls[t.closed + 1]
    BY <1>2, <1>3
  <2>2. CloseCall(t) = [v EXCEPT !.output = Append(@, Item("call", call.args)), !.closed = @ + 1]
    BY ZenonT(30), <1>5, <1>7, <2>1 DEF CloseCall
  <2> QED
    BY <1>10, <2>2
<1>12. /\ w \in TranslationType /\ w.log = v.log /\ w.seq = v.seq
       /\ w.open = 0 /\ w.calls = t.calls /\ w.closed = t.closed
  <2>1. v.output \in Seq(ItemType) /\ Item("call", call.args) \in ItemType
    BY <1>4, <1>9, CallTyped DEF Finished, Item, ItemType
  <2>2. Append(v.output, Item("call", call.args)) \in Seq(ItemType)
    BY <2>1
  <2>3. /\ w \in TranslationType /\ w.log = v.log /\ w.seq = v.seq
        /\ w.open = v.open /\ w.calls = v.calls /\ w.closed = v.closed
    BY <1>9, <1>10, <2>2 DEF Finished, TranslationType
  <2> QED
    BY <1>8, <1>9, <2>3 DEF Finished
<1>13. /\ u \in TranslationType /\ u.log = v.log /\ u.seq = v.seq
       /\ u.open = 0 /\ u.calls = t.calls /\ u.closed = n
  <2>1. n \in Nat
    BY <1>1, <1>2
  <2>2. u = [w EXCEPT !.closed = n]
    BY <1>2, <1>11, <1>12
  <2>3. /\ u \in TranslationType /\ u.log = w.log /\ u.seq = w.seq
        /\ u.open = w.open /\ u.calls = w.calls /\ u.closed = n
    BY <1>12, <2>1, <2>2 DEF TranslationType
  <2> QED
    BY <1>12, <2>3
<1>14. Accounted(u)
  <2>1. Accounted(s)
    BY <1>8 DEF Sound
  <2>2. u.closed <= Len(u.calls)
    BY <1>1, <1>2, <1>13
  <2>3. ASSUME NEW m \in DOMAIN u.calls
        PROVE  /\ Begun(u.log, u.calls[m].id)
               /\ u.log[u.calls[m].id + 1].index = u.calls[m].index
               /\ m > u.closed => ~Ended(u.log, u.calls[m].id)
               /\ u.calls[m].id # u.open
    <3>1. m \in DOMAIN s.calls /\ u.calls[m] = s.calls[m]
      BY <1>8, <1>13
    <3>2. /\ Begun(s.log, s.calls[m].id)
          /\ s.log[s.calls[m].id + 1].index = s.calls[m].index
          /\ m > s.closed => ~Ended(s.log, s.calls[m].id)
          /\ s.calls[m].id \in Nat /\ s.calls[m].id # s.open
      BY <1>8, <3>1, CallItem
    <3>3. /\ Begun(u.log, s.calls[m].id) /\ u.log[s.calls[m].id + 1] = s.log[s.calls[m].id + 1]
          /\ Ended(u.log, s.calls[m].id) <=> Ended(s.log, s.calls[m].id) \/ s.calls[m].id = call.id
      BY <1>9, <1>13, <3>2 DEF Finished
    <3>4. m > u.closed => m > s.closed /\ s.calls[m].id # call.id
      <4>1. ASSUME m > u.closed PROVE m > s.closed /\ m # n /\ m \in DOMAIN s.calls /\ n \in DOMAIN s.calls
        BY <1>1, <1>2, <1>8, <1>13, <3>1, <4>1
      <4> QED
        BY <1>3, <1>8, <2>1, <4>1 DEF Accounted
    <3> QED
      BY <1>8, <1>13, <3>1, <3>2, <3>3, <3>4
  <2>4. \A l, m \in DOMAIN u.calls : u.calls[l].id = u.calls[m].id => l = m
    BY <1>8, <1>13, <2>1 DEF Accounted
  <2>5. ASSUME NEW i \in Nat, Begun(u.log, i)
        PROVE  Ended(u.log, i) \/ \E m \in DOMAIN u.calls : m > u.closed /\ u.calls[m].id = i
    <3>1. Begun(s.log, i) /\ i # 0
      BY <1>9, <1>13, <2>5 DEF Finished, Begun
    <3>2. CASE Ended(s.log, i)
      BY <1>9, <1>13, <3>2 DEF Finished
    <3>3. CASE \E m \in DOMAIN s.calls : m > s.closed /\ s.calls[m].id = i
      <4>1. PICK m \in DOMAIN s.calls : m > s.closed /\ s.calls[m].id = i
        BY <3>3
      <4>2. CASE m = n
        BY <1>3, <1>8, <1>9, <1>13, <4>1, <4>2 DEF Finished
      <4>3. CASE m # n
        <5>1. m > n
          BY <1>1, <1>2, <1>8, <4>1, <4>3
        <5> QED
          BY <1>8, <1>13, <4>1, <5>1
      <4> QED
        BY <4>2, <4>3
    <3> QED
      BY <1>8, <2>1, <3>1, <3>2, <3>3 DEF Accounted
  <2> QED
    BY <1>9, <1>13, <2>2, <2>3, <2>4, <2>5 DEF Accounted, Finished
<1> QED
  BY <1>9, <1>13, <1>14 DEF Sound, Finished, Completed

\* The end of a translation.
LEMMA Completes ==
    ASSUME NEW t, Sound(t), t.open = 0, t.closed = Len(t.calls), NEW u, u = Complete(t)
    PROVE  Sound(u) /\ u.open = 0 /\ u.closed = Len(u.calls)
<1>1. t \in TranslationType /\ t.seq = Len(t.log) - 1 /\ Ordered(t.log) /\ Accounted(t)
  BY DEF Sound, Accounted
<1>2. "completed" \in EventTypes /\ t.output \in Seq(Nat) \cup Seq(ItemType) /\ 0 \in Nat
  BY <1>1, CallTyped DEF EventTypes
<1>3. u = Emit(t, "completed", 0, 0, t.output)
  BY DEF Complete
<1>4. u \in TranslationType /\ \E ev \in EventType : Sent(t, u, ev, "completed", 0, 0)
  BY <1>1, <1>2, <1>3, Emitted
<1>5. PICK ev \in EventType : Sent(t, u, ev, "completed", 0, 0)
  BY <1>4
<1>6. Ordered(u.log)
  <2>1. Fits(t.log, ev)
    BY <1>5 DEF Fits, Sent
  <2> QED
    BY <1>1, <1>5, <2>1, OrderedAppend DEF Sent
<1>7. /\ \A i \in Nat : Begun(t.log, i) => u.log[i + 1] = t.log[i + 1]
      /\ \A i \in Nat : Begun(u.log, i) <=> Begun(t.log, i)
      /\ \A i \in Nat : Ended(u.log, i) <=> Ended(t.log, i)
  BY <1>5 DEF Begun, Sent
<1>8. /\ u.open = 0 /\ u.calls = t.calls /\ u.closed = t.closed
      /\ u.log # << >> /\ u.seq = Len(u.log) - 1
  BY <1>5 DEF Sent
<1>9. Accounted(u)
  <2>1. u.closed <= Len(u.calls) /\ \A m, n \in DOMAIN u.calls : u.calls[m].id = u.calls[n].id => m = n
    BY <1>1, <1>8 DEF Accounted
  <2>2. ASSUME NEW n \in DOMAIN u.calls
        PROVE  /\ Begun(u.log, u.calls[n].id)
               /\ u.log[u.calls[n].id + 1].index = u.calls[n].index
               /\ n > u.closed => ~Ended(u.log, u.calls[n].id)
               /\ u.calls[n].id # u.open
    <3>1. n \in DOMAIN t.calls /\ u.calls[n] = t.calls[n]
      BY <1>8
    <3>2. /\ Begun(t.log, t.calls[n].id)
          /\ t.log[t.calls[n].id + 1].index = t.calls[n].index
          /\ n > t.closed => ~Ended(t.log, t.calls[n].id)
          /\ t.calls[n].id \in Nat /\ t.calls[n].id # t.open
      BY <3>1, CallItem
    <3> QED
      BY <1>7, <1>8, <3>1, <3>2
  <2>3. ASSUME NEW i \in Nat, Begun(u.log, i)
        PROVE  Ended(u.log, i) \/ \E n \in DOMAIN u.calls : n > u.closed /\ u.calls[n].id = i
    <3>1. Begun(t.log, i) /\ i # 0
      BY <1>7, <2>3 DEF Begun
    <3> QED
      BY <1>1, <1>7, <1>8, <3>1 DEF Accounted
  <2> QED
    BY <1>8, <2>1, <2>2, <2>3 DEF Accounted
<1> QED
  BY <1>4, <1>6, <1>8, <1>9 DEF Sound

\* A translation begins with one event, of no item.
LEMMA Starts == Flowing(Start)
<1> DEFINE ev == [type |-> "created", seq |-> 0, index |-> 0, id |-> 0, body |-> << >>]
<1>1. /\ Start.seq = 0 /\ Start.index = 0 /\ Start.open = 0 /\ Start.closed = 0
      /\ Start.calls = << >> /\ Start.log = <<ev>>
  BY DEF Start
<1>2. ev \in EventType
  BY DEF EventType, EventTypes
<1>3. /\ <<ev>> \in Seq(EventType) /\ Len(<<ev>>) = 1 /\ DOMAIN <<ev>> = 1..1 /\ <<ev>>[1] = ev
      /\ <<ev>> # << >>
  <2> HIDE DEF ev
  <2> QED
    BY <1>2
<1>4. Start \in TranslationType
  <2> HIDE DEF ev
  <2>1. Start = [seq |-> 0, index |-> 0, open |-> 0, said |-> << >>, calls |-> << >>, closed |-> 0,
                 output |-> << >>, log |-> <<ev>>]
    BY DEF Start, ev
  <2> QED
    BY <1>3, <2>1 DEF TranslationType
<1>5. ev.type = "created" /\ ev.id = 0 /\ ev.seq = 0
  OBVIOUS
<1> HIDE DEF ev
<1>6. /\ DOMAIN Start.log = 1..1 /\ Start.log[1].type = "created" /\ Start.log[1].id = 0
      /\ Start.log[1].seq = 0
  BY <1>1, <1>3, <1>5
<1>7. Ordered(Start.log)
  BY <1>6 DEF Ordered
<1>8. \A i : ~Begun(Start.log, i) /\ ~Ended(Start.log, i)
  BY <1>6 DEF Begun, Ended
<1>9. Accounted(Start)
  <2>1. DOMAIN Start.calls = {} /\ Len(Start.calls) = 0
    BY <1>1
  <2>2. Start.log # << >> /\ Start.seq = Len(Start.log) - 1
    BY <1>1, <1>3
  <2> QED
    BY <1>1, <1>8, <2>1, <2>2 DEF Accounted
<1>10. ~Completed(Start)
  BY <1>1, <1>3, <1>6 DEF Completed, Last
<1> QED
  BY <1>1, <1>4, <1>6, <1>7, <1>9, <1>10 DEF Flowing, Sound, Place

\* A sound translation that holds nothing open when it is reported complete is
\* bracketed and numbered.
LEMMA SoundBracketed ==
    ASSUME NEW t, Sound(t), Completed(t) => t.open = 0 /\ t.closed = Len(t.calls)
    PROVE  Bracketed(t) /\ Numbered(t)
<1>1. t.log \in Seq(EventType) /\ Ordered(t.log) /\ DOMAIN t.log = 1..Len(t.log) /\ Len(t.log) \in Nat
  BY CallTyped DEF Sound
<1>2. \A e \in DOMAIN t.log : t.log[e].id \in Nat
  <2>1. \A e \in DOMAIN t.log : t.log[e] \in EventType
    BY <1>1
  <2> QED
    BY <2>1 DEF EventType
<1>3. Numbered(t)
  <2>1. \A d, e \in DOMAIN t.log :
           t.log[d].id = t.log[e].id /\ t.log[d].id # 0 => t.log[d].index = t.log[e].index
    BY <1>1 DEF Ordered
  <2> QED
    BY <1>1, <2>1 DEF Ordered, Numbered
<1>4. ASSUME NEW e \in DOMAIN t.log, t.log[e].id # 0
      PROVE  LET id == t.log[e].id
                 begin == Of(t, id, {"added"})
                 end == Of(t, id, {"done"})
             IN /\ \E b \in begin : b <= e /\ begin = {b}
                /\ \A d \in end : e <= d
                /\ Completed(t) => end # {}
  <2>1. PICK id \in Nat : id = t.log[e].id
    BY <1>2
  <2>2. PICK b : b = id + 1
    OBVIOUS
  <2>3. id < e /\ Begun(t.log, id) /\ b \in DOMAIN t.log /\ t.log[b].type = "added" /\ b <= e
    BY SMTT(30), <1>1, <1>4, <2>1, <2>2 DEF Ordered, Begun
  <2>4. t.log[b].id = id
    <3>1. t.log[b].id = b - 1
      BY <1>1, <2>3 DEF Ordered
    <3> QED
      BY <2>2, <3>1
  <2>5. \A c \in DOMAIN t.log : t.log[c].id = id /\ t.log[c].type = "added" => c = b
    BY <1>1, <2>2 DEF Ordered
  <2>6. Of(t, id, {"added"}) = {b}
    BY <2>3, <2>4, <2>5 DEF Of
  <2>7. \A d \in Of(t, id, {"done"}) : e <= d
    BY <1>1, <2>1 DEF Of, Ordered
  <2>8. Completed(t) => Of(t, id, {"done"}) # {}
    <3>1. ASSUME Completed(t) PROVE Ended(t.log, id)
      <4>1. id # 0 /\ t.open = 0 /\ \A n \in DOMAIN t.calls : ~(n > t.closed)
        BY <1>4, <2>1, <3>1, CallTyped DEF Sound
      <4> QED
        BY <2>3, <4>1 DEF Sound, Accounted
    <3> QED
      BY <3>1 DEF Ended, Of
  <2> QED
    BY <2>1, <2>3, <2>6, <2>7, <2>8
<1>5. Bracketed(t)
  BY <1>4 DEF Bracketed
<1> QED
  BY <1>3, <1>5

-----------------------------------------------------------------------------
(* Types, and an index that holds an id once *)

LEMMA AppendedIds ==
    ASSUME NEW ids \in Seq(Ids), IsInjective(ids), NEW id \in Ids, ~Contains(ids, id)
    PROVE  /\ Append(ids, id) \in Seq(Ids) /\ IsInjective(Append(ids, id))
           /\ \A i \in Ids : Contains(Append(ids, id), i) <=> Contains(ids, i) \/ i = id
<1>1. /\ Append(ids, id) \in Seq(Ids) /\ Len(ids) \in Nat /\ DOMAIN ids = 1..Len(ids)
      /\ DOMAIN Append(ids, id) = 1..(Len(ids) + 1) /\ Len(Append(ids, id)) = Len(ids) + 1
  OBVIOUS
<1>2. \A n \in 1..Len(ids) : Append(ids, id)[n] = ids[n]
  OBVIOUS
<1>3. Append(ids, id)[Len(ids) + 1] = id
  OBVIOUS
<1>4. PICK a : a = Append(ids, id)
  OBVIOUS
<1>5. \A n \in 1..Len(ids) : ids[n] # id
  BY DEF Contains
<1>6. IsInjective(a)
  BY <1>1, <1>2, <1>3, <1>4, <1>5 DEF IsInjective
<1>7. ASSUME NEW i \in Ids PROVE Contains(a, i) <=> Contains(ids, i) \/ i = id
  BY <1>1, <1>2, <1>3, <1>4 DEF Contains
<1> QED
  BY <1>1, <1>4, <1>6, <1>7

\* Removing an id leaves the others.
LEMMA WithoutIt ==
    ASSUME NEW ids \in Seq(Ids), IsInjective(ids), NEW id \in Ids, Contains(ids, id)
    PROVE  /\ Without(ids, id) \in Seq(Ids) /\ IsInjective(Without(ids, id))
           /\ \A i \in Ids : Contains(Without(ids, id), i) <=> Contains(ids, i) /\ i # id
<1>1. Len(ids) \in Nat /\ DOMAIN ids = 1..Len(ids)
  OBVIOUS
<1>2. PICK n : n = CHOOSE m \in DOMAIN ids : ids[m] = id
  OBVIOUS
<1>3. n \in 1..Len(ids) /\ ids[n] = id
  BY <1>1, <1>2 DEF Contains
<1>4. PICK front : front = SubSeq(ids, 1, n - 1)
  OBVIOUS
<1>5. PICK back : back = SubSeq(ids, n + 1, Len(ids))
  OBVIOUS
<1>6. PICK w : w = front \o back
  OBVIOUS
<1>7. Without(ids, id) = w
  BY <1>2, <1>4, <1>5, <1>6 DEF Without, RemoveAt
<1>8. front \in Seq(Ids) /\ Len(front) = n - 1 /\ \A m \in 1..(n - 1) : front[m] = ids[m]
  <2>1. 1 \in Int /\ n - 1 \in Int /\ \A m \in 1..(n - 1) : ids[m] \in Ids
    BY <1>1, <1>3
  <2> QED
    BY <1>1, <1>3, <1>4, <2>1, SubSeqProperties
<1>9. back \in Seq(Ids) /\ Len(back) = Len(ids) - n /\ \A m \in 1..(Len(ids) - n) : back[m] = ids[n + m]
  <2>1. n + 1 \in Int /\ Len(ids) \in Int /\ \A m \in (n + 1)..Len(ids) : ids[m] \in Ids
    BY <1>1, <1>3
  <2>2. /\ back \in Seq(Ids)
        /\ Len(back) = IF n + 1 <= Len(ids) THEN Len(ids) - (n + 1) + 1 ELSE 0
        /\ \A m \in 1..(Len(ids) - (n + 1) + 1) : back[m] = ids[(n + 1) + m - 1]
    BY SMTT(30), <1>5, <2>1, SubSeqProperties
  <2>3. back \in Seq(Ids) /\ Len(back) = Len(ids) - n
    <3>1. PICK l \in Nat : l = Len(ids)
      BY <1>1
    <3>2. n \in 1..l /\ Len(back) = IF n + 1 <= l THEN l - (n + 1) + 1 ELSE 0
      BY <1>3, <2>2, <3>1
    <3>3. Len(back) = l - n
      BY <3>2
    <3> QED
      BY <2>2, <3>1, <3>3
  <2>4. ASSUME NEW m \in 1..(Len(ids) - n) PROVE back[m] = ids[n + m]
    <3>1. m \in 1..(Len(ids) - (n + 1) + 1) /\ (n + 1) + m - 1 = n + m
      BY <1>1, <1>3
    <3> QED
      BY <2>2, <3>1
  <2> QED
    BY <2>3, <2>4
<1>10. /\ w \in Seq(Ids) /\ Len(w) = Len(ids) - 1 /\ DOMAIN w = 1..(Len(ids) - 1)
       /\ \A m \in 1..(n - 1) : w[m] = ids[m]
       /\ \A m \in n..(Len(ids) - 1) : w[m] = ids[m + 1]
  <2>1. /\ w \in Seq(Ids) /\ Len(w) = Len(ids) - 1
        /\ \A m \in 1..(Len(ids) - 1) : w[m] = IF m <= n - 1 THEN front[m] ELSE back[m - (n - 1)]
    <3>1. Len(front) + Len(back) = Len(ids) - 1
      BY <1>1, <1>3, <1>8, <1>9
    <3> QED
      BY <1>6, <1>8, <1>9, <3>1, ConcatProperties
  <2>2. DOMAIN w = 1..(Len(ids) - 1)
    BY <2>1
  <2>3. ASSUME NEW m \in 1..(n - 1) PROVE w[m] = ids[m]
    BY <1>1, <1>3, <1>8, <2>1
  <2>4. ASSUME NEW m \in n..(Len(ids) - 1) PROVE w[m] = ids[m + 1]
    <3>1. w[m] = back[m - (n - 1)] /\ m - (n - 1) \in 1..(Len(ids) - n)
      BY <1>1, <1>3, <2>1
    <3> QED
      BY <1>1, <1>3, <1>9, <3>1
  <2> QED
    BY <2>1, <2>2, <2>3, <2>4
<1>11. \A l, m \in 1..Len(ids) : ids[l] = ids[m] => l = m
  BY <1>1 DEF IsInjective
<1>12. IsInjective(w)
  <2>1. ASSUME NEW l \in DOMAIN w, NEW m \in DOMAIN w, w[l] = w[m] PROVE l = m
    <3>1. CASE l < n /\ m < n
      BY <1>1, <1>3, <1>10, <1>11, <2>1, <3>1
    <3>2. CASE l < n /\ m >= n
      BY <1>1, <1>3, <1>10, <1>11, <2>1, <3>2
    <3>3. CASE l >= n /\ m < n
      BY SMTT(30), <1>1, <1>3, <1>10, <1>11, <2>1, <3>3
    <3>4. CASE l >= n /\ m >= n
      BY <1>1, <1>3, <1>10, <1>11, <2>1, <3>4
    <3> QED
      BY <1>3, <1>10, <3>1, <3>2, <3>3, <3>4
  <2> QED
    BY <2>1 DEF IsInjective
<1>13. ASSUME NEW i \in Ids PROVE Contains(w, i) <=> Contains(ids, i) /\ i # id
  <2>1. ASSUME NEW m \in 1..Len(w), w[m] = i PROVE Contains(ids, i) /\ i # id
    <3>1. CASE m < n
      BY <1>1, <1>3, <1>10, <1>11, <2>1, <3>1 DEF Contains
    <3>2. CASE m >= n
      <4>1. m + 1 \in 1..Len(ids) /\ ids[m + 1] = i /\ m + 1 # n
        BY <1>1, <1>3, <1>10, <2>1, <3>2
      <4> QED
        BY <1>3, <1>11, <4>1 DEF Contains
    <3> QED
      BY <1>3, <1>10, <3>1, <3>2
  <2>2. ASSUME NEW m \in 1..Len(ids), ids[m] = i, i # id PROVE Contains(w, i)
    <3>1. CASE m < n
      BY <1>1, <1>3, <1>10, <2>2, <3>1 DEF Contains
    <3>2. CASE m > n
      <4>1. m - 1 \in n..(Len(ids) - 1) /\ w[m - 1] = ids[m] /\ m - 1 \in 1..Len(w)
        BY <1>1, <1>3, <1>10, <2>2, <3>2
      <4> QED
        BY <2>2, <4>1 DEF Contains
    <3> QED
      BY <1>3, <2>2, <3>1, <3>2
  <2> QED
    BY <2>1, <2>2 DEF Contains
<1> QED
  BY <1>7, <1>10, <1>12, <1>13

Saving == {"save_messages", "append", "append_write"}
Deleting == {"delete_object", "delete_messages", "remove", "remove_write"}
Histories == {"none", "messages", "no_messages", "nothing", "half", "whole"}

\* Types, but of the outputs: those need the translations'.
Base ==
    /\ pc \in [Ids -> Stages]
    /\ kind \in [Ids -> KindType \cup {None}]
    /\ stream = [r \in Ids |-> stream[r]] /\ made = [r \in Ids |-> made[r]]
    /\ out = [r \in Ids |-> out[r]]
    /\ obj = [r \in Ids |-> obj[r]]
    /\ history \in [Ids -> Histories]
    /\ op \in [Processes -> OpType]
    /\ msgs \in SUBSET Ids /\ index \in Seq(Ids) /\ IsInjective(index)
    /\ crashes \in 0..MaxCrashes
    /\ deleted \in SUBSET Ids /\ torn \in SUBSET Ids /\ overwritten \in BOOLEAN

\* A process is at no method, or at one on an id; what it has read of the index, and
\* will write back, holds an id once and the one to be appended not at all.
Reading(p) ==
    /\ op[p].do # "idle" => op[p].id \in Ids
    /\ op[p].do \in {"append_write", "remove_write"} =>
          /\ IsInjective(op[p].ids)
          /\ op[p].do = "append_write" <=> ~Contains(op[p].ids, op[p].id)

\* The method a process is at, and the request it runs it for.
Serving(p) ==
    /\ op[p].do = "idle" => op[p].id = NoId
    /\ op[p].do = "chain" =>
          /\ op[p].for \in Ids /\ pc[op[p].for] = "chaining"
          /\ kind[op[p].for].at = p /\ kind[op[p].for].prev = op[p].id
    /\ op[p].do \in Saving =>
          /\ op[p].for = op[p].id /\ pc[op[p].id] = "saving"
          /\ kind[op[p].id].at = p /\ kind[op[p].id].store
    /\ op[p].do \in Deleting => op[p].for = NoId /\ op[p].id \in deleted

\* A request that is being saved has its process at it.
Waiting(r) ==
    pc[r] = "saving" => op[kind[r].at].do \in Saving /\ op[kind[r].at].id = r

Types ==
    /\ Base
    /\ \A r \in Ids : pc[r] # "new" => kind[r] \in KindType
    /\ \A p \in Processes : Reading(p) /\ Serving(p)
    /\ \A r \in Ids : Waiting(r)

LEMMA OpTyped ==
    ASSUME Base, NEW p \in Processes
    PROVE  /\ op[p] \in OpType /\ op[p].id \in Ids \cup {NoId} /\ op[p].for \in Ids \cup {NoId}
           /\ op[p].ids \in Seq(Ids)
           /\ op[p].do \in {"idle", "chain"} \cup Saving \cup Deleting
<1>1. op[p] \in OpType
  BY DEF Base
<1> QED
  BY <1>1 DEF OpType, Saving, Deleting

LEMMA KindTyped ==
    ASSUME NEW k \in KindType
    PROVE  k.at \in Processes /\ k.prev \in Ids \cup {NoId} /\ k.store \in BOOLEAN
BY DEF KindType

LEMMA IdleTyped == Idle \in OpType /\ Idle.do = "idle" /\ Idle.id = NoId /\ Idle.for = NoId
<1>1. << >> \in Seq(Ids)
  OBVIOUS
<1> QED
  BY <1>1 DEF Idle, OpType

\* What At writes.
LEMMA AtTyped ==
    ASSUME Base, NEW p \in Processes, NEW do \in {"chain"} \cup Saving \cup Deleting,
           NEW id \in Ids, NEW for \in Ids \cup {NoId}, At(p, do, id, for)
    PROVE  /\ op' \in [Processes -> OpType]
           /\ op'[p].do = do /\ op'[p].id = id /\ op'[p].for = for
           /\ \A q \in Processes : q # p => op'[q] = op[q]
<1> DEFINE o == [do |-> do, id |-> id, for |-> for, ids |-> << >>]
<1>1. o \in OpType
  <2>1. << >> \in Seq(Ids)
    OBVIOUS
  <2> QED
    BY <2>1 DEF OpType, Saving, Deleting
<1>2. op' = [op EXCEPT ![p] = o]
  BY DEF At
<1>3. o.do = do /\ o.id = id /\ o.for = for
  OBVIOUS
<1> HIDE DEF o
<1> QED
  BY <1>1, <1>2, <1>3 DEF Base

\* What Return writes.
LEMMA ReturnTyped ==
    ASSUME Base, NEW p \in Processes, Return(p)
    PROVE  /\ op' \in [Processes -> OpType] /\ op'[p] = Idle
           /\ \A q \in Processes : q # p => op'[q] = op[q]
           /\ pc' \in [Ids -> Stages]
           /\ \A r \in Ids : pc'[r] = IF r = op[p].for /\ pc[r] = "saving" THEN "over" ELSE pc[r]
           /\ out' = [r \in Ids |-> out'[r]]
           /\ \A r \in Ids : out'[r] = IF r = op[p].for /\ pc[r] = "saving" THEN made[r] ELSE out[r]
BY IdleTyped DEF Return, Awaits, Base, Stages

LEMMA MeetTyped ==
    ASSUME Base, NEW p \in Processes, NEW id \in Ids, Meet(p, id)
    PROVE  torn' \in SUBSET Ids
BY DEF Meet, Base

-----------------------------------------------------------------------------
(* Steps, by what they do to the store *)

\* The handler of r goes on, and does nothing to the store.
HandlerStep(r) ==
    /\ pc[r] \in {"calling", "streaming", "closing", "completed"}
    /\ pc'[r] \in {"refused", "streaming", "closing", "completed", "gone", "over"}
    /\ pc'[r] = "over" => ~kind[r].store
    /\ \A q \in Ids : q # r => pc'[q] = pc[q] /\ made'[q] = made[q]
    /\ pc' \in [Ids -> Stages]
    /\ stream' = [q \in Ids |-> stream'[q]] /\ made' = [q \in Ids |-> made'[q]]
    /\ out' = [q \in Ids |-> out'[q]]
    /\ UNCHANGED <<kind, history, op, storeVars, crashes, ghostVars>>

\* The handler of r has an answer, and begins to save it.
SaveStep(r) ==
    /\ pc[r] \in {"calling", "completed"} /\ pc'[r] = "saving"
    /\ kind[r].store /\ Free(kind[r].at)
    /\ \A q \in Ids : q # r => pc'[q] = pc[q] /\ made'[q] = made[q]
    /\ pc' \in [Ids -> Stages]
    /\ stream' = [q \in Ids |-> stream'[q]] /\ made' = [q \in Ids |-> made'[q]]
    /\ out' = [q \in Ids |-> out'[q]]
    /\ obj' = [obj EXCEPT ![r] = made'[r]]
    /\ At(kind[r].at, "save_messages", r, r) /\ Meet(kind[r].at, r)
    /\ UNCHANGED <<kind, history, msgs, index, crashes, deleted, overwritten>>

LEMMA AnswerEffect ==
    ASSUME Base, NEW r \in Ids, NEW output, Answer(r, output)
    PROVE  HandlerStep(r) \/ SaveStep(r)
<1>1. /\ pc[r] = "calling" /\ Free(kind[r].at) /\ made' = [made EXCEPT ![r] = output]
      /\ UNCHANGED <<kind, stream, history, msgs, index, crashes, deleted, overwritten>>
  BY DEF Answer
<1>2. /\ made'[r] = output /\ \A q \in Ids : q # r => made'[q] = made[q]
      /\ made' = [q \in Ids |-> made'[q]] /\ stream' = [q \in Ids |-> stream'[q]]
      /\ out' = [q \in Ids |-> out'[q]]
  <2>1. out' = out \/ out' = [out EXCEPT ![r] = output]
    BY DEF Answer
  <2> QED
    BY <1>1, <2>1 DEF Base
<1>3. CASE kind[r].store
  <2>1. pc' = [pc EXCEPT ![r] = "saving"] /\ SaveObject(r, output)
    BY <1>3 DEF Answer
  <2>2. pc'[r] = "saving" /\ pc' \in [Ids -> Stages] /\ \A q \in Ids : q # r => pc'[q] = pc[q]
    BY <2>1 DEF Base, Stages
  <2> QED
    BY <1>1, <1>2, <1>3, <2>1, <2>2 DEF SaveStep, SaveObject
<1>4. CASE ~kind[r].store
  <2>1. pc' = [pc EXCEPT ![r] = "over"] /\ UNCHANGED <<obj, op, torn>>
    BY <1>4 DEF Answer
  <2>2. pc'[r] = "over" /\ pc' \in [Ids -> Stages] /\ \A q \in Ids : q # r => pc'[q] = pc[q]
    BY <2>1 DEF Base, Stages
  <2> QED
    BY <1>1, <1>2, <1>4, <2>1, <2>2 DEF HandlerStep, storeVars, ghostVars
<1> QED
  BY <1>3, <1>4

LEMMA PersistEffect ==
    ASSUME Base, NEW r \in Ids, Persist(r)
    PROVE  HandlerStep(r) \/ SaveStep(r)
<1>1. /\ pc[r] = "completed" /\ Free(kind[r].at) /\ stream' = [stream EXCEPT ![r] = None]
      /\ UNCHANGED <<kind, made, out, history, msgs, index, crashes, deleted, overwritten>>
  BY DEF Persist
<1>2. /\ made' = [q \in Ids |-> made'[q]] /\ stream' = [q \in Ids |-> stream'[q]]
      /\ out' = [q \in Ids |-> out'[q]]
  BY <1>1 DEF Base
<1>3. CASE kind[r].store
  <2>1. pc' = [pc EXCEPT ![r] = "saving"] /\ SaveObject(r, made[r])
    BY <1>3 DEF Persist
  <2>2. pc'[r] = "saving" /\ pc' \in [Ids -> Stages] /\ \A q \in Ids : q # r => pc'[q] = pc[q]
    BY <2>1 DEF Base, Stages
  <2> QED
    BY <1>1, <1>2, <1>3, <2>1, <2>2 DEF SaveStep, SaveObject
<1>4. CASE ~kind[r].store
  <2>1. pc' = [pc EXCEPT ![r] = "over"] /\ UNCHANGED <<obj, op, torn>>
    BY <1>4 DEF Persist
  <2>2. pc'[r] = "over" /\ pc' \in [Ids -> Stages] /\ \A q \in Ids : q # r => pc'[q] = pc[q]
    BY <2>1 DEF Base, Stages
  <2> QED
    BY <1>1, <1>2, <1>4, <2>1, <2>2 DEF HandlerStep, storeVars, ghostVars
<1> QED
  BY <1>3, <1>4

LEMMA HandleEffect ==
    ASSUME Base, NEW r \in Ids, Handle(r) \/ Disconnect(r)
    PROVE  HandlerStep(r) \/ SaveStep(r)
<1>1. ASSUME Refused(r) \/ StreamBegins(r) \/ Delta(r) \/ StreamEnds(r) \/ EndCall(r) \/ Report(r)
             \/ Disconnect(r)
      PROVE  HandlerStep(r)
  <2>1. /\ pc[r] \in {"calling", "streaming", "closing", "completed"}
        /\ UNCHANGED <<kind, history, op, storeVars, crashes, ghostVars>>
    BY <1>1 DEF Refused, StreamBegins, Delta, StreamEnds, EndCall, Report, Disconnect
  <2>2. /\ pc'[r] \in {"refused", "streaming", "closing", "completed", "gone"}
        /\ pc' \in [Ids -> Stages] /\ \A q \in Ids : q # r => pc'[q] = pc[q]
    BY <1>1 DEF Refused, StreamBegins, Delta, StreamEnds, EndCall, Report, Disconnect, Base, Stages
  <2>3. /\ made' = [q \in Ids |-> made'[q]] /\ stream' = [q \in Ids |-> stream'[q]]
        /\ out' = [q \in Ids |-> out'[q]]
        /\ \A q \in Ids : q # r => made'[q] = made[q]
    BY <1>1 DEF Refused, StreamBegins, Delta, StreamEnds, EndCall, Report, Disconnect, Base
  <2> QED
    BY <2>1, <2>2, <2>3 DEF HandlerStep
<1> QED
  BY <1>1, AnswerEffect, PersistEffect DEF Handle

-----------------------------------------------------------------------------
(* Types, and who is at which method for whom *)

LEMMA HandlerTypes ==
    ASSUME Types, NEW r \in Ids, HandlerStep(r)
    PROVE  Types'
<1>1. Base /\ Base'
  BY DEF Types, HandlerStep, Base, storeVars, ghostVars
<1>2. \A q \in Ids : pc'[q] # "new" => kind'[q] \in KindType
  BY DEF Types, HandlerStep
<1>3. ASSUME NEW p \in Processes PROVE Reading(p)' /\ Serving(p)'
  <2>1. Reading(p) /\ Serving(p) /\ op' = op /\ kind' = kind /\ deleted' = deleted
    BY DEF Types, HandlerStep, ghostVars
  <2>2. op[p].do = "chain" => pc'[op[p].for] = "chaining"
    BY <2>1 DEF HandlerStep, Serving
  <2>3. op[p].do \in Saving => pc'[op[p].id] = "saving"
    BY <1>1, <2>1, OpTyped DEF HandlerStep, Serving, Reading, Saving
  <2> QED
    BY <2>1, <2>2, <2>3 DEF Reading, Serving
<1>4. \A q \in Ids : Waiting(q)'
  BY DEF Types, HandlerStep, Waiting
<1> QED
  BY <1>1, <1>2, <1>3, <1>4 DEF Types

LEMMA SaveTypes ==
    ASSUME Types, NEW r \in Ids, SaveStep(r)
    PROVE  Types'
<1>1. Base /\ kind[r] \in KindType /\ kind[r].at \in Processes
  BY KindTyped DEF Types, SaveStep
<1> DEFINE a == kind[r].at
<1>2. /\ op' \in [Processes -> OpType]
      /\ op'[a].do = "save_messages" /\ op'[a].id = r /\ op'[a].for = r
      /\ \A q \in Processes : q # a => op'[q] = op[q]
  BY <1>1, AtTyped DEF SaveStep, Saving
<1>3. torn' \in SUBSET Ids
  BY <1>1, MeetTyped DEF SaveStep
<1>4. Base'
  BY <1>1, <1>2, <1>3 DEF SaveStep, Base
<1>5. \A q \in Ids : pc'[q] # "new" => kind'[q] \in KindType
  BY DEF Types, SaveStep
<1>6. ASSUME NEW p \in Processes PROVE Reading(p)' /\ Serving(p)'
  <2>1. Reading(p) /\ Serving(p) /\ kind' = kind /\ deleted' = deleted
    BY SMTT(30) DEF Types, SaveStep
  <2>2. CASE p = a
    BY <1>2, <2>1, <2>2 DEF Reading, Serving, SaveStep, Saving, Deleting
  <2>3. CASE p # a
    <3>1. op'[p] = op[p]
      BY <1>2, <2>3
    <3>2. op[p].do = "chain" => pc'[op[p].for] = "chaining"
      BY <2>1 DEF SaveStep, Serving
    <3>3. op[p].do \in Saving => pc'[op[p].id] = "saving"
      BY <1>1, <2>1, OpTyped DEF SaveStep, Serving, Reading, Saving
    <3> QED
      BY <2>1, <3>1, <3>2, <3>3 DEF Reading, Serving
  <2> QED
    BY <2>2, <2>3
<1>7. ASSUME NEW q \in Ids PROVE Waiting(q)'
  <2>1. CASE q = r
    BY <1>2, <2>1 DEF Waiting, SaveStep, Saving
  <2>2. CASE q # r
    <3>1. Waiting(q) /\ pc'[q] = pc[q] /\ kind' = kind
      BY <2>2 DEF Types, SaveStep
    <3>2. pc[q] = "saving" => kind[q].at # a
      BY <3>1 DEF Waiting, SaveStep, Free, Saving
    <3>3. pc[q] = "saving" => kind[q].at \in Processes
      BY KindTyped DEF Types
    <3> QED
      BY <1>2, <3>1, <3>2, <3>3 DEF Waiting
  <2> QED
    BY <2>1, <2>2
<1> QED
  BY <1>4, <1>5, <1>6, <1>7 DEF Types

LEMMA ArriveTypes ==
    ASSUME Types, NEW r \in Ids, NEW k \in Kinds[r], Arrive(r, k)
    PROVE  Types'
<1>1. Base /\ k \in KindType /\ k.at \in Processes /\ k.prev \in Ids \cup {NoId}
  BY KindTyped, ResponsesAssumption DEF Types
<1>2. /\ pc[r] = "new" /\ Free(k.at) /\ kind' = [kind EXCEPT ![r] = k]
      /\ UNCHANGED <<stream, made, out, storeVars, crashes, deleted, overwritten>>
  BY DEF Arrive
<1>3. pc' \in [Ids -> Stages] /\ \A q \in Ids : q # r => pc'[q] = pc[q]
  BY <1>1 DEF Arrive, Base, Stages
<1>4. /\ kind' \in [Ids -> KindType \cup {None}] /\ kind'[r] = k
      /\ \A q \in Ids : q # r => kind'[q] = kind[q]
  BY <1>1, <1>2 DEF Base
<1>5. \A q \in Ids : pc'[q] # "new" => kind'[q] \in KindType
  BY <1>1, <1>3, <1>4 DEF Types
<1>6. pc'[r] # "saving"
  BY <1>1 DEF Arrive, Base
<1>7. CASE k.prev = NoId
  <2>1. UNCHANGED <<history, op, torn>>
    BY <1>7 DEF Arrive
  <2>2. Base'
    BY <1>1, <1>2, <1>3, <1>4, <2>1 DEF Base, storeVars
  <2>3. ASSUME NEW p \in Processes PROVE Reading(p)' /\ Serving(p)'
    <3>1. Reading(p) /\ Serving(p) /\ op' = op /\ deleted' = deleted
      BY <1>2, <2>1 DEF Types
    <3>2. op[p].do = "chain" => op[p].for # r
      BY <1>2, <3>1 DEF Serving
    <3>3. op[p].do \in Saving => op[p].id # r /\ op[p].id \in Ids
      BY <1>2, <3>1 DEF Serving, Reading, Saving
    <3> QED
      BY <1>3, <1>4, <3>1, <3>2, <3>3 DEF Reading, Serving
  <2>4. \A q \in Ids : Waiting(q)'
    BY <1>3, <1>4, <1>6, <2>1 DEF Types, Waiting
  <2> QED
    BY <1>5, <2>2, <2>3, <2>4 DEF Types
<1>8. CASE k.prev # NoId
  <2>1. /\ At(k.at, "chain", k.prev, r) /\ Meet(k.at, k.prev) /\ k.prev \in Ids
        /\ history' \in [Ids -> Histories] /\ pc'[r] = "chaining"
    BY <1>1, <1>8 DEF Arrive, Base, Histories
  <2>2. /\ op' \in [Processes -> OpType]
        /\ op'[k.at].do = "chain" /\ op'[k.at].id = k.prev /\ op'[k.at].for = r
        /\ \A q \in Processes : q # k.at => op'[q] = op[q]
    BY <1>1, <2>1, AtTyped
  <2>3. torn' \in SUBSET Ids
    BY <1>1, <2>1, MeetTyped
  <2>4. Base'
    BY <1>1, <1>2, <1>3, <1>4, <2>1, <2>2, <2>3 DEF Base, storeVars
  <2>5. ASSUME NEW p \in Processes PROVE Reading(p)' /\ Serving(p)'
    <3>1. Reading(p) /\ Serving(p) /\ deleted' = deleted
      BY <1>2 DEF Types
    <3>2. CASE p = k.at
      BY <1>4, <2>1, <2>2, <3>2 DEF Reading, Serving, Saving, Deleting
    <3>3. CASE p # k.at
      <4>1. op'[p] = op[p]
        BY <2>2, <3>3
      <4>2. op[p].do = "chain" => op[p].for # r
        BY <1>2, <3>1 DEF Serving
      <4>3. op[p].do \in Saving => op[p].id # r /\ op[p].id \in Ids
        BY <1>2, <3>1 DEF Serving, Reading, Saving
      <4> QED
        BY <1>3, <1>4, <3>1, <4>1, <4>2, <4>3 DEF Reading, Serving
    <3> QED
      BY <3>2, <3>3
  <2>6. ASSUME NEW q \in Ids PROVE Waiting(q)'
    <3>1. Waiting(q)
      BY DEF Types
    <3>2. CASE q # r /\ pc[q] = "saving"
      <4>1. kind[q].at \in Processes /\ kind[q].at # k.at
        BY <1>2, <3>1, <3>2, KindTyped DEF Types, Waiting, Free, Saving
      <4> QED
        BY <1>3, <1>4, <2>2, <3>1, <3>2, <4>1 DEF Waiting
    <3> QED
      BY <1>3, <1>6, <3>2 DEF Waiting
  <2> QED
    BY <1>5, <2>4, <2>5, <2>6 DEF Types
<1> QED
  BY <1>7, <1>8

LEMMA ChainTypes ==
    ASSUME Types, NEW p \in Processes, ChainOutput(p)
    PROVE  Types'
<1>1. Base /\ Reading(p) /\ Serving(p)
  BY DEF Types
<1>2. PICK r \in Ids : r = op[p].for /\ pc[r] = "chaining" /\ kind[r].at = p
  BY <1>1 DEF ChainOutput, Serving
<1>3. /\ pc' = [pc EXCEPT ![r] = "calling"] /\ op' = [op EXCEPT ![p] = Idle]
      /\ UNCHANGED <<kind, stream, made, out, storeVars, crashes, ghostVars>>
  BY <1>2 DEF ChainOutput
<1>4. history' \in [Ids -> Histories]
  BY <1>1, <1>2 DEF ChainOutput, Base, Histories, Found
<1>5. /\ pc' \in [Ids -> Stages] /\ pc'[r] = "calling" /\ \A q \in Ids : q # r => pc'[q] = pc[q]
      /\ op' \in [Processes -> OpType] /\ op'[p] = Idle
      /\ \A q \in Processes : q # p => op'[q] = op[q]
  BY <1>1, <1>3, IdleTyped DEF Base, Stages
<1>6. Base'
  BY <1>1, <1>3, <1>4, <1>5 DEF Base, storeVars, ghostVars
<1>7. \A q \in Ids : pc'[q] # "new" => kind'[q] \in KindType
  BY <1>2, <1>3, <1>5 DEF Types
<1>8. ASSUME NEW q \in Processes PROVE Reading(q)' /\ Serving(q)'
  <2>1. Reading(q) /\ Serving(q) /\ kind' = kind /\ deleted' = deleted
    BY <1>3 DEF Types, ghostVars
  <2>2. CASE q = p
    BY <1>5, <2>2, IdleTyped DEF Reading, Serving, Saving, Deleting
  <2>3. CASE q # p
    <3>1. op'[q] = op[q]
      BY <1>5, <2>3
    <3>2. op[q].do = "chain" => op[q].for # r
      BY <1>2, <2>1, <2>3 DEF Serving
    <3>3. op[q].do \in Saving => op[q].id # r /\ op[q].id \in Ids
      BY <1>2, <2>1 DEF Serving, Reading, Saving
    <3> QED
      BY <1>5, <2>1, <3>1, <3>2, <3>3 DEF Reading, Serving
  <2> QED
    BY <2>2, <2>3
<1>9. ASSUME NEW q \in Ids PROVE Waiting(q)'
  <2>1. Waiting(q)
    BY DEF Types
  <2>2. CASE q # r /\ pc[q] = "saving"
    <3>1. kind[q].at \in Processes /\ kind[q].at # p
      BY <2>1, <2>2, KindTyped DEF Types, Waiting, ChainOutput, Saving
    <3> QED
      BY <1>3, <1>5, <2>1, <2>2, <3>1 DEF Waiting
  <2> QED
    BY <1>5, <2>2 DEF Waiting
<1> QED
  BY <1>6, <1>7, <1>8, <1>9 DEF Types

\* A process goes on to a command of the method it is at, or of a delete.
LEMMA MoveTypes ==
    ASSUME Types, NEW p \in Processes, NEW do \in (Saving \cup Deleting) \ {"append_write", "remove_write"},
           NEW id \in Ids, NEW for \in Ids \cup {NoId}, At(p, do, id, for),
           op[p].do \in Saving <=> do \in Saving,
           do \in Saving => id = op[p].id /\ for = op[p].for,
           do \in Deleting => for = NoId /\ id \in deleted',
           UNCHANGED <<sessionVars, index, crashes, overwritten>>,
           obj' = [r \in Ids |-> obj'[r]], msgs' \in SUBSET Ids,
           deleted' \in SUBSET Ids, deleted \subseteq deleted', torn' \in SUBSET Ids
    PROVE  Types'
<1>1. Base
  BY DEF Types
<1>2. /\ op' \in [Processes -> OpType]
      /\ op'[p].do = do /\ op'[p].id = id /\ op'[p].for = for
      /\ \A q \in Processes : q # p => op'[q] = op[q]
  BY <1>1, AtTyped
<1>3. Base'
  BY <1>1, <1>2 DEF Base, sessionVars
<1>4. \A q \in Ids : pc'[q] # "new" => kind'[q] \in KindType
  BY DEF Types, sessionVars
<1>5. ASSUME NEW q \in Processes PROVE Reading(q)' /\ Serving(q)'
  <2>1. Reading(q) /\ Serving(q) /\ kind' = kind /\ pc' = pc
    BY DEF Types, sessionVars
  <2>2. CASE q = p
    BY <1>2, <2>1, <2>2 DEF Reading, Serving, Saving, Deleting
  <2>3. CASE q # p
    BY <1>2, <2>1, <2>3 DEF Reading, Serving
  <2> QED
    BY <2>2, <2>3
<1>6. ASSUME NEW q \in Ids PROVE Waiting(q)'
  <2>1. Waiting(q) /\ kind' = kind /\ pc' = pc
    BY DEF Types, sessionVars
  <2>2. CASE pc[q] = "saving"
    <3>1. kind[q].at \in Processes
      BY <2>2, KindTyped DEF Types
    <3> QED
      BY <1>2, <2>1, <2>2, <3>1 DEF Waiting
  <2> QED
    BY <2>1, <2>2 DEF Waiting
<1> QED
  BY <1>3, <1>4, <1>5, <1>6 DEF Types

LEMMA CommandTypes ==
    ASSUME Types, NEW p \in Processes, SaveMessages(p) \/ DeleteObject(p) \/ DeleteMessages(p)
    PROVE  Types'
<1>1. Base /\ Reading(p) /\ Serving(p) /\ op[p].id \in Ids
  BY DEF Types, Reading, SaveMessages, DeleteObject, DeleteMessages
<1>2. CASE SaveMessages(p)
  <2>1. /\ op[p].do = "save_messages" /\ At(p, "append", op[p].id, op[p].for)
        /\ msgs' = msgs \cup {op[p].id}
        /\ UNCHANGED <<sessionVars, obj, index, crashes, ghostVars>>
    BY <1>2 DEF SaveMessages
  <2>2. op[p].for \in Ids \cup {NoId} /\ msgs' \in SUBSET Ids
    BY <1>1, <2>1, OpTyped DEF Base
  <2> QED
    BY <1>1, <2>1, <2>2, MoveTypes DEF Base, ghostVars, Saving, Deleting
<1>3. CASE DeleteObject(p)
  <2>1. /\ op[p].do = "delete_object" /\ At(p, "delete_messages", op[p].id, NoId)
        /\ obj' = [obj EXCEPT ![op[p].id] = None]
        /\ UNCHANGED <<sessionVars, msgs, index, crashes, ghostVars>>
    BY <1>3 DEF DeleteObject
  <2>2. op[p].id \in deleted /\ obj' = [r \in Ids |-> obj'[r]]
    BY <1>1, <2>1 DEF Serving, Deleting, Base
  <2> QED
    BY <1>1, <2>1, <2>2, MoveTypes DEF Base, ghostVars, Saving, Deleting
<1>4. CASE DeleteMessages(p)
  <2>1. /\ op[p].do = "delete_messages" /\ At(p, "remove", op[p].id, NoId)
        /\ msgs' = msgs \ {op[p].id}
        /\ UNCHANGED <<sessionVars, obj, index, crashes, ghostVars>>
    BY <1>4 DEF DeleteMessages
  <2>2. op[p].id \in deleted /\ msgs' \in SUBSET Ids
    BY <1>1, <2>1 DEF Serving, Deleting, Base
  <2> QED
    BY <1>1, <2>1, <2>2, MoveTypes DEF Base, ghostVars, Saving, Deleting
<1> QED
  BY <1>2, <1>3, <1>4

LEMMA DeleteTypes ==
    ASSUME Types, NEW r \in Ids, NEW p \in Processes, Delete(r, p)
    PROVE  Types'
<1>1. Base
  BY DEF Types
<1>2. /\ op[p].do = "idle" /\ At(p, "delete_object", r, NoId) /\ Meet(p, r)
      /\ deleted' = deleted \cup {r}
      /\ UNCHANGED <<sessionVars, storeVars, crashes, overwritten>>
  BY DEF Delete, Free
<1>3. torn' \in SUBSET Ids
  BY <1>1, <1>2, MeetTyped
<1> QED
  BY <1>1, <1>2, <1>3, MoveTypes DEF Base, storeVars, Saving, Deleting

\* A method ends, and a request that was waiting for it is through.
LEMMA ReturnTypes ==
    ASSUME Types, NEW p \in Processes, op[p].do \in Saving \cup Deleting, Return(p),
           index' \in Seq(Ids), IsInjective(index'), overwritten' \in BOOLEAN,
           UNCHANGED <<kind, stream, made, history, obj, msgs, crashes, deleted, torn>>
    PROVE  Types'
<1>1. Base /\ Serving(p) /\ Reading(p)
  BY DEF Types
<1>2. /\ op' \in [Processes -> OpType] /\ op'[p] = Idle
      /\ \A q \in Processes : q # p => op'[q] = op[q]
      /\ pc' \in [Ids -> Stages] /\ out' = [r \in Ids |-> out'[r]]
      /\ \A r \in Ids : pc'[r] = IF r = op[p].for /\ pc[r] = "saving" THEN "over" ELSE pc[r]
  BY <1>1, ReturnTyped
<1>3. Base'
  BY <1>1, <1>2 DEF Base
<1>4. \A q \in Ids : pc'[q] # "new" => kind'[q] \in KindType
  BY <1>2 DEF Types
<1>5. ASSUME NEW q \in Processes PROVE Reading(q)' /\ Serving(q)'
  <2>1. Reading(q) /\ Serving(q) /\ kind' = kind /\ deleted' = deleted
    BY DEF Types
  <2>2. CASE q = p
    BY <1>2, <2>2, IdleTyped DEF Reading, Serving, Saving, Deleting
  <2>3. CASE q # p
    <3>1. op'[q] = op[q]
      BY <1>2, <2>3
    <3>2. op[q].do = "chain" => pc'[op[q].for] = "chaining"
      BY <1>2, <2>1 DEF Serving
    <3>3. op[q].do \in Saving => pc'[op[q].id] = "saving"
      <4>1. ASSUME op[q].do \in Saving PROVE op[q].id \in Ids /\ op[q].id # op[p].for /\ pc[op[q].id] = "saving"
        <5>1. op[q].id \in Ids /\ pc[op[q].id] = "saving" /\ kind[op[q].id].at = q
          BY <2>1, <4>1 DEF Serving, Reading, Saving
        <5>2. op[p].for # op[q].id
          BY <1>1, <2>3, <5>1, ResponsesAssumption DEF Serving
        <5> QED
          BY <5>1, <5>2
      <4> QED
        BY <1>2, <4>1
    <3> QED
      BY <2>1, <3>1, <3>2, <3>3 DEF Reading, Serving
  <2> QED
    BY <2>2, <2>3
<1>6. ASSUME NEW q \in Ids PROVE Waiting(q)'
  <2>1. Waiting(q) /\ kind' = kind
    BY DEF Types
  <2>2. CASE pc'[q] = "saving"
    <3>1. pc[q] = "saving" /\ q # op[p].for
      BY <1>2, <2>2
    <3>2. kind[q].at \in Processes /\ kind[q].at # p
      BY <1>1, <2>1, <3>1, KindTyped DEF Types, Waiting, Serving
    <3> QED
      BY <1>2, <2>1, <3>1, <3>2 DEF Waiting
  <2> QED
    BY <2>2 DEF Waiting
<1> QED
  BY <1>3, <1>4, <1>5, <1>6 DEF Types

\* Between reading the index and writing it, it is read.
LEMMA ReadTypes ==
    ASSUME Types, NEW p \in Processes, ReadIndex(p)
    PROVE  Types'
<1>1. Base /\ Serving(p) /\ Reading(p) /\ op[p].do \in {"append", "remove"}
  BY DEF Types, ReadIndex
<1>2. UNCHANGED <<kind, stream, made, history, storeVars, crashes, ghostVars>>
  BY DEF ReadIndex
<1>3. CASE op[p].do = "append" <=> Contains(index, op[p].id)
  <2>1. Return(p)
    BY <1>3 DEF ReadIndex
  <2> QED
    BY <1>1, <1>2, <2>1, ReturnTypes DEF Base, storeVars, ghostVars, Saving, Deleting
<1>4. CASE ~(op[p].do = "append" <=> Contains(index, op[p].id))
  <2>1. PICK do : do = IF op[p].do = "append" THEN "append_write" ELSE "remove_write"
    OBVIOUS
  <2>2. pc' = pc /\ out' = out /\ op' = [op EXCEPT ![p].do = do, ![p].ids = index]
    BY <1>4, <2>1 DEF ReadIndex
  <2>3. op[p] \in OpType /\ op[p].id \in Ids
    BY <1>1 DEF Base, Reading
  <2>4. PICK o : o = [op[p] EXCEPT !.do = do, !.ids = index]
    OBVIOUS
  <2>5. o \in OpType /\ o.do = do /\ o.ids = index /\ o.id = op[p].id /\ o.for = op[p].for
    BY <1>1, <2>1, <2>3, <2>4 DEF OpType, Base
  <2>6. op' = [op EXCEPT ![p] = o]
    BY <1>1, <2>2, <2>3, <2>4 DEF Base, OpType
  <2>7. op' \in [Processes -> OpType] /\ op'[p] = o /\ \A q \in Processes : q # p => op'[q] = op[q]
    BY <1>1, <2>5, <2>6 DEF Base
  <2>8. Base'
    BY <1>1, <1>2, <2>2, <2>7 DEF Base, storeVars, ghostVars
  <2>9. \A q \in Ids : pc'[q] # "new" => kind'[q] \in KindType
    BY <1>2, <2>2 DEF Types
  <2>10. ASSUME NEW q \in Processes PROVE Reading(q)' /\ Serving(q)'
    <3>1. Reading(q) /\ Serving(q) /\ pc' = pc /\ kind' = kind /\ deleted' = deleted
      BY <1>2, <2>2 DEF Types, ghostVars
    <3>2. CASE q = p
      <4>1. Reading(p)'
        <5>1. do \in {"append_write", "remove_write"} /\ (do = "append_write" <=> op[p].do = "append")
          BY <1>1, <2>1
        <5>2. IsInjective(index) /\ (do = "append_write" <=> ~Contains(index, op[p].id))
          BY <1>1, <1>4, <5>1 DEF Base
        <5> QED
          BY <2>3, <2>5, <2>7, <5>1, <5>2 DEF Reading
      <4>2. Serving(p)'
        BY <1>1, <2>1, <2>5, <2>7, <3>1 DEF Serving, Saving, Deleting
      <4> QED
        BY <3>2, <4>1, <4>2
    <3>3. CASE q # p
      BY <2>7, <3>1, <3>3 DEF Reading, Serving
    <3> QED
      BY <3>2, <3>3
  <2>11. ASSUME NEW q \in Ids PROVE Waiting(q)'
    <3>1. Waiting(q) /\ pc' = pc /\ kind' = kind
      BY <1>2, <2>2 DEF Types
    <3>2. CASE pc[q] = "saving"
      <4>1. kind[q].at \in Processes
        BY <3>2, KindTyped DEF Types
      <4> QED
        BY <1>1, <2>1, <2>5, <2>7, <3>1, <3>2, <4>1 DEF Waiting, Saving
    <3> QED
      BY <3>1, <3>2 DEF Waiting
  <2> QED
    BY <2>8, <2>9, <2>10, <2>11 DEF Types
<1> QED
  BY <1>3, <1>4

LEMMA WriteTypes ==
    ASSUME Types, NEW p \in Processes, WriteIndex(p)
    PROVE  Types'
<1>1. Base /\ Serving(p) /\ Reading(p) /\ op[p].do \in {"append_write", "remove_write"}
  BY DEF Types, WriteIndex
<1>2. op[p].ids \in Seq(Ids) /\ IsInjective(op[p].ids) /\ op[p].id \in Ids
  BY <1>1, OpTyped DEF Reading
<1>3. index' \in Seq(Ids) /\ IsInjective(index')
  <2>1. CASE op[p].do = "append_write"
    <3>1. index' = Append(op[p].ids, op[p].id) /\ ~Contains(op[p].ids, op[p].id)
      BY <1>1, <2>1 DEF WriteIndex, Updated, Reading
    <3> QED
      BY <1>2, <3>1, AppendedIds
  <2>2. CASE op[p].do = "remove_write"
    <3>1. index' = Without(op[p].ids, op[p].id) /\ Contains(op[p].ids, op[p].id)
      BY <1>1, <2>2 DEF WriteIndex, Updated, Reading
    <3> QED
      BY <1>2, <3>1, WithoutIt
  <2> QED
    BY <1>1, <2>1, <2>2
<1>4. overwritten' \in BOOLEAN
  BY <1>1 DEF WriteIndex, Base
<1> QED
  BY <1>1, <1>3, <1>4, ReturnTypes DEF WriteIndex, Saving, Deleting

LEMMA CrashTypes ==
    ASSUME Types, NEW p \in Processes, Crash(p)
    PROVE  Types'
<1>1. Base /\ Reading(p)
  BY DEF Types
<1>2. /\ crashes' \in 0..MaxCrashes /\ torn' \in SUBSET Ids
      /\ UNCHANGED <<kind, made, out, history, storeVars, deleted, overwritten>>
  BY <1>1, OpTyped, ResponsesAssumption DEF Crash, Base
<1>3. /\ op' \in [Processes -> OpType] /\ op'[p] = Idle
      /\ \A q \in Processes : q # p => op'[q] = op[q]
  BY <1>1, IdleTyped DEF Crash, Base
<1>4. /\ pc' \in [Ids -> Stages] /\ stream' = [r \in Ids |-> stream'[r]]
      /\ \A r \in Ids : pc'[r] = IF r \in Handled(p) THEN "gone" ELSE pc[r]
  BY <1>1 DEF Crash, Base, Stages
<1>5. Base'
  BY <1>1, <1>2, <1>3, <1>4 DEF Base, storeVars
<1>6. \A q \in Ids : pc'[q] # "new" => kind'[q] \in KindType
  BY <1>2, <1>4 DEF Types, Handled
<1>7. ASSUME NEW q \in Processes PROVE Reading(q)' /\ Serving(q)'
  <2>1. Reading(q) /\ Serving(q) /\ kind' = kind /\ deleted' = deleted
    BY <1>2 DEF Types
  <2>2. CASE q = p
    BY <1>3, <2>2, IdleTyped DEF Reading, Serving, Saving, Deleting
  <2>3. CASE q # p
    <3>1. op'[q] = op[q]
      BY <1>3, <2>3
    <3>2. op[q].do = "chain" => pc'[op[q].for] = "chaining"
      BY <1>4, <2>1, <2>3 DEF Serving, Handled
    <3>3. op[q].do \in Saving => pc'[op[q].id] = "saving"
      BY <1>4, <2>1, <2>3 DEF Serving, Reading, Saving, Handled
    <3> QED
      BY <2>1, <3>1, <3>2, <3>3 DEF Reading, Serving
  <2> QED
    BY <2>2, <2>3
<1>8. ASSUME NEW q \in Ids PROVE Waiting(q)'
  <2>1. Waiting(q) /\ kind' = kind
    BY <1>2 DEF Types
  <2>2. CASE pc'[q] = "saving"
    <3>1. pc[q] = "saving" /\ q \notin Handled(p)
      BY <1>4, <2>2
    <3>2. kind[q].at \in Processes /\ kind[q].at # p
      BY <3>1, KindTyped DEF Types, Handled
    <3> QED
      BY <1>3, <2>1, <3>1, <3>2 DEF Waiting
  <2> QED
    BY <2>2 DEF Waiting
<1> QED
  BY <1>5, <1>6, <1>7, <1>8 DEF Types

LEMMA TypesHold == Spec => []Types
<1>1. Init => Types
  <2> SUFFICES ASSUME Init PROVE Types
    OBVIOUS
  <2>1. << >> \in Seq(Ids) /\ IsInjective(<< >>)
    BY DEF IsInjective
  <2>2. 0 \in 0..MaxCrashes
    BY ResponsesAssumption
  <2>3. Base
    BY <2>1, <2>2, IdleTyped DEF Init, Base, Stages, Histories
  <2>4. \A p \in Processes : op[p] = Idle
    BY DEF Init
  <2>5. \A p \in Processes : Reading(p) /\ Serving(p)
    BY <2>4, IdleTyped DEF Reading, Serving, Saving, Deleting
  <2>6. \A r \in Ids : pc[r] = "new" /\ Waiting(r)
    BY DEF Init, Waiting
  <2> QED
    BY <2>3, <2>5, <2>6 DEF Types
<1>2. Types /\ [Next]_vars => Types'
  <2> SUFFICES ASSUME Types, [Next]_vars PROVE Types'
    OBVIOUS
  <2>1. ASSUME UNCHANGED vars PROVE Types'
    BY <2>1 DEF vars, sessionVars, storeVars, ghostVars, Types, Base, Reading, Serving, Waiting
  <2>2. ASSUME NEW r \in Ids, Handle(r) \/ Disconnect(r) PROVE Types'
    BY <2>2, HandleEffect, HandlerTypes, SaveTypes DEF Types
  <2>3. ASSUME NEW p \in Processes, Command(p) PROVE Types'
    BY <2>3, ChainTypes, CommandTypes, ReadTypes, WriteTypes DEF Command
  <2> QED
    BY <2>1, <2>2, <2>3, ArriveTypes, DeleteTypes, CrashTypes DEF Next
<1> QED
  BY <1>1, <1>2, PTL DEF Spec

-----------------------------------------------------------------------------
(* Sequences put together from parts, and ends of sequences *)

\* A set of numbers has a least one: what holds of each place of a sequence if
\* it holds of those before it holds of all.
LEMMA Least ==
    ASSUME NEW T, T \subseteq Nat, T # {}
    PROVE  \E n \in T : \A m \in T : n <= m
<1>1. \A m \in Nat, n \in Nat : m < n => <<m, n>> \in OpToRel(<, Nat)
  BY DEF OpToRel
<1>2. \E R : IsWellFoundedOn(R, Nat) /\ \A m, n \in Nat : m < n => <<m, n>> \in R
  BY <1>1, NatLessThanWellFounded, Zenon
<1>3. PICK R : IsWellFoundedOn(R, Nat) /\ \A m, n \in Nat : m < n => <<m, n>> \in R
  BY <1>2
<1>4. IsWellFoundedOn(R, Nat)
  BY <1>3
<1>5. \E n \in T : \A m \in T : ~(<<m, n>> \in R)
  <2> HIDE <1>3
  <2> QED
    BY <1>4, WFMin, Zenon
<1>6. PICK n \in T : \A m \in T : ~(<<m, n>> \in R)
  BY <1>5
<1>7. ASSUME NEW m \in T PROVE n <= m
  <2>1. m \in Nat /\ n \in Nat
    OBVIOUS
  <2>2. ~(m < n)
    BY <1>3, <1>6, <2>1
  <2> QED
    BY <2>1, <2>2
<1> QED
  BY <1>6, <1>7

\* f[i] is the first i parts, one after the other.
Flattens(parts, f, n) ==
    f = [i \in 1..n |-> IF i = 1 THEN parts[i] ELSE f[i - 1] \o parts[i]]

LEMMA FlattenDefined ==
    ASSUME NEW S, NEW parts \in Seq(Seq(S)), parts # << >>
    PROVE  \E f : Flattens(parts, f, Len(parts)) /\ FlattenSeq(parts) = f[Len(parts)]
<1>1. Len(parts) \in Nat \ {0}
  OBVIOUS
<1> DEFINE T == {n \in 1..Len(parts) : ~\E f : Flattens(parts, f, n)}
<1>2. T = {}
  <2>1. SUFFICES ASSUME T # {} PROVE FALSE
    OBVIOUS
  <2>2. T \subseteq Nat
    OBVIOUS
  <2>3. PICK n \in T : \A m \in T : n <= m
    BY <2>1, <2>2, Least, Zenon
  <2>4. n \in 1..Len(parts) /\ ~\E f : Flattens(parts, f, n)
    OBVIOUS
  <2>5. CASE n = 1
    <3>1. Flattens(parts, [i \in 1..n |-> parts[i]], n)
      BY <2>5 DEF Flattens
    <3> QED
      BY <2>4, <3>1
  <2>6. CASE n # 1
    <3>1. n \in Nat /\ n - 1 \in 1..Len(parts) /\ ~(n <= n - 1)
      BY <1>1, <2>4, <2>6
    <3>5. n - 1 \notin T
      <4> HIDE DEF T
      <4> QED
        BY <2>3, <3>1
    <3>2. PICK f : Flattens(parts, f, n - 1)
      BY <3>1, <3>5
    <3> DEFINE g == [i \in 1..n |-> IF i < n THEN f[i] ELSE f[n - 1] \o parts[n]]
    <3>3. ASSUME NEW i \in 1..n
          PROVE  g[i] = IF i = 1 THEN parts[i] ELSE g[i - 1] \o parts[i]
      <4>1. CASE i = n
        <5>1. n \in 1..n /\ n - 1 \in 1..n /\ n - 1 < n
          BY <2>6, <3>1
        <5>2. ~(n < n)
          BY <3>1
        <5>3. g[n] = f[n - 1] \o parts[n]
          BY <5>1, <5>2, Zenon
        <5>4. g[n - 1] = f[n - 1]
          BY <5>1, Zenon
        <5> QED
          BY <2>6, <4>1, <5>3, <5>4
      <4>2. CASE i < n
        <5>1. i \in 1..n - 1 /\ g[i] = f[i]
          BY <3>1, <4>2
        <5>2. i # 1 => g[i - 1] = f[i - 1]
          BY <3>1, <4>2
        <5>3. f[i] = IF i = 1 THEN parts[i] ELSE f[i - 1] \o parts[i]
          BY <3>2, <5>1 DEF Flattens
        <5> QED
          BY <5>1, <5>2, <5>3
      <4> QED
        BY <3>1, <4>1, <4>2
    <3>4. Flattens(parts, g, n)
      BY <3>3 DEF Flattens
    <3> QED
      BY <2>4, <3>4
  <2> QED
    BY <2>5, <2>6
<1>3. Len(parts) \in 1..Len(parts)
  BY <1>1
<1>4. \E f : Flattens(parts, f, Len(parts))
  BY <1>2, <1>3
<1> DEFINE flat == CHOOSE f : Flattens(parts, f, Len(parts))
<1>5. Flattens(parts, flat, Len(parts))
  BY <1>4, Zenon
<1>6. FlattenSeq(parts) = flat[Len(parts)]
  BY <1>1 DEF FlattenSeq, Flattens
<1> QED
  BY <1>5, <1>6

\* Flattening a sequence with a part more flattens the sequence, and adds the part.
LEMMA FlattenAppend ==
    ASSUME NEW S, NEW parts \in Seq(Seq(S)), NEW part \in Seq(S)
    PROVE  /\ FlattenSeq(parts) \in Seq(S)
           /\ FlattenSeq(Append(parts, part)) = FlattenSeq(parts) \o part
<1> DEFINE more == Append(parts, part)
<1>1. /\ more \in Seq(Seq(S)) /\ Len(more) = Len(parts) + 1 /\ Len(parts) \in Nat
      /\ \A i \in 1..Len(parts) : more[i] = parts[i] /\ parts[i] \in Seq(S)
      /\ more[Len(parts) + 1] = part /\ more # << >>
  <2>1. more \in Seq(Seq(S)) /\ Len(more) = Len(parts) + 1 /\ Len(parts) \in Nat
    OBVIOUS
  <2>2. \A i \in 1..Len(parts) : more[i] = parts[i] /\ parts[i] \in Seq(S)
    OBVIOUS
  <2>3. more[Len(parts) + 1] = part
    OBVIOUS
  <2>4. more # << >>
    BY <2>1
  <2> QED
    BY <2>1, <2>2, <2>3, <2>4
<1> HIDE DEF more
<1>2. PICK g : Flattens(more, g, Len(more)) /\ FlattenSeq(more) = g[Len(more)]
  BY <1>1, FlattenDefined
<1>3. \A i \in 1..Len(more) : g[i] = IF i = 1 THEN more[i] ELSE g[i - 1] \o more[i]
  BY <1>2 DEF Flattens
<1>4. CASE parts = << >>
  <2>1. FlattenSeq(parts) = << >>
    BY <1>4 DEF FlattenSeq
  <2>2. Len(more) = 1 /\ g[1] = part
    BY <1>1, <1>3, <1>4
  <2>3. << >> \o part = part
    OBVIOUS
  <2> QED
    BY <1>2, <2>1, <2>2, <2>3 DEF more
<1>5. CASE parts # << >>
  <2>1. PICK f : Flattens(parts, f, Len(parts)) /\ FlattenSeq(parts) = f[Len(parts)]
    BY <1>5, FlattenDefined
  <2>2. \A i \in 1..Len(parts) : f[i] = IF i = 1 THEN parts[i] ELSE f[i - 1] \o parts[i]
    BY <2>1 DEF Flattens
  <2> DEFINE Same(n) == f[n] = g[n] /\ f[n] \in Seq(S)
             T == {n \in 1..Len(parts) : ~Same(n)}
  <2>3. T = {}
    <3>1. SUFFICES ASSUME T # {} PROVE FALSE
      OBVIOUS
    <3>2. T \subseteq Nat
      OBVIOUS
    <3>3. PICK n \in T : \A m \in T : n <= m
      BY <3>1, <3>2, Least, Zenon
    <3>4. n \in 1..Len(parts) /\ ~Same(n) /\ n \in 1..Len(more)
      BY <1>1
    <3> HIDE DEF Same
    <3>5. /\ f[n] = IF n = 1 THEN parts[n] ELSE f[n - 1] \o parts[n]
          /\ g[n] = IF n = 1 THEN parts[n] ELSE g[n - 1] \o parts[n]
          /\ parts[n] \in Seq(S)
      BY <1>1, <1>3, <2>2, <3>4
    <3>6. CASE n = 1
      BY <3>4, <3>5, <3>6 DEF Same
    <3>7. CASE n # 1
      <4>1. Same(n - 1)
        BY <3>3, <3>4, <3>7
      <4>2. PICK s \in Seq(S) : s = f[n - 1] /\ s = g[n - 1]
        BY <4>1 DEF Same
      <4>3. PICK p \in Seq(S) : p = parts[n]
        BY <3>5
      <4>4. s \o p \in Seq(S)
        OBVIOUS
      <4>5. f[n] = s \o p /\ g[n] = s \o p
        BY <3>5, <3>7, <4>2, <4>3
      <4> QED
        BY <3>4, <4>4, <4>5 DEF Same
    <3> QED
      BY <3>6, <3>7
  <2>4. Len(parts) # 0 /\ Len(parts) \in 1..Len(parts)
    BY <1>1, <1>5
  <2>5. Same(Len(parts))
    BY <2>3, <2>4
  <2>6. Len(parts) + 1 \in 1..Len(more) /\ Len(parts) + 1 # 1 /\ (Len(parts) + 1) - 1 = Len(parts)
    BY <1>1, <2>4
  <2>7. g[Len(more)] = g[Len(parts)] \o part
    BY <1>1, <1>3, <2>6
  <2> QED
    BY <1>2, <2>1, <2>5, <2>7 DEF more
<1> QED
  BY <1>4, <1>5

\* Nothing comes of parts that hold nothing.
LEMMA FlattenNothing ==
    ASSUME NEW S, NEW parts \in Seq(Seq(S)), \A i \in DOMAIN parts : parts[i] = << >>
    PROVE  FlattenSeq(parts) = << >>
<1>1. CASE parts = << >>
  BY <1>1 DEF FlattenSeq
<1>2. CASE parts # << >>
  <2>1. PICK f : Flattens(parts, f, Len(parts)) /\ FlattenSeq(parts) = f[Len(parts)]
    BY <1>2, FlattenDefined
  <2>2. \A i \in 1..Len(parts) : f[i] = IF i = 1 THEN << >> ELSE f[i - 1] \o << >>
    <3>1. \A i \in 1..Len(parts) : parts[i] = << >>
      OBVIOUS
    <3>2. \A i \in 1..Len(parts) : f[i] = IF i = 1 THEN parts[i] ELSE f[i - 1] \o parts[i]
      BY <2>1 DEF Flattens
    <3> QED
      BY <3>1, <3>2
  <2> DEFINE T == {n \in 1..Len(parts) : f[n] # << >>}
  <2>3. T = {}
    <3>1. SUFFICES ASSUME T # {} PROVE FALSE
      OBVIOUS
    <3>2. T \subseteq Nat
      OBVIOUS
    <3>3. PICK n \in T : \A m \in T : n <= m
      BY <3>1, <3>2, Least, Zenon
    <3>4. n \in 1..Len(parts) /\ f[n] # << >>
      OBVIOUS
    <3>5. n # 1 /\ f[n] = f[n - 1] \o << >>
      BY <2>2, <3>4
    <3>6. f[n - 1] = << >>
      BY <3>3, <3>4, <3>5
    <3> QED
      BY <3>4, <3>5, <3>6
  <2>4. Len(parts) \in 1..Len(parts)
    BY <1>2
  <2> QED
    BY <2>1, <2>3, <2>4
<1> QED
  BY <1>1, <1>2

-----------------------------------------------------------------------------
(* What a translation has said of its items *)

\* What bodies of events are made of.
Bits == Nat \cup ItemType

\* All the text of the stream so far.
AllText(log) == TextUpTo(log, Len(log))

\* The finished arguments of a call are what was received of it; a finished
\* text is all the text there had been.
Truthful(log) ==
    \A e \in DOMAIN log :
       /\ log[e].type = "args_done" => log[e].body = Received(log, log[e].id)
       /\ log[e].type = "done" =>
             log[e].body = IF Called(log, log[e].id) THEN Received(log, log[e].id)
                           ELSE TextUpTo(log, e)

\* Arguments are finished when their call is.
Final(log) == \A e \in DOMAIN log : log[e].type = "args_done" => Ended(log, log[e].id)

\* What the translation holds of its items is what it has sent of them.
Holding(t) ==
    /\ t.said = AllText(t.log)
    /\ \A n \in DOMAIN t.calls : t.calls[n].args = Received(t.log, t.calls[n].id)
    /\ Bodies(t.output) = DoneBodies(t.log)

Told(t) ==
    /\ Truthful(t.log) /\ Final(t.log) /\ Holding(t)
    /\ Completed(t) => Last(t.log).body = t.output

\* u.log is t.log and an event of that type and item, with that body: what is
\* received and what is done with it.
Heard(t, u, type, id, body) ==
    /\ u \in TranslationType /\ u.seq = Len(u.log) - 1
    /\ u.index = t.index /\ u.open = t.open /\ u.said = t.said /\ u.calls = t.calls
    /\ u.closed = t.closed /\ u.output = t.output
    /\ Len(t.log) \in Nat /\ DOMAIN t.log = 1..Len(t.log) /\ DOMAIN u.log = 1..(Len(t.log) + 1)
    /\ Len(u.log) = Len(t.log) + 1
    /\ \A e \in 1..Len(t.log) : u.log[e] = t.log[e] /\ t.log[e].id \in Nat
    /\ u.log[Len(t.log) + 1].type = type /\ u.log[Len(t.log) + 1].id = id
    /\ u.log[Len(t.log) + 1].body = body
    /\ Last(u.log).type = type /\ Last(u.log).body = body
    /\ \A i \in Nat : Ended(u.log, i) <=> Ended(t.log, i) \/ (type = "done" /\ id = i)
    /\ \A i \in Nat : Called(u.log, i) <=> Called(t.log, i) \/ (type = "args_done" /\ id = i)
    /\ AllText(t.log) \in Seq(Bits)
    /\ \A n \in 1..Len(t.log) : TextUpTo(u.log, n) = TextUpTo(t.log, n)
    /\ TextUpTo(u.log, Len(t.log) + 1) = AllText(u.log)
    /\ AllText(u.log) = IF type = "text" THEN AllText(t.log) \o body ELSE AllText(t.log)
    /\ \A i \in Nat :
          /\ Received(t.log, i) \in Seq(Bits)
          /\ Received(u.log, i) = IF id = i /\ type \in {"text", "args"}
                                  THEN Received(t.log, i) \o body ELSE Received(t.log, i)
    /\ DoneBodies(t.log) \in Seq(Seq(Bits))
    /\ DoneBodies(u.log) = IF type = "done" THEN Append(DoneBodies(t.log), body)
                           ELSE DoneBodies(t.log)

LEMMA BodyBits ==
    ASSUME NEW ev \in EventType
    PROVE  ev.body \in Seq(Bits)
<1>1. ev.body \in Seq(Nat) \cup Seq(ItemType)
  BY DEF EventType
<1>2. Seq(Nat) \subseteq Seq(Bits) /\ Seq(ItemType) \subseteq Seq(Bits)
  BY DEF Bits
<1> QED
  BY <1>1, <1>2

\* The parts of l + 1 events are those of the first l, and one more.
LEMMA PartAppended ==
    ASSUME NEW S, NEW l \in Nat, NEW f, \A e \in 1..(l + 1) : f[e] \in Seq(S)
    PROVE  /\ FlattenSeq([e \in 1..l |-> f[e]]) \in Seq(S)
           /\ FlattenSeq([e \in 1..(l + 1) |-> f[e]]) =
                 FlattenSeq([e \in 1..l |-> f[e]]) \o f[l + 1]
<1> DEFINE a == [e \in 1..l |-> f[e]]
           b == [e \in 1..(l + 1) |-> f[e]]
<1>1. a \in Seq(Seq(S)) /\ Len(a) = l /\ f[l + 1] \in Seq(S)
  OBVIOUS
<1>2. b = Append(a, f[l + 1])
  OBVIOUS
<1>3. FlattenSeq(a) \in Seq(S) /\ FlattenSeq(Append(a, f[l + 1])) = FlattenSeq(a) \o f[l + 1]
  BY <1>1, FlattenAppend, Zenon
<1> QED
  BY <1>2, <1>3

LEMMA ReceivedAppend ==
    ASSUME NEW log \in Seq(EventType), NEW ev \in EventType, NEW id
    PROVE  /\ Received(log, id) \in Seq(Bits)
           /\ Received(Append(log, ev), id) =
                 IF ev.id = id /\ ev.type \in {"text", "args"}
                 THEN Received(log, id) \o ev.body ELSE Received(log, id)
<1> DEFINE Part(e) == IF e.id = id /\ e.type \in {"text", "args"} THEN e.body ELSE << >>
           more == Append(log, ev)
           f == [e \in 1..(Len(log) + 1) |-> Part(more[e])]
<1>1. \A e \in EventType : Part(e) \in Seq(Bits)
  <2>1. << >> \in Seq(Bits)
    OBVIOUS
  <2> QED
    BY <2>1, BodyBits
<1>2. /\ Len(log) \in Nat /\ DOMAIN log = 1..Len(log) /\ DOMAIN more = 1..(Len(log) + 1)
      /\ \A e \in 1..Len(log) : more[e] = log[e] /\ log[e] \in EventType
      /\ more[Len(log) + 1] = ev
  BY Appended
<1>3. PICK l \in Nat : l = Len(log)
  BY <1>2
<1>4. /\ Received(log, id) = FlattenSeq([e \in 1..l |-> Part(log[e])])
      /\ Received(more, id) = FlattenSeq([e \in 1..(l + 1) |-> Part(more[e])])
  BY <1>2, <1>3, Zenon DEF Received
<1> HIDE DEF Part, more, f
<1>5. /\ [e \in 1..l |-> Part(log[e])] = [e \in 1..l |-> f[e]]
      /\ [e \in 1..(l + 1) |-> Part(more[e])] = [e \in 1..(l + 1) |-> f[e]]
      /\ f[l + 1] = Part(ev)
  <2>1. \A e \in 1..(l + 1) : f[e] = Part(more[e])
    BY <1>3, Zenon DEF f
  <2>2. \A e \in 1..l : e \in 1..(l + 1) /\ more[e] = log[e]
    <3>1. \A e \in 1..l : e \in 1..(l + 1)
      OBVIOUS
    <3> QED
      BY <1>2, <1>3, <3>1, Zenon
  <2>3. l + 1 \in 1..(l + 1)
    OBVIOUS
  <2> QED
    BY <1>2, <1>3, <2>1, <2>2, <2>3, Zenon
<1>6. \A e \in 1..(l + 1) : f[e] \in Seq(Bits)
  <2>1. \A e \in 1..(l + 1) : e \in 1..l \/ e = l + 1
    OBVIOUS
  <2>2. \A e \in 1..l : f[e] = Part(log[e])
    BY <1>5
  <2>3. ASSUME NEW e \in 1..l PROVE f[e] \in Seq(Bits)
    BY <1>1, <1>2, <1>3, <2>2
  <2>4. f[l + 1] \in Seq(Bits)
    BY <1>1, <1>5
  <2> QED
    BY <2>1, <2>3, <2>4
<1>7. /\ FlattenSeq([e \in 1..l |-> f[e]]) \in Seq(Bits)
      /\ FlattenSeq([e \in 1..(l + 1) |-> f[e]]) = FlattenSeq([e \in 1..l |-> f[e]]) \o f[l + 1]
  BY <1>6, PartAppended, Zenon
<1>8. Received(log, id) \in Seq(Bits) /\ Received(more, id) = Received(log, id) \o Part(ev)
  BY <1>4, <1>5, <1>7
<1>9. PICK s \in Seq(Bits) : s = Received(log, id)
  BY <1>8
<1>10. s \o << >> = s
  OBVIOUS
<1> QED
  BY <1>8, <1>9, <1>10 DEF Part, more

\* The text of events is that of the first ones, and of one more.
LEMMA TextAppend ==
    ASSUME NEW log \in Seq(EventType), NEW ev \in EventType
    PROVE  /\ AllText(log) \in Seq(Bits)
           /\ \A n \in 1..Len(log) : TextUpTo(Append(log, ev), n) = TextUpTo(log, n)
           /\ TextUpTo(Append(log, ev), Len(log) + 1) =
                 IF ev.type = "text" THEN AllText(log) \o ev.body ELSE AllText(log)
<1> DEFINE Part(e) == IF e.type = "text" THEN e.body ELSE << >>
           more == Append(log, ev)
           f == [e \in 1..(Len(log) + 1) |-> Part(more[e])]
<1>1. \A e \in EventType : Part(e) \in Seq(Bits)
  <2>1. << >> \in Seq(Bits)
    OBVIOUS
  <2> QED
    BY <2>1, BodyBits
<1>2. /\ Len(log) \in Nat /\ DOMAIN log = 1..Len(log) /\ DOMAIN more = 1..(Len(log) + 1)
      /\ \A e \in 1..Len(log) : more[e] = log[e] /\ log[e] \in EventType
      /\ more[Len(log) + 1] = ev
  BY Appended
<1>3. PICK l \in Nat : l = Len(log)
  BY <1>2
<1>4. /\ \A n : TextUpTo(log, n) = FlattenSeq([e \in 1..n |-> Part(log[e])])
      /\ \A n : TextUpTo(more, n) = FlattenSeq([e \in 1..n |-> Part(more[e])])
      /\ AllText(log) = TextUpTo(log, l)
  BY <1>3, Zenon DEF TextUpTo, AllText
<1> HIDE DEF Part, more, f
<1>11. ASSUME NEW n \in 1..Len(log) PROVE TextUpTo(more, n) = TextUpTo(log, n)
  <2>1. \A e \in 1..n : e \in 1..Len(log)
    BY <1>2
  <2>2. \A e \in 1..n : Part(more[e]) = Part(log[e])
    BY <1>2, <2>1, Zenon
  <2>3. [e \in 1..n |-> Part(more[e])] = [e \in 1..n |-> Part(log[e])]
    BY <2>2, Zenon
  <2> QED
    BY <1>4, <2>3, Zenon
<1>5. /\ [e \in 1..l |-> Part(log[e])] = [e \in 1..l |-> f[e]]
      /\ [e \in 1..(l + 1) |-> Part(more[e])] = [e \in 1..(l + 1) |-> f[e]]
      /\ f[l + 1] = Part(ev)
  <2>1. \A e \in 1..(l + 1) : f[e] = Part(more[e])
    BY <1>3, Zenon DEF f
  <2>2. \A e \in 1..l : e \in 1..(l + 1) /\ more[e] = log[e]
    <3>1. \A e \in 1..l : e \in 1..(l + 1)
      OBVIOUS
    <3> QED
      BY <1>2, <1>3, <3>1, Zenon
  <2>3. l + 1 \in 1..(l + 1)
    OBVIOUS
  <2> QED
    BY <1>2, <1>3, <2>1, <2>2, <2>3, Zenon
<1>6. \A e \in 1..(l + 1) : f[e] \in Seq(Bits)
  <2>1. \A e \in 1..(l + 1) : e \in 1..l \/ e = l + 1
    OBVIOUS
  <2>2. \A e \in 1..l : f[e] = Part(log[e])
    BY <1>5
  <2>3. ASSUME NEW e \in 1..l PROVE f[e] \in Seq(Bits)
    BY <1>1, <1>2, <1>3, <2>2
  <2>4. f[l + 1] \in Seq(Bits)
    BY <1>1, <1>5
  <2> QED
    BY <2>1, <2>3, <2>4
<1>7. /\ FlattenSeq([e \in 1..l |-> f[e]]) \in Seq(Bits)
      /\ FlattenSeq([e \in 1..(l + 1) |-> f[e]]) = FlattenSeq([e \in 1..l |-> f[e]]) \o f[l + 1]
  BY <1>6, PartAppended, Zenon
<1>8. AllText(log) \in Seq(Bits) /\ TextUpTo(more, l + 1) = AllText(log) \o Part(ev)
  BY <1>4, <1>5, <1>7, Zenon
<1>9. PICK s \in Seq(Bits) : s = AllText(log)
  BY <1>8
<1>10. s \o << >> = s
  OBVIOUS
<1>12. TextUpTo(more, l + 1) = IF ev.type = "text" THEN AllText(log) \o ev.body ELSE AllText(log)
  BY <1>8, <1>9, <1>10 DEF Part
<1> QED
  BY <1>3, <1>8, <1>11, <1>12 DEF more

LEMMA DoneAppend ==
    ASSUME NEW log \in Seq(EventType), NEW ev \in EventType
    PROVE  /\ DoneBodies(log) \in Seq(Seq(Bits))
           /\ DoneBodies(Append(log, ev)) =
                 IF ev.type = "done" THEN Append(DoneBodies(log), ev.body) ELSE DoneBodies(log)
<1> DEFINE Part(e) == IF e.type = "done" THEN <<e.body>> ELSE << >>
           more == Append(log, ev)
           f == [e \in 1..(Len(log) + 1) |-> Part(more[e])]
<1>1. \A e \in EventType : Part(e) \in Seq(Seq(Bits))
  <2>1. << >> \in Seq(Seq(Bits)) /\ \A s \in Seq(Bits) : <<s>> \in Seq(Seq(Bits))
    OBVIOUS
  <2> QED
    BY <2>1, BodyBits
<1>2. /\ Len(log) \in Nat /\ DOMAIN log = 1..Len(log) /\ DOMAIN more = 1..(Len(log) + 1)
      /\ \A e \in 1..Len(log) : more[e] = log[e] /\ log[e] \in EventType
      /\ more[Len(log) + 1] = ev
  BY Appended
<1>3. PICK l \in Nat : l = Len(log)
  BY <1>2
<1>4. /\ DoneBodies(log) = FlattenSeq([e \in 1..l |-> Part(log[e])])
      /\ DoneBodies(more) = FlattenSeq([e \in 1..(l + 1) |-> Part(more[e])])
  BY <1>2, <1>3, Zenon DEF DoneBodies
<1> HIDE DEF Part, more, f
<1>5. /\ [e \in 1..l |-> Part(log[e])] = [e \in 1..l |-> f[e]]
      /\ [e \in 1..(l + 1) |-> Part(more[e])] = [e \in 1..(l + 1) |-> f[e]]
      /\ f[l + 1] = Part(ev)
  <2>1. \A e \in 1..(l + 1) : f[e] = Part(more[e])
    BY <1>3, Zenon DEF f
  <2>2. \A e \in 1..l : e \in 1..(l + 1) /\ more[e] = log[e]
    <3>1. \A e \in 1..l : e \in 1..(l + 1)
      OBVIOUS
    <3> QED
      BY <1>2, <1>3, <3>1, Zenon
  <2>3. l + 1 \in 1..(l + 1)
    OBVIOUS
  <2> QED
    BY <1>2, <1>3, <2>1, <2>2, <2>3, Zenon
<1>6. \A e \in 1..(l + 1) : f[e] \in Seq(Seq(Bits))
  <2>1. \A e \in 1..(l + 1) : e \in 1..l \/ e = l + 1
    OBVIOUS
  <2>2. \A e \in 1..l : f[e] = Part(log[e])
    BY <1>5
  <2>3. ASSUME NEW e \in 1..l PROVE f[e] \in Seq(Seq(Bits))
    BY <1>1, <1>2, <1>3, <2>2
  <2>4. f[l + 1] \in Seq(Seq(Bits))
    BY <1>1, <1>5
  <2> QED
    BY <2>1, <2>3, <2>4
<1>7. /\ FlattenSeq([e \in 1..l |-> f[e]]) \in Seq(Seq(Bits))
      /\ FlattenSeq([e \in 1..(l + 1) |-> f[e]]) = FlattenSeq([e \in 1..l |-> f[e]]) \o f[l + 1]
  <2>1. PICK S : S = Seq(Bits)
    OBVIOUS
  <2>2. \A e \in 1..(l + 1) : f[e] \in Seq(S)
    BY <1>6, <2>1
  <2>3. /\ FlattenSeq([e \in 1..l |-> f[e]]) \in Seq(S)
        /\ FlattenSeq([e \in 1..(l + 1) |-> f[e]]) = FlattenSeq([e \in 1..l |-> f[e]]) \o f[l + 1]
    BY <2>2, PartAppended, Zenon
  <2> QED
    BY <2>1, <2>3
<1>8. DoneBodies(log) \in Seq(Seq(Bits)) /\ DoneBodies(more) = DoneBodies(log) \o Part(ev)
  BY <1>4, <1>5, <1>7
<1>9. PICK s \in Seq(Seq(Bits)) : s = DoneBodies(log)
  BY <1>8
<1>10. PICK x \in Seq(Bits) : x = ev.body
  BY BodyBits
<1>11. s \o << >> = s /\ s \o <<x>> = Append(s, x)
  OBVIOUS
<1> QED
  BY <1>8, <1>9, <1>10, <1>11 DEF Part, more

LEMMA Hears ==
    ASSUME NEW t \in TranslationType, t.seq = Len(t.log) - 1,
           NEW type \in EventTypes, NEW at \in Nat, NEW id \in Nat,
           NEW body \in Seq(Nat) \cup Seq(ItemType),
           NEW u, u = Emit(t, type, at, id, body)
    PROVE  Heard(t, u, type, id, body)
<1>1. PICK ev \in EventType : Sent(t, u, ev, type, at, id)
  BY Emitted
<1>2. t.log \in Seq(EventType) /\ u.log = Append(t.log, ev) /\ ev.type = type /\ ev.id = id
  BY <1>1 DEF Sent
<1>3. ev.body = body
  <2>1. t.log \in Seq(EventType)
    BY <1>2
  <2>2. PICK e : e = [type |-> type, seq |-> t.seq + 1, index |-> at, id |-> id, body |-> body]
    OBVIOUS
  <2>3. u.log = Append(t.log, e) /\ e.body = body
    BY <2>2 DEF Emit, TranslationType
  <2>4. Append(t.log, e)[Len(t.log) + 1] = e
    BY <2>1
  <2> QED
    BY <1>1, <2>3, <2>4 DEF Sent
<1>4. \A i \in Nat :
          /\ Received(t.log, i) \in Seq(Bits)
          /\ Received(u.log, i) = IF id = i /\ type \in {"text", "args"}
                                  THEN Received(t.log, i) \o body ELSE Received(t.log, i)
  <2>1. ASSUME NEW i \in Nat
        PROVE  /\ Received(t.log, i) \in Seq(Bits)
               /\ Received(Append(t.log, ev), i) =
                     IF ev.id = i /\ ev.type \in {"text", "args"}
                     THEN Received(t.log, i) \o ev.body ELSE Received(t.log, i)
    BY <1>2, ReceivedAppend, Zenon
  <2> QED
    BY <1>2, <1>3, <2>1, Zenon
<1>5. /\ DoneBodies(t.log) \in Seq(Seq(Bits))
      /\ DoneBodies(u.log) = IF type = "done" THEN Append(DoneBodies(t.log), body)
                             ELSE DoneBodies(t.log)
  <2>1. /\ DoneBodies(t.log) \in Seq(Seq(Bits))
        /\ DoneBodies(Append(t.log, ev)) =
              IF ev.type = "done" THEN Append(DoneBodies(t.log), ev.body)
              ELSE DoneBodies(t.log)
    <3>1. t.log \in Seq(EventType) /\ ev \in EventType
      BY <1>2
    <3> QED
      BY <3>1, DoneAppend, Zenon
  <2>2. u.log = Append(t.log, ev) /\ ev.type = type /\ ev.body = body
    BY <1>2, <1>3
  <2> QED
    BY <2>1, <2>2, Zenon
<1>6. \A e \in 1..Len(t.log) : t.log[e].id \in Nat
  <2>1. \A e \in 1..Len(t.log) : t.log[e] \in EventType
    BY <1>2
  <2> QED
    BY <2>1 DEF EventType
<1>7. Last(u.log) = ev
  BY <1>1 DEF Sent, Last
<1>8. Len(u.log) = Len(t.log) + 1
  BY <1>2
<1>9. \A i \in Nat : Called(u.log, i) <=> Called(t.log, i) \/ (type = "args_done" /\ id = i)
  <2>1. /\ Len(t.log) \in Nat /\ DOMAIN t.log = 1..Len(t.log)
        /\ DOMAIN u.log = 1..(Len(t.log) + 1)
        /\ \A e \in 1..Len(t.log) : u.log[e] = t.log[e]
        /\ u.log[Len(t.log) + 1].type = type /\ u.log[Len(t.log) + 1].id = id
    BY <1>1, <1>2 DEF Sent
  <2>2. \A e \in DOMAIN u.log : e \in DOMAIN t.log \/ e = Len(t.log) + 1
    BY <2>1
  <2>3. Len(t.log) + 1 \in DOMAIN u.log /\ DOMAIN t.log \subseteq DOMAIN u.log
    BY <2>1
  <2> QED
    BY <2>1, <2>2, <2>3, Zenon DEF Called
<1>10. /\ AllText(t.log) \in Seq(Bits)
       /\ \A n \in 1..Len(t.log) : TextUpTo(u.log, n) = TextUpTo(t.log, n)
       /\ TextUpTo(u.log, Len(t.log) + 1) = AllText(u.log)
       /\ AllText(u.log) = IF type = "text" THEN AllText(t.log) \o body ELSE AllText(t.log)
  <2>1. t.log \in Seq(EventType) /\ ev \in EventType
    BY <1>2
  <2>2. /\ AllText(t.log) \in Seq(Bits)
        /\ \A n \in 1..Len(t.log) : TextUpTo(Append(t.log, ev), n) = TextUpTo(t.log, n)
        /\ TextUpTo(Append(t.log, ev), Len(t.log) + 1) =
              IF ev.type = "text" THEN AllText(t.log) \o ev.body ELSE AllText(t.log)
    BY <2>1, TextAppend, Zenon
  <2>3. u.log = Append(t.log, ev) /\ ev.type = type /\ ev.body = body
    BY <1>2, <1>3
  <2>4. TextUpTo(u.log, Len(t.log) + 1) = AllText(u.log)
    BY <1>8, Zenon DEF AllText
  <2> QED
    BY <2>2, <2>3, <2>4, Zenon
<1> QED
  <2>1. /\ u \in TranslationType /\ u.seq = Len(u.log) - 1
        /\ u.index = t.index /\ u.open = t.open /\ u.said = t.said /\ u.calls = t.calls
        /\ u.closed = t.closed /\ u.output = t.output
    BY <1>1, Emitted DEF Sent
  <2>2. /\ Len(t.log) \in Nat /\ DOMAIN t.log = 1..Len(t.log) /\ DOMAIN u.log = 1..(Len(t.log) + 1)
        /\ \A e \in 1..Len(t.log) : u.log[e] = t.log[e]
        /\ u.log[Len(t.log) + 1] = ev
        /\ \A i \in Nat : Ended(u.log, i) <=> Ended(t.log, i) \/ (type = "done" /\ id = i)
    BY <1>1 DEF Sent
  <2> QED
    BY <1>2, <1>3, <1>4, <1>5, <1>6, <1>7, <1>8, <1>9, <1>10, <2>1, <2>2, Zenon DEF Heard

\* What is said of items keeps what is finished true.
LEMMA StaysTruthful ==
    ASSUME NEW t, NEW u, NEW type, NEW id, NEW body, Heard(t, u, type, id, body),
           Truthful(t.log),
           type \in {"text", "args"} => Final(t.log) /\ ~Ended(t.log, id),
           type = "args_done" =>
             id \in Nat /\ body = Received(t.log, id) /\ ~Ended(t.log, id),
           type = "done" =>
             id \in Nat /\ body = IF Called(t.log, id) THEN Received(t.log, id)
                                  ELSE AllText(t.log)
    PROVE  Truthful(u.log)
<1>1. ASSUME NEW e \in 1..Len(t.log), t.log[e].type \in {"args_done", "done"}
      PROVE  Received(u.log, t.log[e].id) = Received(t.log, t.log[e].id)
  <2>1. type \in {"text", "args"} => Ended(t.log, t.log[e].id)
    BY <1>1 DEF Final, Ended, Heard
  <2>2. ~(id = t.log[e].id /\ type \in {"text", "args"})
    BY <2>1
  <2> QED
    BY <2>2 DEF Heard
<1>3. ASSUME NEW e \in 1..Len(t.log), t.log[e].type = "done"
      PROVE  Called(u.log, t.log[e].id) <=> Called(t.log, t.log[e].id)
  <2>1. Ended(t.log, t.log[e].id) /\ t.log[e].id \in Nat
    BY <1>3 DEF Ended, Heard
  <2>2. ~(type = "args_done" /\ id = t.log[e].id)
    BY <2>1
  <2> QED
    BY <2>1, <2>2 DEF Heard
<1>2. ASSUME NEW e \in DOMAIN u.log
      PROVE  /\ u.log[e].type = "args_done" => u.log[e].body = Received(u.log, u.log[e].id)
             /\ u.log[e].type = "done" =>
                   u.log[e].body = IF Called(u.log, u.log[e].id)
                                   THEN Received(u.log, u.log[e].id) ELSE TextUpTo(u.log, e)
  <2>1. CASE e \in 1..Len(t.log)
    <3>1. /\ u.log[e] = t.log[e] /\ e \in DOMAIN t.log
          /\ TextUpTo(u.log, e) = TextUpTo(t.log, e)
      BY <2>1 DEF Heard
    <3>2. CASE t.log[e].type = "args_done"
      BY <1>1, <2>1, <3>1, <3>2 DEF Truthful
    <3>3. CASE t.log[e].type = "done"
      BY <1>1, <1>3, <2>1, <3>1, <3>3 DEF Truthful
    <3> QED
      BY <3>1, <3>2, <3>3
  <2>2. CASE e = Len(t.log) + 1
    <3>1. /\ u.log[e].type = type /\ u.log[e].id = id /\ u.log[e].body = body
          /\ TextUpTo(u.log, e) = AllText(u.log)
      BY <2>2 DEF Heard
    <3>2. type \in {"args_done", "done"} /\ id \in Nat => Received(u.log, id) = Received(t.log, id)
      BY DEF Heard
    <3>3. type = "done" /\ id \in Nat => /\ Called(u.log, id) <=> Called(t.log, id)
                                        /\ AllText(u.log) = AllText(t.log)
      BY DEF Heard
    <3> QED
      BY <3>1, <3>2, <3>3
  <2>3. e \in 1..Len(t.log) \/ e = Len(t.log) + 1
    <3>1. Len(t.log) \in Nat /\ DOMAIN u.log = 1..(Len(t.log) + 1)
      BY DEF Heard
    <3> QED
      BY <3>1
  <2> QED
    BY <2>1, <2>2, <2>3
<1> QED
  BY <1>2 DEF Truthful

LEMMA StaysFinal ==
    ASSUME NEW t, NEW u, NEW type, NEW id, NEW body, Heard(t, u, type, id, body),
           Final(t.log), type # "args_done"
    PROVE  Final(u.log)
<1>1. ASSUME NEW e \in DOMAIN u.log, u.log[e].type = "args_done" PROVE Ended(u.log, u.log[e].id)
  <2>1. e \in 1..Len(t.log)
    <3>1. /\ Len(t.log) \in Nat /\ DOMAIN u.log = 1..(Len(t.log) + 1)
          /\ u.log[Len(t.log) + 1].type = type
      BY DEF Heard
    <3>2. e # Len(t.log) + 1
      BY <1>1, <3>1
    <3> QED
      BY <3>1, <3>2
  <2>2. u.log[e] = t.log[e] /\ Ended(t.log, t.log[e].id) /\ t.log[e].id \in Nat
    BY <1>1, <2>1 DEF Heard, Final
  <2> QED
    BY <2>2 DEF Heard
<1> QED
  BY <1>1 DEF Final

\* Nothing is received of an item that is not begun.
LEMMA NothingReceived ==
    ASSUME NEW log \in Seq(EventType), NEW id, id # 0, ~Begun(log, id), Ordered(log)
    PROVE  Received(log, id) = << >>
<1>1. DOMAIN log = 1..Len(log) /\ Len(log) \in Nat
  OBVIOUS
<1>2. \A e \in DOMAIN log : log[e].id # id
  BY DEF Ordered
<1>3. PICK a : a = [e \in DOMAIN log |->
                      IF log[e].id = id /\ log[e].type \in {"text", "args"} THEN log[e].body ELSE << >>]
  OBVIOUS
<1>4. \A e \in DOMAIN a : a[e] = << >>
  BY <1>2, <1>3
<1>5. DOMAIN a = 1..Len(log) /\ a = [e \in 1..Len(log) |-> a[e]] /\ << >> \in Seq(Bits)
  BY <1>1, <1>3
<1>6. a \in Seq(Seq(Bits))
  <2>1. \A e \in 1..Len(log) : a[e] \in Seq(Bits)
    BY <1>4, <1>5
  <2>2. [e \in 1..Len(log) |-> a[e]] \in Seq(Seq(Bits))
    BY <1>1, <2>1
  <2> QED
    BY <1>5, <2>2
<1> QED
  BY <1>3, <1>4, <1>6, FlattenNothing DEF Received

LEMMA BodiesAppend ==
    ASSUME NEW items \in Seq(ItemType), NEW item \in ItemType
    PROVE  Bodies(Append(items, item)) = Append(Bodies(items), item.body)
<1> DEFINE more == Append(items, item)
<1>1. /\ Len(items) \in Nat /\ DOMAIN items = 1..Len(items) /\ DOMAIN more = 1..(Len(items) + 1)
      /\ \A n \in 1..Len(items) : more[n] = items[n]
      /\ more[Len(items) + 1] = item
  <2>1. Len(items) \in Nat /\ DOMAIN items = 1..Len(items) /\ DOMAIN more = 1..(Len(items) + 1)
    OBVIOUS
  <2>2. \A n \in 1..Len(items) : more[n] = items[n]
    OBVIOUS
  <2>3. more[Len(items) + 1] = item
    OBVIOUS
  <2> QED
    BY <2>1, <2>2, <2>3
<1>2. PICK l \in Nat : l = Len(items)
  BY <1>1
<1> HIDE DEF more
<1>3. /\ Bodies(items) = [n \in 1..l |-> items[n].body]
      /\ Bodies(more) = [n \in 1..(l + 1) |-> more[n].body]
  BY <1>1, <1>2, Zenon DEF Bodies
<1>4. Append([n \in 1..l |-> items[n].body], item.body)
        = [n \in 1..(l + 1) |-> IF n = l + 1 THEN item.body ELSE items[n].body]
  OBVIOUS
<1>5. \A n \in 1..(l + 1) : more[n].body = IF n = l + 1 THEN item.body ELSE items[n].body
  <2>1. \A n \in 1..(l + 1) : n \in 1..l \/ n = l + 1
    OBVIOUS
  <2>2. l + 1 \notin 1..l
    OBVIOUS
  <2> QED
    BY <1>1, <1>2, <2>1, <2>2, Zenon
<1>6. Bodies(more) = [n \in 1..(l + 1) |-> IF n = l + 1 THEN item.body ELSE items[n].body]
  BY <1>3, <1>5, Zenon
<1> QED
  BY <1>3, <1>4, <1>6 DEF more

\* Nothing was received of an item with a fresh id.
LEMMA NothingOfNew ==
    ASSUME NEW t, Sound(t)
    PROVE  Len(t.log) \in Nat /\ NewId(t) = Len(t.log) /\ Received(t.log, Len(t.log)) = << >>
<1>1. t.log \in Seq(EventType) /\ Ordered(t.log)
  BY DEF Sound, TranslationType
<1>2. Len(t.log) \in Nat /\ Len(t.log) # 0 /\ ~(Len(t.log) < Len(t.log))
  BY Placed
<1>3. ~Begun(t.log, Len(t.log))
  BY <1>2, Placed
<1> QED
  BY <1>1, <1>2, <1>3, NothingReceived DEF NewId

LEMMA OpenTextTold ==
    ASSUME NEW t, Flowing(t), Told(t), NEW u, u = OpenText(t)
    PROVE  Told(u)
<1>1. CASE t.open # 0
  BY <1>1 DEF OpenText
<1>2. CASE t.open = 0
  <2>1. t \in TranslationType /\ Sound(t) /\ t.seq = Len(t.log) - 1
    BY DEF Flowing, Sound, Accounted
  <2>2. /\ t.index \in Nat /\ t.said \in Seq(Nat) /\ t.calls \in Seq(CallType)
        /\ \A n \in DOMAIN t.calls : t.calls[n].id \in Nat
    BY <2>1, CallTyped
  <2>3. Len(t.log) \in Nat /\ NewId(t) = Len(t.log) /\ Received(t.log, Len(t.log)) = << >>
    BY <2>1, NothingOfNew
  <2>4. PICK v : v = Emit(t, "added", t.index, Len(t.log), << >>)
    OBVIOUS
  <2>5. "added" \in EventTypes /\ << >> \in Seq(Nat) \cup Seq(ItemType)
    BY DEF EventTypes
  <2>13. Heard(t, v, "added", Len(t.log), << >>)
    BY <2>1, <2>2, <2>3, <2>4, <2>5, Hears
  <2>6. /\ Heard(t, v, "added", Len(t.log), << >>) /\ v \in TranslationType
        /\ v.said = t.said /\ v.calls = t.calls /\ v.output = t.output
    BY <2>13 DEF Heard
  <2>7. u = [v EXCEPT !.open = Len(t.log)]
    BY <1>2, <2>3, <2>4 DEF OpenText
  <2>8. /\ u.log = v.log /\ u.open = Len(t.log) /\ u.said = t.said /\ u.calls = t.calls
        /\ u.output = t.output
    BY <2>6, <2>7 DEF TranslationType
  <2>9. Truthful(v.log) /\ Final(v.log)
    BY <2>6, StaysTruthful, StaysFinal DEF Told
  <2>10. /\ \A i \in Nat : Received(v.log, i) = Received(t.log, i)
         /\ DoneBodies(v.log) = DoneBodies(t.log)
         /\ Last(v.log).type = "added" /\ AllText(v.log) = AllText(t.log)
    BY <2>6 DEF Heard
  <2>12. Holding(u)
    BY <2>2, <2>8, <2>10 DEF Holding, Told
  <2> QED
    BY <2>8, <2>9, <2>10, <2>12 DEF Told, Completed
<1> QED
  BY <1>1, <1>2

LEMMA TextTold ==
    ASSUME NEW t, Flowing(t), Told(t), NEW x \in Nat
    PROVE  Told(TextDelta(t, x))
<1>1. PICK o : o = OpenText(t)
  OBVIOUS
<1>2. Flowing(o) /\ o.open # 0 /\ Told(o)
  BY <1>1, OpensText, OpenTextTold
<1>3. Sound(o) /\ o \in TranslationType /\ o.seq = Len(o.log) - 1
  BY <1>2 DEF Flowing, Sound, Accounted
<1>4. /\ o.index \in Nat /\ o.open \in Nat /\ o.said \in Seq(Nat)
      /\ DOMAIN o.calls = 1..Len(o.calls)
      /\ \A n \in DOMAIN o.calls : o.calls[n].id \in Nat
  BY <1>3, CallTyped
<1>20. Append(o.said, x) \in Seq(Nat)
  BY <1>4
<1>5. PICK said \in Seq(Nat) : said = Append(o.said, x)
  BY <1>20, Zenon
<1>6. PICK v : v = [o EXCEPT !.said = said]
  OBVIOUS
<1>7. /\ v \in TranslationType /\ v.log = o.log /\ v.seq = o.seq /\ v.index = o.index
      /\ v.open = o.open /\ v.calls = o.calls /\ v.output = o.output /\ v.said = said
  BY <1>3, <1>6 DEF TranslationType
<1>8. PICK u : u = Emit(v, "text", o.index, o.open, <<x>>)
  OBVIOUS
<1>9. u = TextDelta(t, x)
  <2>1. v = [o EXCEPT !.said = Append(@, x)]
    BY <1>5, <1>6
  <2> QED
    BY <1>1, <1>8, <2>1 DEF TextDelta
<1>10. "text" \in EventTypes /\ <<x>> \in Seq(Nat) \cup Seq(ItemType)
  BY DEF EventTypes
<1>18. v \in TranslationType /\ v.seq = Len(v.log) - 1
  BY <1>3, <1>7
<1>19. Heard(v, u, "text", o.open, <<x>>)
  BY <1>4, <1>8, <1>10, <1>18, Hears
<1>11. /\ Heard(v, u, "text", o.open, <<x>>)
       /\ u.open = v.open /\ u.said = v.said /\ u.calls = v.calls /\ u.output = v.output
  BY <1>19 DEF Heard
<1>12. ~Ended(v.log, o.open) /\ Truthful(v.log) /\ Final(v.log)
  BY <1>2, <1>3, <1>7, OpenItem DEF Told
<1>13. Truthful(u.log) /\ Final(u.log)
  BY <1>11, <1>12, StaysTruthful, StaysFinal
<1>14. /\ \A i \in Nat : i # o.open => Received(u.log, i) = Received(o.log, i)
       /\ Received(u.log, o.open) = Received(o.log, o.open) \o <<x>>
       /\ Received(o.log, o.open) \in Seq(Bits)
       /\ DoneBodies(u.log) = DoneBodies(o.log)
       /\ AllText(u.log) = AllText(o.log) \o <<x>>
       /\ Last(u.log).type = "text"
  BY <1>4, <1>7, <1>11 DEF Heard
<1>15. u.said = AllText(u.log)
  <2>1. o.said = AllText(o.log)
    BY <1>2 DEF Told, Holding
  <2>2. Append(o.said, x) = o.said \o <<x>>
    <3>1. \A s \in Seq(Nat) : Append(s, x) = s \o <<x>>
      OBVIOUS
    <3> QED
      BY <1>4, <3>1, Zenon
  <2>3. u.said = Append(o.said, x)
    BY <1>5, <1>7, <1>11, Zenon
  <2>4. u.said = o.said \o <<x>>
    BY <2>2, <2>3, Zenon
  <2> QED
    BY <1>14, <2>1, <2>4, Zenon
<1>16. \A n \in DOMAIN u.calls : u.calls[n].args = Received(u.log, u.calls[n].id)
  <2>1. \A n \in DOMAIN o.calls : o.calls[n].id # o.open
    BY <1>3, CallItem
  <2>2. \A n \in DOMAIN o.calls : o.calls[n].args = Received(o.log, o.calls[n].id)
    BY <1>2 DEF Told, Holding
  <2>3. \A n \in DOMAIN o.calls : Received(u.log, o.calls[n].id) = Received(o.log, o.calls[n].id)
    BY <1>4, <1>14, <2>1
  <2>4. u.calls = o.calls
    BY <1>7, <1>11
  <2> QED
    BY <2>2, <2>3, <2>4
<1>17. Holding(u)
  BY <1>2, <1>7, <1>11, <1>14, <1>15, <1>16 DEF Told, Holding
<1> QED
  BY <1>9, <1>13, <1>14, <1>17 DEF Told, Completed

LEMMA CloseTextTold ==
    ASSUME NEW t, Sound(t), ~Completed(t), Told(t), NEW u, u = CloseText(t)
    PROVE  Told(u)
<1>1. CASE t.open = 0
  BY <1>1 DEF CloseText
<1>2. CASE t.open # 0
  <2>1. t \in TranslationType /\ t.seq = Len(t.log) - 1
    BY DEF Sound, Accounted
  <2>2. /\ t.index \in Nat /\ t.open \in Nat /\ t.said \in Seq(Nat) /\ t.output \in Seq(ItemType)
        /\ \A n \in DOMAIN t.calls : t.calls[n].id \in Nat
    BY <2>1, CallTyped
  <2>3. PICK v : v = Emit(t, "done", t.index, t.open, t.said)
    OBVIOUS
  <2>4. "done" \in EventTypes /\ t.said \in Seq(Nat) \cup Seq(ItemType)
    BY <2>2 DEF EventTypes
  <2>15. Heard(t, v, "done", t.open, t.said)
    BY <2>1, <2>2, <2>3, <2>4, Hears
  <2>5. /\ Heard(t, v, "done", t.open, t.said) /\ v \in TranslationType
        /\ v.calls = t.calls /\ v.output = t.output
    BY <2>15 DEF Heard
  <2>16. Item("message", t.said) \in ItemType /\ Item("message", t.said).body = t.said
    BY <2>2 DEF Item, ItemType
  <2>6. PICK item \in ItemType : item = Item("message", t.said) /\ item.body = t.said
    BY <2>16, Zenon
  <2>17. Append(t.output, item) \in Seq(ItemType)
    BY <2>2
  <2>7. PICK output \in Seq(ItemType) : output = Append(t.output, item)
    BY <2>17, Zenon
  <2>8. u = [v EXCEPT !.output = output, !.open = 0]
    BY <1>2, <2>3, <2>5, <2>6, <2>7 DEF CloseText
  <2>9. /\ u.log = v.log /\ u.open = 0 /\ u.calls = t.calls /\ u.output = output
        /\ u.said = t.said
    BY <2>5, <2>8 DEF TranslationType, Heard
  <2>10. t.said = AllText(t.log) /\ ~Called(t.log, t.open)
    <3>1. ~Ended(t.log, t.open)
      BY <1>2, OpenItem
    <3> QED
      BY <3>1 DEF Told, Holding, Final, Called
  <2>11. Truthful(v.log) /\ Final(v.log)
    BY <2>2, <2>5, <2>10, StaysTruthful, StaysFinal DEF Told
  <2>12. /\ \A i \in Nat : Received(v.log, i) = Received(t.log, i)
         /\ DoneBodies(v.log) = Append(DoneBodies(t.log), t.said)
         /\ Last(v.log).type = "done" /\ AllText(v.log) = AllText(t.log)
    BY <2>5 DEF Heard
  <2>13. Bodies(output) = DoneBodies(v.log)
    <3>1. Bodies(Append(t.output, item)) = Append(Bodies(t.output), item.body)
      BY <2>2, BodiesAppend
    <3> QED
      BY <2>6, <2>7, <2>12, <3>1 DEF Told, Holding
  <2>14. Holding(u)
    BY <2>2, <2>9, <2>10, <2>12, <2>13 DEF Told, Holding
  <2> QED
    BY <2>9, <2>11, <2>12, <2>14 DEF Told, Completed
<1> QED
  BY <1>1, <1>2

LEMMA OpenCallTold ==
    ASSUME NEW t, Flowing(t), Told(t), NEW i \in Nat, NEW u, u = OpenCall(t, i)
    PROVE  Told(u)
<1>1. PICK c : c = CloseText(t)
  OBVIOUS
<1>2. Quiet(t, c) /\ Told(c)
  BY <1>1, ClosesText, CloseTextTold DEF Flowing
<1>3. Sound(c) /\ c \in TranslationType /\ c.open = 0 /\ c.seq = Len(c.log) - 1
  BY <1>2 DEF Quiet, Sound, Accounted
<1>4. PICK at \in Nat : at = Place(t)
  BY CallTyped DEF Place, Flowing, Sound
<1>5. Len(c.log) \in Nat /\ NewId(c) = Len(c.log) /\ Received(c.log, Len(c.log)) = << >>
  BY <1>3, NothingOfNew
<1>6. PICK v : v = Emit(c, "added", at, Len(c.log), << >>)
  OBVIOUS
<1>7. "added" \in EventTypes /\ << >> \in Seq(Nat) \cup Seq(ItemType)
  BY DEF EventTypes
<1>21. Heard(c, v, "added", Len(c.log), << >>)
  BY <1>3, <1>5, <1>6, <1>7, Hears
<1>8. /\ Heard(c, v, "added", Len(c.log), << >>) /\ v \in TranslationType
      /\ v.open = 0 /\ v.calls = c.calls /\ v.output = c.output /\ v.said = c.said
  BY <1>3, <1>21 DEF Heard
<1>9. PICK call : call = [tool |-> i, index |-> at, id |-> Len(c.log), args |-> << >>]
  OBVIOUS
<1>10. call \in CallType /\ call.id = Len(c.log) /\ call.args = << >>
  BY <1>5, <1>9 DEF CallType
<1>11. c.calls \in Seq(CallType) /\ \A n \in DOMAIN c.calls : c.calls[n].id \in Nat
  BY <1>3, CallTyped
<1>22. Append(c.calls, call) \in Seq(CallType)
  BY <1>10, <1>11
<1>23. \A n \in DOMAIN Append(c.calls, call) :
          \/ n \in DOMAIN c.calls /\ Append(c.calls, call)[n] = c.calls[n]
          \/ Append(c.calls, call)[n] = call
  BY <1>10, <1>11
<1>12. PICK calls \in Seq(CallType) : calls = Append(c.calls, call)
  BY <1>22, Zenon
<1>13. u = [v EXCEPT !.calls = calls, !.index = at + 1]
  BY <1>1, <1>4, <1>5, <1>6, <1>8, <1>9, <1>12 DEF OpenCall, Place
<1>14. u.log = v.log /\ u.calls = calls /\ u.output = c.output /\ u.said = c.said
  BY <1>8, <1>13 DEF TranslationType
<1>15. Truthful(v.log) /\ Final(v.log)
  BY <1>2, <1>8, StaysTruthful, StaysFinal DEF Told
<1>16. /\ \A j \in Nat : Received(v.log, j) = Received(c.log, j)
       /\ DoneBodies(v.log) = DoneBodies(c.log) /\ AllText(v.log) = AllText(c.log)
       /\ Last(v.log).type = "added"
  BY <1>8 DEF Heard
<1>17. \A n \in DOMAIN calls : (n \in DOMAIN c.calls /\ calls[n] = c.calls[n]) \/ calls[n] = call
  BY <1>12, <1>23, Zenon
<1>18. \A n \in DOMAIN c.calls : c.calls[n].args = Received(c.log, c.calls[n].id)
  BY <1>2 DEF Told, Holding
<1>19. \A n \in DOMAIN calls : calls[n].args = Received(v.log, calls[n].id)
  BY <1>5, <1>10, <1>11, <1>16, <1>17, <1>18
<1>20. Holding(u)
  BY <1>2, <1>14, <1>16, <1>19 DEF Told, Holding
<1> QED
  BY <1>14, <1>15, <1>16, <1>20 DEF Told, Completed

LEMMA CallTold ==
    ASSUME NEW t, Flowing(t), Told(t), NEW i \in Nat, NEW args \in Seq(Nat)
    PROVE  Told(CallDelta(t, i, args))
<1>1. PICK k : k = IF Known(t, i) THEN t ELSE OpenCall(t, i)
  OBVIOUS
<1>2. Flowing(k) /\ Known(k, i) /\ Told(k)
  BY <1>1, OpensCall, OpenCallTold
<1>3. PICK n : n = CHOOSE m \in DOMAIN k.calls : k.calls[m].tool = i
  OBVIOUS
<1>4. n \in DOMAIN k.calls
  BY <1>2, <1>3 DEF Known
<1>5. CASE args = << >>
  BY <1>1, <1>2, <1>3, <1>5 DEF CallDelta
<1>6. CASE args # << >>
  <2>1. Sound(k) /\ k \in TranslationType /\ k.closed = 0 /\ k.seq = Len(k.log) - 1
    BY <1>2 DEF Flowing, Sound, Accounted
  <2>2. /\ k.calls \in Seq(CallType) /\ DOMAIN k.calls = 1..Len(k.calls) /\ Len(k.calls) \in Nat
        /\ \A m \in DOMAIN k.calls : k.calls[m] \in CallType /\ k.calls[m].id \in Nat
        /\ k.calls[n].index \in Nat /\ k.calls[n].args \in Seq(Nat)
    BY <1>4, <2>1, CallTyped
  <2>3. PICK call : call = AddArguments(k.calls[n], args)
    OBVIOUS
  <2>4. call \in CallType /\ call.id = k.calls[n].id /\ call.args = k.calls[n].args \o args
    <3>1. k.calls[n] \in CallType /\ k.calls[n].args \o args \in Seq(Nat)
      BY <1>4, <2>2
    <3> QED
      BY <2>3, <3>1 DEF AddArguments, CallType
  <2>5. PICK calls : calls = [k.calls EXCEPT ![n] = call]
    OBVIOUS
  <2>6. /\ calls \in Seq(CallType) /\ DOMAIN calls = DOMAIN k.calls
        /\ \A m \in DOMAIN calls : calls[m] = IF m = n THEN call ELSE k.calls[m]
    BY <1>4, <2>2, <2>4, <2>5
  <2>7. PICK v : v = [k EXCEPT !.calls = calls]
    OBVIOUS
  <2>8. /\ v \in TranslationType /\ v.log = k.log /\ v.seq = k.seq /\ v.open = k.open
        /\ v.said = k.said /\ v.output = k.output /\ v.calls = calls
    BY <2>1, <2>6, <2>7 DEF TranslationType
  <2>9. PICK u : u = Emit(v, "args", k.calls[n].index, k.calls[n].id, args)
    OBVIOUS
  <2>10. u = CallDelta(t, i, args)
    <3>1. CallDelta(t, i, args) = Emit(v, "args", k.calls[n].index, k.calls[n].id, args)
      BY <1>1, <1>3, <1>6, <2>3, <2>5, <2>7 DEF CallDelta
    <3> QED
      BY <2>9, <3>1
  <2>11. "args" \in EventTypes /\ args \in Seq(Nat) \cup Seq(ItemType)
    BY DEF EventTypes
  <2>21. /\ v \in TranslationType /\ v.seq = Len(v.log) - 1
         /\ k.calls[n].id \in Nat /\ k.calls[n].index \in Nat
    BY <1>4, <2>1, <2>2, <2>8
  <2>22. Heard(v, u, "args", k.calls[n].id, args)
    BY <2>9, <2>11, <2>21, Hears
  <2>12. /\ Heard(v, u, "args", k.calls[n].id, args)
         /\ u.open = v.open /\ u.said = v.said /\ u.calls = v.calls /\ u.output = v.output
    BY <2>22 DEF Heard
  <2>13. ~Ended(v.log, k.calls[n].id) /\ k.calls[n].id # k.open
    <3>1. n > k.closed
      BY <1>4, <2>1, <2>2
    <3> QED
      BY <1>4, <2>1, <2>8, <3>1, CallItem
  <2>14. Truthful(u.log) /\ Final(u.log)
    BY <1>2, <2>8, <2>12, <2>13, StaysTruthful, StaysFinal DEF Told
  <2>15. /\ \A j \in Nat : j # k.calls[n].id => Received(u.log, j) = Received(k.log, j)
         /\ Received(u.log, k.calls[n].id) = Received(k.log, k.calls[n].id) \o args
         /\ DoneBodies(u.log) = DoneBodies(k.log) /\ AllText(u.log) = AllText(k.log)
         /\ Last(u.log).type = "args"
    BY <1>4, <2>2, <2>8, <2>12 DEF Heard
  <2>16. \A m \in DOMAIN k.calls : k.calls[m].args = Received(k.log, k.calls[m].id)
    BY <1>2 DEF Told, Holding
  <2>17. \A m \in DOMAIN k.calls : k.calls[m].id = k.calls[n].id => m = n
    BY <1>4, <2>1 DEF Sound, Accounted
  <2>18. \A m \in DOMAIN calls : calls[m].args = Received(u.log, calls[m].id)
    BY <1>4, <2>2, <2>4, <2>6, <2>15, <2>16, <2>17
  <2>20. Holding(u)
    BY <1>2, <2>8, <2>12, <2>15, <2>18 DEF Told, Holding
  <2> QED
    BY <2>10, <2>14, <2>15, <2>20 DEF Told, Completed
<1> QED
  BY <1>5, <1>6

\* A call closed after the stream.
LEMMA CloseCallTold ==
    ASSUME NEW t, Sound(t), t.open = 0, t.closed < Len(t.calls), Told(t), NEW u, u = CloseCall(t)
    PROVE  Told(u)
<1>1. /\ t \in TranslationType /\ t.seq = Len(t.log) - 1
      /\ t.closed \in Nat /\ Len(t.calls) \in Nat /\ DOMAIN t.calls = 1..Len(t.calls)
      /\ t.output \in Seq(ItemType)
      /\ \A m \in DOMAIN t.calls : t.calls[m].id \in Nat
  BY CallTyped DEF Sound, Accounted
<1>2. PICK n \in DOMAIN t.calls : n = t.closed + 1
  BY <1>1
<1>3. PICK call : call = t.calls[n]
  OBVIOUS
<1>4. call.id \in Nat /\ call.index \in Nat /\ call.args \in Seq(Nat)
  BY <1>1, <1>3, CallTyped
<1>5. call.args = Received(t.log, call.id) /\ ~Ended(t.log, call.id)
  <2>1. n > t.closed
    BY <1>1, <1>2
  <2> QED
    BY <1>3, <2>1, CallItem DEF Told, Holding
<1>6. /\ "args_done" \in EventTypes /\ "done" \in EventTypes
      /\ call.args \in Seq(Nat) \cup Seq(ItemType)
  BY <1>4 DEF EventTypes
<1>7. PICK s : s = Emit(t, "args_done", call.index, call.id, call.args)
  OBVIOUS
<1>8. Heard(t, s, "args_done", call.id, call.args)
  BY <1>1, <1>4, <1>6, <1>7, Hears
<1>9. /\ s \in TranslationType /\ s.seq = Len(s.log) - 1
      /\ s.open = 0 /\ s.calls = t.calls /\ s.output = t.output
      /\ \A i \in Nat : Received(s.log, i) = Received(t.log, i)
      /\ DoneBodies(s.log) = DoneBodies(t.log)
      /\ Called(s.log, call.id) /\ AllText(s.log) = AllText(t.log) /\ s.said = t.said
      /\ \A e \in DOMAIN s.log : \/ e \in DOMAIN t.log /\ s.log[e] = t.log[e]
                                 \/ s.log[e].id = call.id
      /\ \A i \in Nat : Ended(s.log, i) <=> Ended(t.log, i)
      /\ \A e \in DOMAIN t.log : t.log[e].id \in Nat
  <2>1. \A e \in DOMAIN s.log : e \in 1..Len(t.log) \/ e = Len(t.log) + 1
    <3>1. Len(t.log) \in Nat /\ DOMAIN s.log = 1..(Len(t.log) + 1)
      BY <1>8 DEF Heard
    <3> QED
      BY <3>1
  <2> QED
    BY <1>4, <1>8, <2>1 DEF Heard
<1>10. PICK v : v = Emit(s, "done", call.index, call.id, call.args)
  OBVIOUS
<1>11. Heard(s, v, "done", call.id, call.args)
  BY <1>4, <1>6, <1>9, <1>10, Hears
<1>12. /\ v \in TranslationType /\ v.open = 0 /\ v.calls = t.calls /\ v.output = t.output
       /\ v.closed = t.closed
       /\ \A i \in Nat : Received(v.log, i) = Received(t.log, i)
       /\ DoneBodies(v.log) = Append(DoneBodies(t.log), call.args)
       /\ v.said = t.said /\ AllText(v.log) = AllText(t.log)
       /\ Last(v.log).type = "done"
  BY <1>8, <1>9, <1>11 DEF Heard
<1>13. Truthful(v.log)
  <2>1. Truthful(s.log)
    BY <1>4, <1>5, <1>8, StaysTruthful DEF Told
  <2>2. call.args = IF Called(s.log, call.id) THEN Received(s.log, call.id) ELSE AllText(s.log)
    BY <1>4, <1>5, <1>9
  <2> QED
    BY <1>4, <1>11, <2>1, <2>2, StaysTruthful
<1>14. Final(v.log)
  <2>1. ASSUME NEW e \in DOMAIN v.log, v.log[e].type = "args_done" PROVE Ended(v.log, v.log[e].id)
    <3>1. e \in DOMAIN s.log /\ v.log[e] = s.log[e]
      <4>1. /\ Len(s.log) \in Nat /\ DOMAIN v.log = 1..(Len(s.log) + 1) /\ DOMAIN s.log = 1..Len(s.log)
            /\ v.log[Len(s.log) + 1].type = "done"
            /\ \A d \in 1..Len(s.log) : v.log[d] = s.log[d]
        BY <1>11 DEF Heard
      <4>2. e # Len(s.log) + 1
        BY <2>1, <4>1
      <4> QED
        BY <4>1, <4>2
    <3>2. CASE s.log[e].id = call.id
      BY <1>4, <1>11, <3>1, <3>2 DEF Heard
    <3>3. CASE e \in DOMAIN t.log /\ s.log[e] = t.log[e]
      <4>1. Ended(t.log, t.log[e].id)
        BY <2>1, <3>1, <3>3 DEF Told, Final
      <4>2. t.log[e].id \in Nat /\ Ended(s.log, t.log[e].id)
        BY <1>9, <3>3, <4>1
      <4> QED
        BY <1>11, <3>1, <3>3, <4>2 DEF Heard
    <3> QED
      BY <1>9, <3>1, <3>2, <3>3
  <2> QED
    BY <2>1 DEF Final
<1>15. Item("call", call.args) \in ItemType /\ Item("call", call.args).body = call.args
  BY <1>4 DEF Item, ItemType
<1>16. PICK item \in ItemType : item = Item("call", call.args) /\ item.body = call.args
  BY <1>15, Zenon
<1>17. Append(t.output, item) \in Seq(ItemType)
  BY <1>1
<1>18. PICK output \in Seq(ItemType) : output = Append(t.output, item)
  BY <1>17, Zenon
<1>19. u = [v EXCEPT !.output = output, !.closed = n]
  <2>1. call = t.calls[t.closed + 1]
    BY <1>2, <1>3
  <2>2. CloseCall(t) = [v EXCEPT !.output = Append(@, Item("call", call.args)), !.closed = @ + 1]
    BY ZenonT(30), <1>7, <1>10, <2>1 DEF CloseCall
  <2> QED
    BY <1>2, <1>12, <1>16, <1>18, <2>2
<1>20. u.log = v.log /\ u.calls = t.calls /\ u.output = output /\ u.said = t.said
  BY <1>12, <1>19 DEF TranslationType
<1>21. Bodies(output) = DoneBodies(v.log)
  <2>1. Bodies(Append(t.output, item)) = Append(Bodies(t.output), item.body)
    BY <1>1, BodiesAppend
  <2> QED
    BY <1>12, <1>16, <1>18, <2>1 DEF Told, Holding
<1>22. Holding(u)
  BY <1>1, <1>12, <1>20, <1>21 DEF Told, Holding
<1> QED
  BY <1>12, <1>13, <1>14, <1>20, <1>22 DEF Told, Completed

LEMMA CompleteTold ==
    ASSUME NEW t, Sound(t), t.open = 0, Told(t), NEW u, u = Complete(t)
    PROVE  Told(u)
<1>1. /\ t \in TranslationType /\ t.seq = Len(t.log) - 1 /\ t.output \in Seq(ItemType)
      /\ \A n \in DOMAIN t.calls : t.calls[n].id \in Nat
  BY CallTyped DEF Sound, Accounted
<1>2. "completed" \in EventTypes /\ t.output \in Seq(Nat) \cup Seq(ItemType) /\ 0 \in Nat
  BY <1>1 DEF EventTypes
<1>3. u = Emit(t, "completed", 0, 0, t.output)
  BY DEF Complete
<1>4. Heard(t, u, "completed", 0, t.output)
  BY <1>1, <1>2, <1>3, Hears
<1>5. /\ u.open = 0 /\ u.calls = t.calls /\ u.output = t.output
      /\ \A i \in Nat : Received(u.log, i) = Received(t.log, i)
      /\ DoneBodies(u.log) = DoneBodies(t.log)
      /\ AllText(u.log) = AllText(t.log) /\ u.said = t.said
      /\ Last(u.log).body = t.output
  BY <1>4 DEF Heard
<1>6. Truthful(u.log) /\ Final(u.log)
  BY <1>4, StaysTruthful, StaysFinal DEF Told
<1>7. Holding(u)
  BY <1>1, <1>5 DEF Told, Holding
<1> QED
  BY <1>5, <1>6, <1>7 DEF Told

LEMMA StartTold == Told(Start)
<1> DEFINE ev == [type |-> "created", seq |-> 0, index |-> 0, id |-> 0, body |-> << >>]
<1>1. /\ Start.said = << >> /\ Start.calls = << >> /\ Start.output = << >> /\ Start.log = <<ev>>
  BY DEF Start
<1>2. ev \in EventType
  BY DEF EventType, EventTypes
<1>3. ev.type = "created"
  OBVIOUS
<1> HIDE DEF ev
<1>4. <<ev>> \in Seq(EventType) /\ DOMAIN <<ev>> = 1..1 /\ <<ev>>[1] = ev /\ Len(<<ev>>) = 1
  BY <1>2
<1>5. Truthful(Start.log) /\ Final(Start.log)
  BY <1>1, <1>3, <1>4 DEF Truthful, Final
<1>6. DoneBodies(Start.log) = << >>
  <2>1. DoneBodies(Start.log) = FlattenSeq([e \in 1..1 |-> << >>])
    BY <1>1, <1>3, <1>4 DEF DoneBodies
  <2>2. PICK a : a = [e \in 1..1 |-> << >>]
    OBVIOUS
  <2>3. a \in Seq(Seq(Bits)) /\ \A e \in DOMAIN a : a[e] = << >>
    <3>1. << >> \in Seq(Bits)
      OBVIOUS
    <3> QED
      BY <2>2, <3>1
  <2>4. FlattenSeq(a) = << >>
    BY <2>3, FlattenNothing
  <2> QED
    BY <2>1, <2>2, <2>4
<1>11. AllText(Start.log) = << >>
  <2>1. AllText(Start.log) = FlattenSeq([e \in 1..1 |-> << >>])
    BY <1>1, <1>3, <1>4 DEF AllText, TextUpTo
  <2>2. PICK a : a = [e \in 1..1 |-> << >>]
    OBVIOUS
  <2>3. a \in Seq(Seq(Bits)) /\ \A e \in DOMAIN a : a[e] = << >>
    <3>1. << >> \in Seq(Bits)
      OBVIOUS
    <3> QED
      BY <2>2, <3>1
  <2>4. FlattenSeq(a) = << >>
    BY <2>3, FlattenNothing
  <2> QED
    BY <2>1, <2>2, <2>4
<1>7. Bodies(Start.output) = << >>
  BY <1>1 DEF Bodies
<1>8. DOMAIN Start.calls = {}
  BY <1>1
<1>9. Holding(Start)
  BY <1>1, <1>6, <1>7, <1>8, <1>11 DEF Holding
<1>10. ~Completed(Start)
  BY <1>1, <1>3, <1>4 DEF Completed, Last
<1> QED
  BY <1>5, <1>9, <1>10 DEF Told

LEMMA ToldFaithful ==
    ASSUME NEW t, Told(t)
    PROVE  Faithful(t)
BY DEF Told, Holding, Truthful, Faithful

-----------------------------------------------------------------------------
(* What a translation is at each stage of its request *)

StreamStages == {"streaming", "closing", "completed"}

\* A translation is there while its request is at one of these stages: deltas
\* flow, then what is open is closed, then all is.
Streamed(r) ==
    /\ pc[r] = "streaming" => Flowing(stream[r])
    /\ pc[r] = "closing" => Sound(stream[r]) /\ ~Completed(stream[r]) /\ stream[r].open = 0
    /\ pc[r] = "completed" =>
          Sound(stream[r]) /\ stream[r].open = 0 /\ stream[r].closed = Len(stream[r].calls)
    /\ pc[r] \notin StreamStages => stream[r] = None

Streaming == \A r \in Ids : Streamed(r)

\* A fragment is numbered by a natural number.
LEMMA FragmentTyped ==
    ASSUME NEW r \in Ids, Sound(stream[r])
    PROVE  Fragment(r) \in Nat
<1> DEFINE F == {e \in DOMAIN stream[r].log : stream[r].log[e].type \in {"text", "args"}}
<1>1. stream[r].log \in Seq(EventType)
  BY CallTyped DEF Sound
<1>2. DOMAIN stream[r].log = 1..Len(stream[r].log) /\ 1 \in Int /\ Len(stream[r].log) \in Int
  BY <1>1
<1>3. IsFiniteSet(DOMAIN stream[r].log)
  BY <1>2, FS_Interval
<1>4. F \subseteq DOMAIN stream[r].log
  OBVIOUS
<1>5. IsFiniteSet(F)
  BY <1>3, <1>4, FS_Subset
<1>6. Cardinality(F) \in Nat
  BY <1>5, FS_CardinalityType
<1> QED
  BY <1>6 DEF Fragment

LEMMA DeltaStreamed ==
    ASSUME Base, Streaming, NEW r \in Ids, Delta(r)
    PROVE  Streamed(r)'
<1>1. Flowing(stream[r]) /\ pc'[r] = "streaming" /\ pc[r] = "streaming"
  BY DEF Delta, Streaming, Streamed
<1>2. PICK x \in Nat : x = Fragment(r)
  BY <1>1, FragmentTyped DEF Flowing
<1>3. CASE stream' = [stream EXCEPT ![r] = TextDelta(@, x)]
  <2>1. stream'[r] = TextDelta(stream[r], x)
    BY <1>3 DEF Base
  <2>2. Flowing(stream'[r])
    BY <1>1, <2>1, TextDeltaFlows
  <2> QED
    BY <1>1, <2>2 DEF Streamed, StreamStages
<1>4. ASSUME NEW i \in 1..MaxCalls, NEW args \in {<< >>, <<x>>},
             stream' = [stream EXCEPT ![r] = CallDelta(@, i, args)]
      PROVE  Streamed(r)'
  <2>1. i \in Nat /\ args \in Seq(Nat)
    <3>1. i \in Nat
      BY ResponsesAssumption
    <3>2. << >> \in Seq(Nat) /\ <<x>> \in Seq(Nat)
      OBVIOUS
    <3> QED
      BY <3>1, <3>2
  <2>2. stream'[r] = CallDelta(stream[r], i, args)
    BY <1>4 DEF Base
  <2>3. Flowing(stream'[r])
    BY <1>1, <2>1, <2>2, CallDeltaFlows
  <2> QED
    BY <1>1, <2>3 DEF Streamed, StreamStages
<1> QED
  BY <1>2, <1>3, <1>4 DEF Delta

LEMMA HandlerStreamed ==
    ASSUME Base, Streaming, NEW r \in Ids, Handle(r) \/ Disconnect(r)
    PROVE  Streamed(r)'
<1>1. Streamed(r)
  BY DEF Streaming
<1>2. ASSUME Refused(r) \/ (\E output \in PlainOutputs : Answer(r, output)) PROVE Streamed(r)'
  <2>1. stream' = stream /\ pc[r] = "calling" /\ pc'[r] \notin StreamStages
    BY <1>2 DEF Refused, Answer, Base, StreamStages
  <2> QED
    BY <1>1, <2>1 DEF Streamed, StreamStages
<1>3. ASSUME StreamBegins(r) PROVE Streamed(r)'
  <2>1. pc'[r] = "streaming" /\ stream'[r] = Start
    BY <1>3 DEF StreamBegins, Base
  <2> QED
    BY <2>1, Starts DEF Streamed, StreamStages
<1>4. ASSUME StreamEnds(r) PROVE Streamed(r)'
  <2>1. pc[r] = "streaming" /\ pc'[r] = "closing" /\ stream'[r] = CloseText(stream[r])
    BY <1>4 DEF StreamEnds, Base
  <2>2. Sound(stream[r]) /\ ~Completed(stream[r])
    BY <1>1, <2>1 DEF Streamed, Flowing
  <2>3. Quiet(stream[r], stream'[r])
    BY <2>1, <2>2, ClosesText
  <2>4. Sound(stream'[r]) /\ ~Completed(stream'[r]) /\ stream'[r].open = 0
    BY <2>3 DEF Quiet
  <2> QED
    BY <2>1, <2>4 DEF Streamed, StreamStages
<1>5. ASSUME EndCall(r) PROVE Streamed(r)'
  <2>1. /\ pc[r] = "closing" /\ pc'[r] = "closing" /\ stream'[r] = CloseCall(stream[r])
        /\ stream[r].closed < Len(stream[r].calls)
    BY <1>5 DEF EndCall, Base
  <2>2. Sound(stream[r]) /\ stream[r].open = 0
    BY <1>1, <2>1 DEF Streamed
  <2>3. Sound(stream'[r]) /\ ~Completed(stream'[r]) /\ stream'[r].open = 0
    BY <2>1, <2>2, ClosesCall
  <2> QED
    BY <2>1, <2>3 DEF Streamed, StreamStages
<1>6. ASSUME Report(r) PROVE Streamed(r)'
  <2>1. /\ pc[r] = "closing" /\ pc'[r] = "completed" /\ stream'[r] = Complete(stream[r])
        /\ stream[r].closed = Len(stream[r].calls)
    BY <1>6 DEF Report, Base
  <2>2. Sound(stream[r]) /\ stream[r].open = 0
    BY <1>1, <2>1 DEF Streamed
  <2>3. Sound(stream'[r]) /\ stream'[r].open = 0 /\ stream'[r].closed = Len(stream'[r].calls)
    BY <2>1, <2>2, Completes
  <2> QED
    BY <2>1, <2>3 DEF Streamed, StreamStages
<1>7. ASSUME Persist(r) \/ Disconnect(r) PROVE Streamed(r)'
  <2>1. stream'[r] = None /\ pc'[r] \notin StreamStages
    BY <1>7 DEF Persist, Disconnect, Base, StreamStages
  <2> QED
    BY <2>1 DEF Streamed, StreamStages
<1> QED
  BY <1>2, <1>3, <1>4, <1>5, <1>6, <1>7, DeltaStreamed DEF Handle

\* The steps of a request leave the others' translations alone.
LEMMA HandlerAlone ==
    ASSUME Base, NEW r \in Ids, Handle(r) \/ Disconnect(r), NEW q \in Ids, q # r
    PROVE  stream'[q] = stream[q] /\ pc'[q] = pc[q]
<1>1. stream'[q] = stream[q]
  BY DEF Handle, Refused, Answer, StreamBegins, Delta, StreamEnds, EndCall, Report, Persist,
         Disconnect, Base
<1>2. pc'[q] = pc[q]
  BY HandleEffect DEF HandlerStep, SaveStep
<1> QED
  BY <1>1, <1>2

\* Other steps leave a translation and its stage alone, or end both.
Passed(q) ==
    \/ stream'[q] = stream[q] /\ (pc'[q] = pc[q] \/ {pc[q], pc'[q]} \cap StreamStages = {})
    \/ stream'[q] = None /\ pc'[q] \notin StreamStages

LEMMA OtherPassed ==
    ASSUME Types, NEW q \in Ids,
           \/ UNCHANGED vars
           \/ \E r \in Ids : \E k \in Kinds[r] : Arrive(r, k)
           \/ \E r \in Ids, p \in Processes : Delete(r, p)
           \/ \E p \in Processes : Command(p) \/ Crash(p)
    PROVE  Passed(q)
<1>1. Base
  BY DEF Types
<1>2. ASSUME stream' = stream, pc'[q] = pc[q] \/ {pc[q], pc'[q]} \cap StreamStages = {}
      PROVE  Passed(q)
  BY <1>2 DEF Passed
<1>3. ASSUME UNCHANGED vars PROVE Passed(q)
  BY <1>2, <1>3 DEF vars, sessionVars
<1>4. ASSUME NEW r \in Ids, NEW k \in Kinds[r], Arrive(r, k) PROVE Passed(q)
  <2>1. stream' = stream /\ pc[r] = "new" /\ \/ pc' = [pc EXCEPT ![r] = "calling"]
                                             \/ pc' = [pc EXCEPT ![r] = "chaining"]
    BY <1>4 DEF Arrive
  <2> QED
    BY <1>1, <1>2, <2>1 DEF Base, StreamStages
<1>5. ASSUME NEW r \in Ids, NEW p \in Processes, Delete(r, p) PROVE Passed(q)
  BY <1>2, <1>5 DEF Delete, sessionVars
<1>6. ASSUME NEW p \in Processes, Command(p) PROVE Passed(q)
  <2>1. stream' = stream
    BY <1>6 DEF Command, ChainOutput, SaveMessages, DeleteObject, DeleteMessages, ReadIndex,
                WriteIndex, sessionVars
  <2>2. CASE ChainOutput(p)
    <3>1. pc[op[p].for] = "chaining" /\ pc' = [pc EXCEPT ![op[p].for] = "calling"]
      BY <2>2 DEF ChainOutput, Types, Serving
    <3> QED
      BY <1>1, <1>2, <2>1, <3>1 DEF Base, StreamStages
  <2>3. CASE SaveMessages(p) \/ DeleteObject(p) \/ DeleteMessages(p)
    BY <1>2, <2>1, <2>3 DEF SaveMessages, DeleteObject, DeleteMessages, sessionVars
  <2>4. CASE ReadIndex(p) \/ WriteIndex(p)
    <3>1. pc' = pc \/ Return(p)
      BY <2>4 DEF ReadIndex, WriteIndex
    <3>2. pc'[q] = pc[q] \/ (pc[q] = "saving" /\ pc'[q] = "over")
      BY <1>1, <3>1, ReturnTyped
    <3> QED
      BY <1>2, <2>1, <3>2 DEF StreamStages
  <2> QED
    BY <1>6, <2>2, <2>3, <2>4 DEF Command
<1>7. ASSUME NEW p \in Processes, Crash(p) PROVE Passed(q)
  <2>1. CASE q \in Handled(p)
    <3>1. pc'[q] = "gone" /\ stream'[q] = None
      BY <1>7, <2>1 DEF Crash
    <3> QED
      BY <3>1 DEF Passed, StreamStages
  <2>2. CASE q \notin Handled(p)
    <3>1. pc'[q] = pc[q] /\ stream'[q] = stream[q]
      BY <1>7, <2>2 DEF Crash
    <3> QED
      BY <3>1 DEF Passed
  <2> QED
    BY <2>1, <2>2
<1> QED
  BY <1>3, <1>4, <1>5, <1>6, <1>7

LEMMA StreamingHolds == Spec => []Streaming
<1>1. Init => Streaming
  BY DEF Init, Streaming, Streamed, StreamStages
<1>2. Types /\ Streaming /\ [Next]_vars => Streaming'
  <2> SUFFICES ASSUME Types, Streaming, [Next]_vars, NEW q \in Ids PROVE Streamed(q)'
    BY DEF Streaming
  <2>1. ASSUME NEW r \in Ids, Handle(r) \/ Disconnect(r) PROVE Streamed(q)'
    <3>1. Base /\ Streamed(q)
      BY DEF Types, Streaming
    <3>2. CASE q = r
      BY <2>1, <3>1, <3>2, HandlerStreamed
    <3>3. CASE q # r
      <4>1. stream'[q] = stream[q] /\ pc'[q] = pc[q]
        BY <2>1, <3>1, <3>3, HandlerAlone
      <4> QED
        BY <3>1, <4>1 DEF Streamed
    <3> QED
      BY <3>2, <3>3
  <2>2. ASSUME Passed(q) PROVE Streamed(q)'
    BY <2>2 DEF Passed, Streaming, Streamed, StreamStages
  <2> QED
    BY <2>1, <2>2, OtherPassed DEF Next
<1> QED
  BY <1>1, <1>2, TypesHold, PTL DEF Spec

\* In whatever order the text and the tool calls of a chat stream come, however
\* many, and wherever it is cut off, every item of its translation is begun and
\* ended once, nothing is said of it before or after, events are numbered
\* without a gap and no two items have one index.
THEOREM Brackets == Spec => []WellBracketed
<1>1. Streaming => WellBracketed
  <2> SUFFICES ASSUME Streaming, NEW r \in Ids, stream[r] # None
               PROVE  Bracketed(stream[r]) /\ Numbered(stream[r])
    BY DEF WellBracketed, Streams
  <2>1. Streamed(r)
    BY DEF Streaming
  <2>2. pc[r] \in StreamStages
    BY <2>1 DEF Streamed
  <2>3. /\ Sound(stream[r])
        /\ Completed(stream[r]) => stream[r].open = 0 /\ stream[r].closed = Len(stream[r].calls)
    BY <2>1, <2>2 DEF Streamed, StreamStages, Flowing
  <2> QED
    BY <2>3, SoundBracketed
<1> QED
  BY <1>1, StreamingHolds, PTL

\* What a translation has said, while it is there.
Telling == \A r \in Ids : pc[r] \in StreamStages => Told(stream[r])

LEMMA DeltaTold ==
    ASSUME Base, Streaming, Telling, NEW r \in Ids, Delta(r)
    PROVE  Told(stream'[r])
<1>1. Flowing(stream[r]) /\ Told(stream[r])
  BY DEF Delta, Streaming, Streamed, Telling, StreamStages
<1>2. PICK x \in Nat : x = Fragment(r)
  BY <1>1, FragmentTyped DEF Flowing
<1>3. CASE stream' = [stream EXCEPT ![r] = TextDelta(@, x)]
  <2>1. stream'[r] = TextDelta(stream[r], x)
    BY <1>3 DEF Base
  <2> QED
    BY <1>1, <2>1, TextTold
<1>4. ASSUME NEW i \in 1..MaxCalls, NEW args \in {<< >>, <<x>>},
             stream' = [stream EXCEPT ![r] = CallDelta(@, i, args)]
      PROVE  Told(stream'[r])
  <2>1. i \in Nat /\ args \in Seq(Nat)
    <3>1. i \in Nat
      BY ResponsesAssumption
    <3>2. << >> \in Seq(Nat) /\ <<x>> \in Seq(Nat)
      OBVIOUS
    <3> QED
      BY <3>1, <3>2
  <2>2. stream'[r] = CallDelta(stream[r], i, args)
    BY <1>4 DEF Base
  <2> QED
    BY <1>1, <2>1, <2>2, CallTold
<1> QED
  BY <1>2, <1>3, <1>4 DEF Delta

LEMMA HandlerTold ==
    ASSUME Base, Streaming, Telling, NEW r \in Ids, Handle(r) \/ Disconnect(r),
           pc'[r] \in StreamStages
    PROVE  Told(stream'[r])
<1>1. Streamed(r) /\ (pc[r] \in StreamStages => Told(stream[r]))
  BY DEF Streaming, Telling
<1>2. ~Refused(r) /\ (\A output \in PlainOutputs : ~Answer(r, output)) /\ ~Persist(r) /\ ~Disconnect(r)
  BY DEF Refused, Answer, Persist, Disconnect, Base, StreamStages
<1>3. ASSUME StreamBegins(r) PROVE Told(stream'[r])
  BY <1>3, StartTold DEF StreamBegins, Base
<1>4. ASSUME StreamEnds(r) PROVE Told(stream'[r])
  <2>1. pc[r] = "streaming" /\ stream'[r] = CloseText(stream[r])
    BY <1>4 DEF StreamEnds, Base
  <2>2. Sound(stream[r]) /\ ~Completed(stream[r]) /\ Told(stream[r])
    BY <1>1, <2>1 DEF Streamed, Flowing, StreamStages
  <2> QED
    BY <2>1, <2>2, CloseTextTold
<1>5. ASSUME EndCall(r) PROVE Told(stream'[r])
  <2>1. /\ pc[r] = "closing" /\ stream'[r] = CloseCall(stream[r])
        /\ stream[r].closed < Len(stream[r].calls)
    BY <1>5 DEF EndCall, Base
  <2>2. Sound(stream[r]) /\ stream[r].open = 0 /\ Told(stream[r])
    BY <1>1, <2>1 DEF Streamed, StreamStages
  <2> QED
    BY <2>1, <2>2, CloseCallTold
<1>6. ASSUME Report(r) PROVE Told(stream'[r])
  <2>1. pc[r] = "closing" /\ stream'[r] = Complete(stream[r])
    BY <1>6 DEF Report, Base
  <2>2. Sound(stream[r]) /\ stream[r].open = 0 /\ Told(stream[r])
    BY <1>1, <2>1 DEF Streamed, StreamStages
  <2> QED
    BY <2>1, <2>2, CompleteTold
<1> QED
  BY <1>2, <1>3, <1>4, <1>5, <1>6, DeltaTold DEF Handle

LEMMA TellingHolds == Spec => []Telling
<1>1. Init => Telling
  BY DEF Init, Telling, StreamStages
<1>2. Types /\ Streaming /\ Telling /\ [Next]_vars => Telling'
  <2> SUFFICES ASSUME Types, Streaming, Telling, [Next]_vars, NEW q \in Ids,
                      pc'[q] \in StreamStages
               PROVE  Told(stream'[q])
    BY DEF Telling
  <2>1. ASSUME NEW r \in Ids, Handle(r) \/ Disconnect(r) PROVE Told(stream'[q])
    <3>1. Base
      BY DEF Types
    <3>2. CASE q = r
      BY <2>1, <3>1, <3>2, HandlerTold
    <3>3. CASE q # r
      <4>1. stream'[q] = stream[q] /\ pc'[q] = pc[q]
        BY <2>1, <3>1, <3>3, HandlerAlone
      <4> QED
        BY <4>1 DEF Telling
    <3> QED
      BY <3>2, <3>3
  <2>2. ASSUME Passed(q) PROVE Told(stream'[q])
    BY <2>2 DEF Passed, Telling
  <2> QED
    BY <2>1, <2>2, OtherPassed DEF Next
<1> QED
  BY <1>1, <1>2, TypesHold, StreamingHolds, PTL DEF Spec

\* However the deltas of text and of tool calls are interleaved, and however
\* many there are, the end of a call reports the arguments its deltas brought,
\* the end of a message ends with the text that was streamed of it, and the
\* response that is reported complete holds the items that were done, in their
\* order, with the content they were done with.
THEOREM EndsAsStreamed == Spec => []EndsFaithful
<1>1. Streaming /\ Telling => EndsFaithful
  <2> SUFFICES ASSUME Streaming, Telling, NEW r \in Ids, stream[r] # None
               PROVE  Faithful(stream[r])
    BY DEF EndsFaithful, Streams
  <2>1. pc[r] \in StreamStages
    BY DEF Streaming, Streamed
  <2> QED
    BY <2>1, ToldFaithful DEF Telling
<1> QED
  BY <1>1, StreamingHolds, TellingHolds, PTL

-----------------------------------------------------------------------------
(* What clients are told, and what is stored of it *)

After == {"saving", "over", "gone"}

\* A handler has an output from the time it is through.
Answered(r) ==
    /\ made[r] \in Outputs \cup {None}
    /\ pc[r] \in {"completed", "saving", "over"} => made[r] \in Outputs

\* The output stored is the one made; it is there from the save to a delete,
\* and the input messages from the end of the save.
Stored(r) ==
    /\ obj[r] # None => obj[r] = made[r] /\ kind[r].store
    /\ obj[r] # None \/ r \in deleted => pc[r] \in After
    /\ r \notin deleted /\ pc[r] \in {"saving", "over"} /\ kind[r].store => obj[r] = made[r]
    /\ r \notin deleted /\ pc[r] = "over" /\ kind[r].store => r \in msgs

\* A save has stored the messages before it goes to the index; a delete has
\* removed the output.
Commanding(p) ==
    /\ op[p].do \in {"append", "append_write"} => op[p].id \in msgs \cup deleted
    /\ op[p].do \in Deleting \ {"delete_object"} => obj[op[p].id] = None

Storing ==
    /\ \A r \in Ids : Answered(r) /\ Stored(r)
    /\ \A p \in Processes : Commanding(p)

\* The kinds of the items of a finished output.
LEMMA ShapeTyped ==
    ASSUME NEW output \in Seq(ItemType)
    PROVE  Shape(output) \in Outputs
<1>1. DOMAIN output = 1..Len(output) /\ Len(output) \in Nat
  OBVIOUS
<1>2. \A n \in DOMAIN output : output[n].kind \in {"message", "call"}
  <2>1. \A n \in DOMAIN output : output[n] \in ItemType
    OBVIOUS
  <2> QED
    BY <2>1 DEF ItemType
<1>3. Shape(output) \in [1..Len(output) -> {"message", "call"}]
  BY <1>1, <1>2 DEF Shape
<1> QED
  BY <1>1, <1>3 DEF Outputs

LEMMA PlainTyped == PlainOutputs \subseteq Outputs
<1>1. << >> \in Outputs
  BY DEF Outputs
<1>2. <<"message">> \in Outputs
  BY DEF Outputs
<1>3. <<"message", "call">> \in Outputs
  BY DEF Outputs
<1> QED
  BY <1>1, <1>2, <1>3 DEF PlainOutputs

\* The output a handler makes is one: a plain answer's, or that of a translation.
LEMMA HandlerAnswered ==
    ASSUME Base, Streaming, Storing, NEW r \in Ids, Handle(r) \/ Disconnect(r)
    PROVE  Answered(r)'
<1>1. Answered(r) /\ Streamed(r)
  BY DEF Storing, Streaming
<1>2. ASSUME NEW output \in PlainOutputs, Answer(r, output) PROVE Answered(r)'
  <2>1. made'[r] = output
    BY <1>2 DEF Answer, Base
  <2> QED
    BY <2>1, PlainTyped DEF Answered
<1>3. ASSUME Report(r) PROVE Answered(r)'
  <2>1. made'[r] = Shape(stream[r].output) /\ pc[r] = "closing"
    BY <1>3 DEF Report, Base
  <2>2. stream[r].output \in Seq(ItemType)
    BY <1>1, <2>1, CallTyped DEF Streamed, Sound
  <2> QED
    BY <2>1, <2>2, ShapeTyped DEF Answered
<1>4. ASSUME Persist(r) PROVE Answered(r)'
  <2>1. made' = made /\ pc[r] = "completed"
    BY <1>4 DEF Persist
  <2> QED
    BY <1>1, <2>1 DEF Answered
<1>5. ASSUME Refused(r) \/ StreamBegins(r) \/ Delta(r) \/ StreamEnds(r) \/ EndCall(r) \/ Disconnect(r)
      PROVE  Answered(r)'
  <2>1. made' = made /\ pc'[r] \notin {"completed", "saving", "over"}
    BY <1>5 DEF Refused, StreamBegins, Delta, StreamEnds, EndCall, Disconnect, Base
  <2> QED
    BY <1>1, <2>1 DEF Answered
<1> QED
  BY <1>2, <1>3, <1>4, <1>5 DEF Handle

LEMMA HandlerStored ==
    ASSUME Types, Streaming, Storing, NEW r \in Ids, Handle(r) \/ Disconnect(r)
    PROVE  Storing'
<1>1. Base /\ Answered(r)' /\ (HandlerStep(r) \/ SaveStep(r))
  BY HandlerAnswered, HandleEffect DEF Types
<1>2. Stored(r) /\ pc[r] \notin After /\ obj[r] = None /\ r \notin deleted
  BY <1>1 DEF Storing, Stored, After, HandlerStep, SaveStep
<1>3. ASSUME NEW q \in Ids, q # r PROVE Answered(q)' /\ Stored(q)'
  <2>1. Answered(q) /\ Stored(q)
    BY DEF Storing
  <2>2. /\ pc'[q] = pc[q] /\ made'[q] = made[q] /\ obj'[q] = obj[q]
        /\ kind' = kind /\ msgs' = msgs /\ deleted' = deleted
    BY <1>1, <1>3 DEF HandlerStep, SaveStep, storeVars, ghostVars, Base
  <2> QED
    BY <2>1, <2>2 DEF Answered, Stored
<1>4. CASE HandlerStep(r)
  <2>1. /\ op' = op /\ obj' = obj /\ msgs' = msgs /\ deleted' = deleted /\ kind' = kind
        /\ pc'[r] # "saving" /\ (pc'[r] = "over" => ~kind[r].store)
    BY <1>4 DEF HandlerStep, storeVars, ghostVars
  <2>2. Stored(r)'
    BY <1>2, <2>1 DEF Stored
  <2>3. ASSUME NEW p \in Processes PROVE Commanding(p)'
    BY <2>1 DEF Storing, Commanding
  <2> QED
    BY <1>1, <1>3, <2>2, <2>3 DEF Storing
<1>5. CASE SaveStep(r)
  <2>1. /\ msgs' = msgs /\ deleted' = deleted /\ kind' = kind
        /\ pc'[r] = "saving" /\ kind[r].store /\ pc[r] # "new"
        /\ obj'[r] = made'[r] /\ \A q \in Ids : q # r => obj'[q] = obj[q]
    BY <1>1, <1>5 DEF SaveStep, Base
  <2>2. Stored(r)'
    BY <1>2, <2>1 DEF Stored, After
  <2>3. kind[r].at \in Processes
    BY <2>1, KindTyped DEF Types
  <2>4. op'[kind[r].at].do = "save_messages" /\ \A p \in Processes : p # kind[r].at => op'[p] = op[p]
    BY ZenonT(30), <1>1, <1>5, <2>3, AtTyped, ResponsesAssumption DEF SaveStep, Saving
  <2>5. ASSUME NEW p \in Processes PROVE Commanding(p)'
    <3>1. Commanding(p) /\ Serving(p) /\ Reading(p)
      BY DEF Storing, Types
    <3>2. CASE p = kind[r].at
      BY <2>4, <3>2 DEF Commanding, Deleting
    <3>3. CASE p # kind[r].at
      <4>1. op'[p] = op[p]
        BY <2>4, <3>3
      <4>2. op[p].do \in Deleting => op[p].id \in Ids /\ op[p].id \in deleted
        BY <3>1 DEF Serving, Reading, Deleting
      <4>3. op[p].do \in Deleting => op[p].id # r
        BY <1>2, <4>2
      <4> QED
        BY <2>1, <3>1, <4>1, <4>2, <4>3 DEF Commanding
    <3> QED
      BY <3>2, <3>3
  <2> QED
    BY <1>1, <1>3, <2>2, <2>5 DEF Storing
<1> QED
  BY <1>1, <1>4, <1>5

\* Steps that change nothing of what is stored, and no stage that counts for it.
LEMMA StillStored ==
    ASSUME Types, Storing, made' = made, obj' = obj, msgs' = msgs,
           deleted' \in SUBSET Ids, deleted \subseteq deleted',
           \A r \in Ids : pc[r] # "new" => kind'[r] = kind[r],
           \A r \in deleted' \ deleted : pc[r] \in After,
           \A r \in Ids : \/ pc'[r] = pc[r]
                          \/ pc'[r] \notin {"completed", "saving", "over"} /\ pc[r] \notin After
                          \/ pc[r] \in After /\ pc'[r] = "gone"
                          \/ /\ pc[r] = "saving" /\ pc'[r] = "over"
                             /\ r \in msgs \cup deleted,
           \A p \in Processes : Commanding(p)'
    PROVE  Storing'
<1>1. ASSUME NEW r \in Ids PROVE Answered(r)' /\ Stored(r)'
  <2>1. Answered(r) /\ Stored(r)
    BY DEF Storing
  <2>2. Answered(r)'
    BY <2>1 DEF Answered, After
  <2>3. pc[r] # "new" \/ (obj[r] = None /\ r \notin deleted' /\ pc'[r] \notin {"saving", "over"})
    BY <2>1 DEF Stored, After
  <2>4. Stored(r)'
    <3>1. CASE pc[r] # "new"
      <4>1. kind'[r] = kind[r]
        BY <3>1
      <4>2. pc[r] \in After => pc'[r] \in After
        BY DEF After
      <4>3. obj[r] # None \/ r \in deleted' => pc'[r] \in After
        BY <2>1, <4>2 DEF Stored
      <4>4. pc'[r] \in {"saving", "over"} => pc[r] \in {"saving", "over"}
        BY DEF After
      <4>5. pc'[r] = "over" => pc[r] = "over" \/ r \in msgs \cup deleted
        BY DEF After
      <4> QED
        BY <2>1, <4>1, <4>3, <4>4, <4>5 DEF Stored
    <3>2. CASE obj[r] = None /\ r \notin deleted' /\ pc'[r] \notin {"saving", "over"}
      BY <3>2 DEF Stored
    <3> QED
      BY <2>3, <3>1, <3>2
  <2> QED
    BY <2>2, <2>4
<1> QED
  BY <1>1 DEF Storing

LEMMA ArriveStored ==
    ASSUME Types, Storing, NEW r \in Ids, NEW k \in Kinds[r], Arrive(r, k)
    PROVE  Storing'
<1>1. Base /\ k \in KindType
  BY ResponsesAssumption DEF Types
<1>2. /\ pc[r] = "new" /\ kind' = [kind EXCEPT ![r] = k]
      /\ UNCHANGED <<stream, made, out, storeVars, crashes, deleted, overwritten>>
      /\ pc' = [pc EXCEPT ![r] = "calling"] \/ pc' = [pc EXCEPT ![r] = "chaining"]
      /\ op' = op \/ (k.prev # NoId /\ At(k.at, "chain", k.prev, r))
  BY DEF Arrive
<1>3. \A q \in Ids : \/ pc'[q] = pc[q]
                     \/ pc'[q] \notin {"completed", "saving", "over"} /\ pc[q] \notin After
  BY <1>1, <1>2 DEF Base, After
<1>4. \A q \in Ids : pc[q] # "new" => kind'[q] = kind[q]
  BY <1>1, <1>2 DEF Base
<1>5. ASSUME NEW p \in Processes PROVE Commanding(p)'
  <2>1. Commanding(p)
    BY DEF Storing
  <2>2. CASE op' = op
    BY <1>2, <2>1, <2>2 DEF Commanding, storeVars
  <2>3. CASE k.prev # NoId /\ At(k.at, "chain", k.prev, r)
    <3>1. k.at \in Processes /\ k.prev \in Ids
      BY <1>1, <2>3, KindTyped
    <3>2. op'[k.at].do = "chain" /\ (p # k.at => op'[p] = op[p])
      BY <1>1, <2>3, <3>1, AtTyped
    <3> QED
      BY <1>2, <2>1, <3>2 DEF Commanding, storeVars, Deleting
  <2> QED
    BY <1>2, <2>2, <2>3
<1> QED
  BY <1>1, <1>2, <1>3, <1>4, <1>5, StillStored DEF Base, storeVars

LEMMA ChainStored ==
    ASSUME Types, Storing, NEW p \in Processes, ChainOutput(p)
    PROVE  Storing'
<1>1. Base /\ Serving(p)
  BY DEF Types
<1>2. /\ op' = [op EXCEPT ![p] = Idle] /\ pc' = [pc EXCEPT ![op[p].for] = "calling"]
      /\ pc[op[p].for] = "chaining"
      /\ UNCHANGED <<kind, stream, made, out, storeVars, crashes, ghostVars>>
  BY <1>1 DEF ChainOutput, Serving
<1>3. \A q \in Ids : \/ pc'[q] = pc[q]
                     \/ pc'[q] \notin {"completed", "saving", "over"} /\ pc[q] \notin After
  BY <1>1, <1>2 DEF Base, After
<1>4. ASSUME NEW q \in Processes PROVE Commanding(q)'
  <2>1. Commanding(q) /\ (op'[q] = op[q] \/ op'[q].do = "idle")
    BY <1>1, <1>2, IdleTyped DEF Storing, Base
  <2> QED
    BY <1>2, <2>1 DEF Commanding, storeVars, ghostVars, Deleting
<1> QED
  BY <1>1, <1>2, <1>3, <1>4, StillStored DEF Base, storeVars, ghostVars

LEMMA DeleteStored ==
    ASSUME Types, Storing, NEW r \in Ids, NEW p \in Processes, Delete(r, p)
    PROVE  Storing'
<1>1. Base /\ Stored(r)
  BY DEF Types, Storing
<1>2. /\ obj[r] # None /\ deleted' = deleted \cup {r} /\ At(p, "delete_object", r, NoId)
      /\ UNCHANGED <<sessionVars, storeVars, crashes, overwritten>>
  BY DEF Delete
<1>3. op'[p].do = "delete_object" /\ \A q \in Processes : q # p => op'[q] = op[q]
  BY <1>1, <1>2, AtTyped DEF Deleting
<1>4. ASSUME NEW q \in Processes PROVE Commanding(q)'
  <2>1. Commanding(q) /\ (op'[q] = op[q] \/ op'[q].do = "delete_object")
    BY <1>3 DEF Storing
  <2> QED
    BY <1>2, <2>1 DEF Commanding, storeVars, Deleting
<1>5. deleted' \in SUBSET Ids /\ deleted \subseteq deleted' /\ \A q \in deleted' \ deleted : pc[q] \in After
  BY <1>1, <1>2 DEF Base, Stored
<1> QED
  BY <1>2, <1>4, <1>5, StillStored DEF sessionVars, storeVars

LEMMA ReturnStored ==
    ASSUME Types, Storing, NEW p \in Processes, op[p].do \in Saving \cup Deleting, Return(p),
           op[p].do # "save_messages",
           UNCHANGED <<kind, stream, made, history, obj, msgs, crashes, deleted, torn>>
    PROVE  Storing'
<1>1. Base /\ Serving(p) /\ Commanding(p) /\ Reading(p)
  BY DEF Types, Storing
<1>2. /\ op'[p] = Idle /\ \A q \in Processes : q # p => op'[q] = op[q]
      /\ \A r \in Ids : pc'[r] = IF r = op[p].for /\ pc[r] = "saving" THEN "over" ELSE pc[r]
  BY <1>1, ReturnTyped
<1>3. ASSUME NEW q \in Processes PROVE Commanding(q)'
  <2>1. Commanding(q) /\ (op'[q] = op[q] \/ op'[q].do = "idle")
    BY <1>2, IdleTyped DEF Storing
  <2> QED
    BY <2>1 DEF Commanding, Deleting
<1>4. ASSUME NEW r \in Ids
      PROVE  pc'[r] = pc[r] \/ (pc[r] = "saving" /\ pc'[r] = "over" /\ r \in msgs \cup deleted)
  <2>1. r = op[p].for => op[p].do \in {"append", "append_write"} /\ op[p].id = r
    BY <1>1, ResponsesAssumption DEF Serving, Saving
  <2>2. r = op[p].for => r \in msgs \cup deleted
    BY <1>1, <2>1 DEF Commanding
  <2> QED
    BY <1>2, <2>2
<1> QED
  BY <1>1, <1>3, <1>4, StillStored DEF Base

LEMMA SaveMessagesStored ==
    ASSUME Types, Storing, NEW p \in Processes, SaveMessages(p)
    PROVE  Storing'
<1>1. Base /\ Reading(p)
  BY DEF Types
<1>2. /\ op[p].do = "save_messages" /\ msgs' = msgs \cup {op[p].id}
      /\ At(p, "append", op[p].id, op[p].for)
      /\ UNCHANGED <<sessionVars, obj, index, crashes, ghostVars>>
  BY DEF SaveMessages
<1>3. op[p].id \in Ids /\ op[p].for \in Ids \cup {NoId}
  BY <1>1, <1>2, OpTyped DEF Reading
<1>4. /\ op'[p].do = "append" /\ op'[p].id = op[p].id
      /\ \A q \in Processes : q # p => op'[q] = op[q]
  BY <1>1, <1>2, <1>3, AtTyped DEF Saving
<1>5. ASSUME NEW q \in Processes PROVE Commanding(q)'
  <2>1. Commanding(q)
    BY DEF Storing
  <2>2. CASE q = p
    BY <1>2, <1>4, <2>2 DEF Commanding, Deleting
  <2>3. CASE q # p
    BY <1>2, <1>4, <2>1, <2>3 DEF Commanding, ghostVars
  <2> QED
    BY <2>2, <2>3
<1>6. ASSUME NEW r \in Ids PROVE Answered(r)' /\ Stored(r)'
  BY <1>2 DEF Storing, Answered, Stored, sessionVars, ghostVars
<1> QED
  BY <1>5, <1>6 DEF Storing

LEMMA DeleteCommandsStored ==
    ASSUME Types, Storing, NEW p \in Processes, DeleteObject(p) \/ DeleteMessages(p)
    PROVE  Storing'
<1>1. Base /\ Reading(p) /\ Serving(p) /\ Commanding(p)
  BY DEF Types, Storing
<1>2. /\ op[p].do \in {"delete_object", "delete_messages"}
      /\ UNCHANGED <<sessionVars, index, crashes, ghostVars>>
  BY DEF DeleteObject, DeleteMessages
<1>3. PICK do \in {"delete_messages", "remove"} : At(p, do, op[p].id, NoId)
  BY DEF DeleteObject, DeleteMessages
<1>4. op[p].id \in Ids /\ op[p].id \in deleted
  BY <1>1, <1>2 DEF Reading, Serving, Deleting
<1>5. /\ op'[p].do = do /\ op'[p].id = op[p].id
      /\ \A q \in Processes : q # p => op'[q] = op[q]
  BY <1>1, <1>3, <1>4, AtTyped DEF Deleting
<1>6. obj'[op[p].id] = None /\ \A r \in Ids : obj'[r] = obj[r] \/ (obj'[r] = None /\ r = op[p].id)
  <2>1. CASE DeleteObject(p)
    BY <1>1, <1>4, <2>1 DEF DeleteObject, Base
  <2>2. CASE DeleteMessages(p)
    BY <1>1, <2>2 DEF DeleteMessages, Commanding, Deleting
  <2> QED
    BY <2>1, <2>2
<1>7. msgs' \subseteq msgs /\ msgs \subseteq msgs' \cup {op[p].id}
  BY DEF DeleteObject, DeleteMessages
<1>8. ASSUME NEW q \in Processes PROVE Commanding(q)'
  <2>1. Commanding(q) /\ Reading(q) /\ deleted' = deleted
    BY <1>2 DEF Storing, Types, ghostVars
  <2>2. CASE q = p
    BY <1>3, <1>5, <1>6, <2>2 DEF Commanding
  <2>3. CASE q # p
    <3>1. op'[q] = op[q]
      BY <1>5, <2>3
    <3>2. op[q].do \in {"append", "append_write"} => op[q].id \in msgs' \cup deleted
      BY <1>4, <1>7, <2>1 DEF Commanding
    <3>3. op[q].do \in Deleting \ {"delete_object"} => obj'[op[q].id] = None
      <4>1. op[q].do \in Deleting => op[q].id \in Ids
        BY <2>1 DEF Reading, Deleting
      <4> QED
        BY <1>6, <2>1, <4>1 DEF Commanding
    <3> QED
      BY <2>1, <3>1, <3>2, <3>3 DEF Commanding
  <2> QED
    BY <2>2, <2>3
<1>9. ASSUME NEW r \in Ids PROVE Answered(r)' /\ Stored(r)'
  <2>1. Answered(r) /\ Stored(r)
    BY DEF Storing
  <2>2. pc' = pc /\ made' = made /\ kind' = kind /\ deleted' = deleted
    BY <1>2 DEF sessionVars, ghostVars
  <2>3. CASE r \in deleted
    BY <1>6, <2>1, <2>2, <2>3 DEF Answered, Stored
  <2>4. CASE r \notin deleted
    <3>1. r # op[p].id
      BY <1>4, <2>4
    <3>2. obj'[r] = obj[r] /\ (r \in msgs => r \in msgs')
      BY <1>6, <1>7, <3>1
    <3> QED
      BY <2>1, <2>2, <2>4, <3>2 DEF Answered, Stored
  <2> QED
    BY <2>3, <2>4
<1> QED
  BY <1>8, <1>9 DEF Storing

LEMMA IndexStored ==
    ASSUME Types, Storing, NEW p \in Processes, ReadIndex(p) \/ WriteIndex(p)
    PROVE  Storing'
<1>1. Base /\ Serving(p) /\ Commanding(p)
  BY DEF Types, Storing
<1>2. /\ op[p].do \in Saving \cup Deleting /\ op[p].do # "save_messages"
      /\ UNCHANGED <<kind, stream, made, history, obj, msgs, crashes, deleted, torn>>
  BY DEF ReadIndex, WriteIndex, Saving, Deleting, storeVars, ghostVars
<1>3. CASE Return(p)
  BY <1>2, <1>3, ReturnStored
<1>4. CASE ~Return(p)
  <2>1. PICK do : do = IF op[p].do = "append" THEN "append_write" ELSE "remove_write"
    OBVIOUS
  <2>2. /\ op[p].do \in {"append", "remove"}
        /\ pc' = pc /\ op' = [op EXCEPT ![p].do = do, ![p].ids = index]
    BY <1>4, <2>1 DEF ReadIndex, WriteIndex
  <2>3. op[p] \in OpType
    BY <1>1 DEF Base
  <2>4. op'[p].do = do /\ op'[p].id = op[p].id /\ \A q \in Processes : q # p => op'[q] = op[q]
    BY <1>1, <2>2, <2>3 DEF Base, OpType
  <2>5. ASSUME NEW q \in Processes PROVE Commanding(q)'
    <3>1. Commanding(q)
      BY DEF Storing
    <3>2. CASE q = p
      BY <1>1, <1>2, <2>1, <2>2, <2>4, <3>2 DEF Commanding, Deleting
    <3>3. CASE q # p
      BY <1>2, <2>4, <3>1, <3>3 DEF Commanding
    <3> QED
      BY <3>2, <3>3
  <2> QED
    BY <1>1, <1>2, <2>2, <2>5, StillStored DEF Base
<1> QED
  BY <1>3, <1>4

LEMMA CrashStored ==
    ASSUME Types, Storing, NEW p \in Processes, Crash(p)
    PROVE  Storing'
<1>1. Base
  BY DEF Types
<1>2. /\ op' = [op EXCEPT ![p] = Idle]
      /\ pc' = [r \in Ids |-> IF r \in Handled(p) THEN "gone" ELSE pc[r]]
      /\ UNCHANGED <<kind, made, out, history, storeVars, deleted, overwritten>>
  BY DEF Crash
<1>3. \A r \in Ids : \/ pc'[r] = pc[r]
                     \/ pc'[r] \notin {"completed", "saving", "over"} /\ pc[r] \notin After
                     \/ pc[r] \in After /\ pc'[r] = "gone"
  BY <1>2
<1>4. ASSUME NEW q \in Processes PROVE Commanding(q)'
  <2>1. Commanding(q) /\ (op'[q] = op[q] \/ op'[q].do = "idle")
    BY <1>1, <1>2, IdleTyped DEF Storing, Base
  <2> QED
    BY <1>2, <2>1 DEF Commanding, storeVars, Deleting
<1> QED
  BY <1>1, <1>2, <1>3, <1>4, StillStored DEF Base, storeVars

LEMMA StoringHolds == Spec => []Storing
<1>1. Init => Storing
  <2> SUFFICES ASSUME Init PROVE Storing
    OBVIOUS
  <2>1. \A r \in Ids : Answered(r) /\ Stored(r)
    BY DEF Init, Answered, Stored, After
  <2>2. \A p \in Processes : op[p].do = "idle"
    BY IdleTyped DEF Init
  <2> QED
    BY <2>1, <2>2 DEF Storing, Commanding, Deleting
<1>2. Types /\ Streaming /\ Storing /\ [Next]_vars => Storing'
  <2> SUFFICES ASSUME Types, Streaming, Storing, [Next]_vars PROVE Storing'
    OBVIOUS
  <2>1. ASSUME UNCHANGED vars PROVE Storing'
    BY <2>1 DEF vars, sessionVars, storeVars, ghostVars, Storing, Answered, Stored, Commanding
  <2>2. ASSUME NEW p \in Processes, Command(p) PROVE Storing'
    BY <2>2, ChainStored, SaveMessagesStored, DeleteCommandsStored, IndexStored DEF Command
  <2> QED
    BY <2>1, <2>2, HandlerStored, ArriveStored, DeleteStored, CrashStored DEF Next
<1> QED
  BY <1>1, <1>2, TypesHold, StreamingHolds, PTL DEF Spec

\* The client of r is told what was made, a stream's before it is saved, and a
\* plain answer's after; between the two it is stored and not told.
Informed(r) ==
    /\ out[r] \in {None, made[r]}
    /\ pc[r] \in {"new", "chaining", "calling"} => out[r] = None
    /\ pc[r] \in {"completed", "over"} => out[r] = made[r]
    /\ pc[r] = "saving" /\ kind[r].stream => out[r] = made[r]
    /\ obj[r] # None /\ out[r] = None => Unsent(r)

Informing == \A r \in Ids : Informed(r)

\* Steps that tell r's client nothing.
LEMMA StillInformed ==
    ASSUME Types, NEW r \in Ids, Informed(r), Stored(r),
           out'[r] = out[r], made'[r] = made[r], obj'[r] \in {obj[r], None},
           pc[r] # "new" => kind'[r] = kind[r], torn \subseteq torn',
           \/ pc'[r] = pc[r]
           \/ pc[r] \in {"new", "chaining"} /\ pc'[r] \in {"chaining", "calling"}
           \/ pc'[r] = "gone" /\ (pc[r] = "saving" => r \in torn')
    PROVE  Informed(r)'
<1>1. obj'[r] # None /\ out'[r] = None => Unsent(r)'
  <2> SUFFICES ASSUME obj'[r] # None, out'[r] = None PROVE Unsent(r)'
    OBVIOUS
  <2>1. obj[r] # None /\ out[r] = None
    OBVIOUS
  <2>2. Unsent(r) /\ pc[r] \in After
    BY <2>1 DEF Informed, Stored
  <2>3. kind'[r] = kind[r] /\ (pc'[r] = pc[r] \/ (pc'[r] = "gone" /\ (pc[r] = "saving" => r \in torn')))
    BY <2>2 DEF After
  <2> QED
    BY <2>2, <2>3 DEF Unsent, After
<1>2. pc'[r] = "saving" => pc[r] = "saving" /\ kind'[r] = kind[r]
  OBVIOUS
<1>3. pc'[r] \in {"completed", "over"} => pc'[r] = pc[r]
  OBVIOUS
<1>4. pc'[r] \in {"new", "chaining", "calling"} => pc[r] \in {"new", "chaining", "calling"}
  OBVIOUS
<1> QED
  BY <1>1, <1>2, <1>3, <1>4 DEF Informed

\* The handler of r tells its client at the end of a stream, or with an answer
\* that is not stored.
LEMMA HandlerInformed ==
    ASSUME Types, Storing, Informing, NEW r \in Ids, Handle(r) \/ Disconnect(r)
    PROVE  Informing'
<1>1. Base /\ Informed(r) /\ Stored(r)
  BY DEF Types, Storing, Informing
<1>2. /\ HandlerStep(r) \/ SaveStep(r)
      /\ obj[r] = None /\ pc[r] # "new"
  <2>1. HandlerStep(r) \/ SaveStep(r)
    BY <1>1, HandleEffect
  <2> QED
    BY <1>1, <2>1 DEF Stored, After, HandlerStep, SaveStep
<1>3. kind' = kind /\ torn \subseteq torn'
  BY <1>2 DEF HandlerStep, SaveStep, ghostVars, Meet
<1>4. ASSUME NEW q \in Ids, q # r PROVE Informed(q)'
  <2>1. Informed(q) /\ Stored(q)
    BY DEF Storing, Informing
  <2>2. pc'[q] = pc[q] /\ made'[q] = made[q] /\ obj'[q] = obj[q]
    BY <1>1, <1>2, <1>4 DEF HandlerStep, SaveStep, storeVars, Base
  <2>3. out'[q] = out[q]
    BY <1>1, <1>4 DEF Handle, Refused, Answer, StreamBegins, Delta, StreamEnds, EndCall, Report,
         Persist, Disconnect, Base
  <2> QED
    BY <1>3, <2>1, <2>2, <2>3, StillInformed
<1>5. ASSUME NEW output \in PlainOutputs, Answer(r, output) PROVE Informed(r)'
  <2>1. /\ made'[r] = output /\ ~kind[r].stream /\ out[r] = None
        /\ \/ pc'[r] = "saving" /\ out' = out
           \/ pc'[r] = "over" /\ out'[r] = output
    BY <1>1, <1>5 DEF Answer, Base, Informed
  <2>2. output # None
    BY PlainTyped, ResponsesAssumption
  <2> QED
    BY <1>3, <2>1, <2>2 DEF Informed, Unsent
<1>6. ASSUME Report(r) PROVE Informed(r)'
  <2>1. out'[r] = made'[r] /\ pc'[r] = "completed" /\ obj'[r] = None
    BY <1>1, <1>2, <1>6 DEF Report, Base, storeVars
  <2> QED
    BY <2>1 DEF Informed
<1>7. ASSUME Persist(r) PROVE Informed(r)'
  <2>1. /\ out' = out /\ made' = made /\ pc[r] = "completed"
        /\ pc'[r] \in {"saving", "over"}
    BY <1>1, <1>7 DEF Persist, Base
  <2>2. obj'[r] \in {None, made[r]}
    BY <1>1, <1>2, <1>7 DEF Persist, SaveObject, Base
  <2> QED
    BY <1>1, <2>1, <2>2 DEF Informed
<1>8. ASSUME Refused(r) \/ StreamBegins(r) \/ Delta(r) \/ StreamEnds(r) \/ EndCall(r) \/ Disconnect(r)
      PROVE  Informed(r)'
  <2>1. /\ out' = out /\ made' = made /\ obj' = obj
        /\ pc'[r] \in {"refused", "streaming", "closing", "gone"}
    BY <1>1, <1>8 DEF Refused, StreamBegins, Delta, StreamEnds, EndCall, Disconnect, Base, storeVars
  <2> QED
    BY <1>1, <1>2, <2>1 DEF Informed
<1> QED
  BY <1>4, <1>5, <1>6, <1>7, <1>8 DEF Handle, Informing

\* The method a request waited for returns: its client is told.
LEMMA ReturnInformed ==
    ASSUME Types, Storing, Informing, NEW p \in Processes, Return(p),
           UNCHANGED <<kind, made, obj, torn>>
    PROVE  Informing'
<1>1. Base
  BY DEF Types
<1>2. \A r \in Ids :
         /\ pc'[r] = IF r = op[p].for /\ pc[r] = "saving" THEN "over" ELSE pc[r]
         /\ out'[r] = IF r = op[p].for /\ pc[r] = "saving" THEN made[r] ELSE out[r]
  BY <1>1, ReturnTyped
<1>3. ASSUME NEW r \in Ids PROVE Informed(r)'
  <2>1. Informed(r) /\ Stored(r)
    BY DEF Storing, Informing
  <2>2. CASE r = op[p].for /\ pc[r] = "saving"
    <3>1. pc'[r] = "over" /\ out'[r] = made'[r] /\ (obj'[r] # None => obj'[r] = made'[r])
      BY <1>2, <2>1, <2>2 DEF Stored
    <3> QED
      BY <3>1 DEF Informed
  <2>3. CASE ~(r = op[p].for /\ pc[r] = "saving")
    <3>1. pc'[r] = pc[r] /\ out'[r] = out[r]
      BY <1>2, <2>3
    <3> QED
      BY <2>1, <3>1, StillInformed
  <2> QED
    BY <2>2, <2>3
<1> QED
  BY <1>3 DEF Informing

\* Other steps tell nobody anything; a crash while an answer is saved leaves it
\* stored and torn.
LEMMA OtherInformed ==
    ASSUME Types, Storing, Informing,
           \/ \E r \in Ids : \E k \in Kinds[r] : Arrive(r, k)
           \/ \E r \in Ids, p \in Processes : Delete(r, p)
           \/ \E p \in Processes : Command(p) \/ Crash(p)
    PROVE  Informing'
<1>1. Base
  BY DEF Types
<1>2. ASSUME NEW q \in Ids PROVE Informed(q) /\ Stored(q)
  BY DEF Storing, Informing
<1>3. ASSUME NEW r \in Ids, NEW k \in Kinds[r], Arrive(r, k), NEW q \in Ids PROVE Informed(q)'
  <2>1. /\ made' = made /\ out' = out /\ obj' = obj /\ pc[r] = "new"
        /\ kind' = [kind EXCEPT ![r] = k] /\ torn \subseteq torn'
        /\ pc' = [pc EXCEPT ![r] = "calling"] \/ pc' = [pc EXCEPT ![r] = "chaining"]
    BY <1>3 DEF Arrive, storeVars, Meet
  <2>2. /\ pc[q] # "new" => kind'[q] = kind[q]
        /\ pc'[q] = pc[q] \/ (pc[q] = "new" /\ pc'[q] \in {"chaining", "calling"})
    BY <1>1, <2>1 DEF Base
  <2> QED
    BY <1>2, <2>1, <2>2, StillInformed
<1>4. ASSUME NEW r \in Ids, NEW p \in Processes, Delete(r, p), NEW q \in Ids PROVE Informed(q)'
  <2>1. /\ made' = made /\ out' = out /\ obj' = obj /\ pc' = pc /\ kind' = kind
        /\ torn \subseteq torn'
    BY <1>4 DEF Delete, sessionVars, storeVars, Meet
  <2> QED
    BY <1>2, <2>1, StillInformed
<1>5. ASSUME NEW p \in Processes, ChainOutput(p), NEW q \in Ids PROVE Informed(q)'
  <2>1. Serving(p)
    BY DEF Types
  <2>2. /\ made' = made /\ out' = out /\ obj' = obj /\ kind' = kind /\ torn' = torn
        /\ pc' = [pc EXCEPT ![op[p].for] = "calling"] /\ pc[op[p].for] = "chaining"
    BY <1>5, <2>1 DEF ChainOutput, Serving, storeVars, ghostVars
  <2>3. pc'[q] = pc[q] \/ (pc[q] = "chaining" /\ pc'[q] = "calling")
    BY <1>1, <2>2 DEF Base
  <2> QED
    BY <1>2, <2>2, <2>3, StillInformed
<1>6. ASSUME NEW p \in Processes, SaveMessages(p) \/ DeleteObject(p) \/ DeleteMessages(p),
             NEW q \in Ids
      PROVE  Informed(q)'
  <2>1. /\ made' = made /\ out' = out /\ pc' = pc /\ kind' = kind /\ torn' = torn
        /\ obj' = obj \/ obj' = [obj EXCEPT ![op[p].id] = None]
    BY <1>6 DEF SaveMessages, DeleteObject, DeleteMessages, sessionVars, ghostVars
  <2>2. obj'[q] \in {obj[q], None}
    BY <1>1, <2>1 DEF Base
  <2> QED
    BY <1>2, <2>1, <2>2, StillInformed
<1>7. ASSUME NEW p \in Processes, ReadIndex(p) \/ WriteIndex(p), NEW q \in Ids PROVE Informed(q)'
  <2>1. kind' = kind /\ made' = made /\ obj' = obj /\ torn' = torn
    BY <1>7 DEF ReadIndex, WriteIndex, storeVars, ghostVars
  <2>2. CASE Return(p)
    BY <2>1, <2>2, ReturnInformed DEF Informing
  <2>3. CASE ~Return(p)
    <3>1. pc' = pc /\ out' = out
      BY <1>7, <2>3 DEF ReadIndex, WriteIndex
    <3> QED
      BY <1>2, <2>1, <3>1, StillInformed
  <2> QED
    BY <2>2, <2>3
<1>8. ASSUME NEW p \in Processes, Crash(p), NEW q \in Ids PROVE Informed(q)'
  <2>1. /\ made' = made /\ out' = out /\ obj' = obj /\ kind' = kind
        /\ torn' = torn \cup ({op[p].id} \ {NoId})
        /\ pc'[q] = IF q \in Handled(p) THEN "gone" ELSE pc[q]
    BY <1>8 DEF Crash, storeVars
  <2>2. q \in Handled(p) /\ pc[q] = "saving" => q \in torn'
    BY <2>1, ResponsesAssumption DEF Types, Waiting, Handled
  <2> QED
    BY <1>2, <2>1, <2>2, StillInformed
<1> QED
  <2>1. ASSUME NEW p \in Processes, Command(p) PROVE Informing'
    BY <2>1, <1>5, <1>6, <1>7 DEF Command, Informing
  <2> QED
    BY <1>3, <1>4, <1>8, <2>1 DEF Informing

LEMMA InformingHolds == Spec => []Informing
<1>1. Init => Informing
  BY DEF Init, Informing, Informed
<1>2. Types /\ Storing /\ Informing /\ [Next]_vars => Informing'
  <2> SUFFICES ASSUME Types, Storing, Informing, [Next]_vars PROVE Informing'
    OBVIOUS
  <2>1. ASSUME UNCHANGED vars PROVE Informing'
    BY <2>1 DEF vars, sessionVars, storeVars, ghostVars, Informing, Informed, Unsent
  <2> QED
    BY <2>1, HandlerInformed, OtherInformed DEF Next
<1> QED
  BY <1>1, <1>2, TypesHold, StoringHolds, PTL DEF Spec

\* Stages, requests, outputs, store methods and the store have their types, and
\* no interleaving of index updates puts an id into the index twice.
THEOREM TypeCorrect == Spec => []TypeOK
<1>1. Types /\ Storing /\ Informing => TypeOK
  <2> SUFFICES ASSUME Types, Storing, Informing PROVE TypeOK
    OBVIOUS
  <2>1. Base
    BY DEF Types
  <2>2. \A r \in Ids : /\ made[r] \in Outputs \cup {None} /\ out[r] \in Outputs \cup {None}
                       /\ obj[r] \in Outputs \cup {None}
    BY DEF Storing, Answered, Stored, Informing, Informed
  <2>3. /\ made \in [Ids -> Outputs \cup {None}] /\ out \in [Ids -> Outputs \cup {None}]
        /\ obj \in [Ids -> Outputs \cup {None}]
    BY <2>1, <2>2 DEF Base
  <2> QED
    BY <2>1, <2>3 DEF TypeOK, Base, Histories
<1> QED
  BY <1>1, TypesHold, StoringHolds, InformingHolds, PTL

\* Nothing of a request that was refused or broken off is stored, nothing of one
\* that asked for none, and what is stored is the whole output its client was
\* told; or will be told, but for a crash between the save and a plain answer.
THEOREM StoresWhatWasSent == Spec => []StoredAsSent
<1>1. Storing /\ Informing => StoredAsSent
  <2> SUFFICES ASSUME Storing, Informing, NEW r \in Ids, obj[r] # None
               PROVE  /\ obj[r] = made[r] /\ kind[r].store
                      /\ pc[r] \in {"saving", "over", "gone"}
                      /\ out[r] = obj[r] \/ Unsent(r)
    BY DEF StoredAsSent
  <2>1. Stored(r) /\ Informed(r)
    BY DEF Storing, Informing
  <2> QED
    BY <2>1 DEF Stored, Informed, After
<1> QED
  BY <1>1, StoringHolds, InformingHolds, PTL

\* A response whose handler has answered is there with its messages until it is
\* deleted, whatever other processes store, delete or crash at.
THEOREM StoresDurably == Spec => []Durable
<1>1. Storing /\ Informing => Durable
  <2> SUFFICES ASSUME Storing, Informing, NEW r \in Ids,
                      pc[r] = "over", kind[r].store, r \notin deleted
               PROVE  obj[r] = out[r] /\ r \in msgs
    BY DEF Durable
  <2>1. Stored(r) /\ Informed(r)
    BY DEF Storing, Informing
  <2> QED
    BY <2>1 DEF Stored, Informed
<1> QED
  BY <1>1, StoringHolds, InformingHolds, PTL

-----------------------------------------------------------------------------
(* The index *)

\* A stored response is in the index or still being saved, or a crash met its
\* save; if no index was written over one its writer had not read.
Kept(r) == obj[r] # None /\ r \notin torn => Contains(index, r) \/ pc[r] = "saving"

Indexed == ~overwritten => \A r \in Ids : Kept(r)

\* A save that returns leaves its response in the index.
LEMMA ReturnKept ==
    ASSUME Types, NEW p \in Processes, Return(p), NEW r \in Ids, Kept(r),
           op[p].do \in Saving \cup Deleting,
           UNCHANGED <<kind, stream, made, history, obj, msgs, crashes, deleted, torn>>,
           op[p].do \in Saving => Contains(index', op[p].id),
           Contains(index, r) => Contains(index', r) \/ obj[r] = None
    PROVE  Kept(r)'
<1>1. Base /\ Serving(p)
  BY DEF Types
<1>2. pc'[r] = IF r = op[p].for /\ pc[r] = "saving" THEN "over" ELSE pc[r]
  BY <1>1, ReturnTyped
<1>3. r = op[p].for => Contains(index', r)
  BY <1>1, ResponsesAssumption DEF Serving
<1> QED
  BY <1>2, <1>3 DEF Kept

LEMMA ReadKept ==
    ASSUME Types, NEW p \in Processes, ReadIndex(p), NEW r \in Ids, Kept(r)
    PROVE  Kept(r)'
<1>1. op[p].do \in {"append", "remove"}
      /\ UNCHANGED <<kind, stream, made, history, storeVars, crashes, ghostVars>>
  BY DEF ReadIndex
<1>2. CASE op[p].do = "append" <=> Contains(index, op[p].id)
  <2>1. Return(p)
    BY <1>2 DEF ReadIndex
  <2>2. op[p].do \in Saving => Contains(index', op[p].id)
    BY <1>1, <1>2 DEF Saving, storeVars
  <2> QED
    BY <1>1, <2>1, <2>2, ReturnKept DEF storeVars, ghostVars, Saving, Deleting
<1>3. CASE ~(op[p].do = "append" <=> Contains(index, op[p].id))
  <2>1. pc' = pc
    BY <1>3 DEF ReadIndex
  <2> QED
    BY <1>1, <2>1 DEF Kept, storeVars, ghostVars
<1> QED
  BY <1>2, <1>3

LEMMA WriteKept ==
    ASSUME Types, Storing, NEW p \in Processes, WriteIndex(p), ~overwritten', NEW r \in Ids, Kept(r)
    PROVE  Kept(r)'
<1>1. Base /\ Serving(p) /\ Reading(p) /\ Commanding(p)
  BY DEF Types, Storing
<1>2. /\ op[p].do \in {"append_write", "remove_write"} /\ index = op[p].ids
      /\ index' = Updated(op[p].do, op[p].ids, op[p].id) /\ Return(p)
      /\ UNCHANGED <<kind, stream, made, history, obj, msgs, crashes, deleted, torn>>
  BY DEF WriteIndex
<1>3. op[p].ids \in Seq(Ids) /\ IsInjective(op[p].ids) /\ op[p].id \in Ids
  BY <1>1, <1>2, OpTyped DEF Reading
<1>4. CASE op[p].do = "append_write"
  <2>1. index' = Append(op[p].ids, op[p].id) /\ ~Contains(op[p].ids, op[p].id)
    BY <1>1, <1>2, <1>4 DEF Updated, Reading
  <2>2. \A i \in Ids : Contains(index', i) <=> Contains(index, i) \/ i = op[p].id
    BY <1>2, <1>3, <2>1, AppendedIds
  <2> QED
    BY <1>2, <1>3, <1>4, <2>2, ReturnKept DEF Saving
<1>5. CASE op[p].do = "remove_write"
  <2>1. index' = Without(op[p].ids, op[p].id) /\ Contains(op[p].ids, op[p].id)
    BY <1>1, <1>2, <1>5 DEF Updated, Reading
  <2>2. \A i \in Ids : Contains(index', i) <=> Contains(index, i) /\ i # op[p].id
    BY <1>2, <1>3, <2>1, WithoutIt
  <2>3. obj[op[p].id] = None
    BY <1>1, <1>5 DEF Commanding, Deleting
  <2>4. op[p].do \notin Saving /\ op[p].do \in Deleting
    BY <1>5 DEF Saving, Deleting
  <2> QED
    BY <1>2, <2>2, <2>3, <2>4, ReturnKept
<1> QED
  BY <1>2, <1>4, <1>5

LEMMA HandlerKept ==
    ASSUME Types, Storing, NEW r \in Ids, Handle(r) \/ Disconnect(r), NEW q \in Ids, Kept(q)
    PROVE  Kept(q)'
<1>1. Base /\ (HandlerStep(r) \/ SaveStep(r)) /\ Stored(r)
  BY HandleEffect DEF Types, Storing
<1>2. CASE q = r
  <2>1. obj[r] = None
    BY <1>1 DEF HandlerStep, SaveStep, Stored, After
  <2> QED
    BY <1>1, <1>2, <2>1 DEF HandlerStep, SaveStep, Kept, storeVars
<1>3. CASE q # r
  <2>1. pc'[q] = pc[q] /\ obj'[q] = obj[q] /\ index' = index
    BY <1>1, <1>3 DEF HandlerStep, SaveStep, storeVars, Base
  <2>2. torn \subseteq torn'
    BY <1>1 DEF HandlerStep, SaveStep, ghostVars, Meet
  <2> QED
    BY <2>1, <2>2 DEF Kept
<1> QED
  BY <1>2, <1>3

LEMMA CrashKept ==
    ASSUME Types, NEW p \in Processes, Crash(p), NEW r \in Ids, Kept(r)
    PROVE  Kept(r)'
<1>1. /\ torn' = torn \cup ({op[p].id} \ {NoId}) /\ UNCHANGED storeVars
      /\ pc' = [q \in Ids |-> IF q \in Handled(p) THEN "gone" ELSE pc[q]]
  BY DEF Crash
<1>2. CASE r \in Handled(p) /\ pc[r] = "saving"
  <2>1. op[p].id = r
    BY <1>2 DEF Types, Waiting, Handled
  <2>2. r \in torn'
    BY <1>1, <2>1, ResponsesAssumption
  <2> QED
    BY <2>2 DEF Kept
<1>3. CASE ~(r \in Handled(p) /\ pc[r] = "saving")
  <2>1. pc[r] = "saving" => pc'[r] = "saving"
    BY <1>1, <1>3
  <2> QED
    BY <1>1, <2>1 DEF Kept, storeVars
<1> QED
  BY <1>2, <1>3

\* Steps that leave the index, and stages that count, alone.
LEMMA OtherKept ==
    ASSUME Types, NEW q \in Ids, Kept(q),
           \/ UNCHANGED vars
           \/ \E r \in Ids : \E k \in Kinds[r] : Arrive(r, k)
           \/ \E r \in Ids, p \in Processes : Delete(r, p)
           \/ \E p \in Processes :
                 ChainOutput(p) \/ SaveMessages(p) \/ DeleteObject(p) \/ DeleteMessages(p)
    PROVE  Kept(q)'
<1>1. Base
  BY DEF Types
<1>2. ASSUME index' = index, obj'[q] = obj[q] \/ obj'[q] = None, torn \subseteq torn',
             pc[q] = "saving" => pc'[q] = "saving"
      PROVE  Kept(q)'
  BY <1>2 DEF Kept
<1>3. ASSUME UNCHANGED vars PROVE Kept(q)'
  BY <1>2, <1>3 DEF vars, sessionVars, storeVars, ghostVars
<1>4. ASSUME NEW r \in Ids, NEW k \in Kinds[r], Arrive(r, k) PROVE Kept(q)'
  <2>1. pc[q] = "saving" => pc'[q] = "saving"
    BY <1>1, <1>4 DEF Arrive, Base
  <2>2. torn \subseteq torn' /\ UNCHANGED storeVars
    BY <1>4 DEF Arrive, Meet
  <2> QED
    BY <1>2, <2>1, <2>2 DEF storeVars
<1>5. ASSUME NEW r \in Ids, NEW p \in Processes, Delete(r, p) PROVE Kept(q)'
  BY <1>2, <1>5 DEF Delete, Meet, sessionVars, storeVars
<1>6. ASSUME NEW p \in Processes, ChainOutput(p) PROVE Kept(q)'
  <2>1. pc[op[p].for] = "chaining" /\ pc' = [pc EXCEPT ![op[p].for] = "calling"]
    BY <1>6 DEF ChainOutput, Types, Serving
  <2> QED
    BY <1>1, <1>2, <1>6, <2>1 DEF ChainOutput, Base, storeVars, ghostVars
<1>7. ASSUME NEW p \in Processes, SaveMessages(p) \/ DeleteObject(p) \/ DeleteMessages(p)
      PROVE  Kept(q)'
  <2>1. obj'[q] = obj[q] \/ obj'[q] = None
    BY <1>1, <1>7 DEF SaveMessages, DeleteObject, DeleteMessages, Base
  <2> QED
    BY <1>2, <1>7, <2>1 DEF SaveMessages, DeleteObject, DeleteMessages, sessionVars, ghostVars
<1> QED
  BY <1>3, <1>4, <1>5, <1>6, <1>7

LEMMA IndexedHolds == Spec => []Indexed
<1>1. Init => Indexed
  BY DEF Init, Indexed, Kept
<1>2. Types /\ Storing /\ Indexed /\ [Next]_vars => Indexed'
  <2> SUFFICES ASSUME Types, Storing, Indexed, [Next]_vars, ~overwritten', NEW r \in Ids
               PROVE  Kept(r)'
    BY DEF Indexed
  <2>1. ~overwritten
    <3>1. CASE UNCHANGED vars
      BY <3>1 DEF vars, ghostVars
    <3>2. CASE Next
      <4>1. ASSUME NEW q \in Ids, Handle(q) \/ Disconnect(q) PROVE ~overwritten
        BY <4>1, HandleEffect DEF HandlerStep, SaveStep, ghostVars, Types
      <4>2. ASSUME NEW p \in Processes, Command(p) PROVE ~overwritten
        BY <4>2 DEF Command, ChainOutput, SaveMessages, DeleteObject, DeleteMessages, ReadIndex,
                    WriteIndex, ghostVars
      <4>3. ASSUME NEW q \in Ids, NEW k \in Kinds[q], Arrive(q, k) PROVE ~overwritten
        BY <4>3 DEF Arrive
      <4>4. ASSUME NEW q \in Ids, NEW p \in Processes, Delete(q, p) \/ Crash(p) PROVE ~overwritten
        BY <4>4 DEF Delete, Crash
      <4> QED
        BY <3>2, <4>1, <4>2, <4>3, <4>4 DEF Next
    <3> QED
      BY <3>1, <3>2
  <2>2. Kept(r)
    BY <2>1 DEF Indexed
  <2>3. ASSUME NEW p \in Processes, Command(p) PROVE Kept(r)'
    BY <2>2, <2>3, ReadKept, WriteKept, OtherKept DEF Command
  <2> QED
    BY <2>2, <2>3, HandlerKept, CrashKept, OtherKept DEF Next
<1> QED
  BY <1>1, <1>2, TypesHold, StoringHolds, PTL DEF Spec

\* A stored response no process is at is listed, unless a crash met its save or
\* an index was written over one its writer had not read.
THEOREM ListsTheStored == Spec => []Listed
<1>1. Types /\ Indexed => Listed
  <2> SUFFICES ASSUME Types, Indexed, ~overwritten, NEW r \in Ids \ torn, obj[r] # None,
                      \A p \in Processes : op[p].id # r
               PROVE  Contains(index, r)
    BY DEF Listed
  <2>1. Kept(r) /\ Waiting(r)
    BY DEF Indexed, Types
  <2>2. pc[r] # "saving"
    BY <2>1, KindTyped DEF Waiting, Types
  <2> QED
    BY <2>1, <2>2 DEF Kept
<1> QED
  BY <1>1, TypesHold, IndexedHolds, PTL

-----------------------------------------------------------------------------
(* Continued conversations *)

\* Processes that are at one id at a time have torn it.
Met == \A p, q \in Processes : p # q /\ op[p].id = op[q].id /\ op[p].id # NoId => op[p].id \in torn

\* A process is between the two commands of a save, or of a delete.
Between(k) ==
    \E p \in Processes : op[p].id = k /\ op[p].do \in {"save_messages", "delete_messages"}

\* What is stored of an id that is not torn.
Whole(k) == k \notin torn => (k \in msgs <=> obj[k] # None) \/ Between(k)

\* A save that is not torn has its output stored.
Pending(p) == op[p].do = "save_messages" /\ op[p].id \notin torn => obj[op[p].id] # None

\* What a lookup has found of the messages is still so.
Looking(p) ==
    op[p].do = "chain" =>
        /\ history[op[p].for] \in {"messages", "no_messages"}
        /\ op[p].id \notin torn => (history[op[p].for] = "messages" <=> op[p].id \in msgs)

\* Half a conversation is one of a torn response.
Chained(r) ==
    /\ pc[r] = "new" => history[r] = "none"
    /\ history[r] = "half" => kind[r].prev \in torn

Chaining ==
    /\ Met
    /\ \A k \in Ids : Whole(k) /\ Chained(k)
    /\ \A p \in Processes : Pending(p) /\ Looking(p)

\* A process that begins a method: the id is torn, or nobody else is at it.
LEMMA MeetMet ==
    ASSUME Types, Met, NEW p \in Processes, NEW id \in Ids, Meet(p, id),
           op'[p].id = id, \A q \in Processes : q # p => op'[q] = op[q]
    PROVE  Met' /\ torn \subseteq torn' /\ (id \notin torn' => \A q \in Processes \ {p} : op[q].id # id)
<1>1. torn' = IF \E q \in Processes \ {p} : op[q].id = id THEN torn \cup {id} ELSE torn
  BY DEF Meet
<1>2. torn \subseteq torn' /\ (id \notin torn' => \A q \in Processes \ {p} : op[q].id # id)
  BY <1>1
<1>3. ASSUME NEW a \in Processes, NEW b \in Processes, a # b, op'[a].id = op'[b].id, op'[a].id # NoId
      PROVE  op'[a].id \in torn'
  BY <1>2, <1>3 DEF Met
<1> QED
  BY <1>2, <1>3 DEF Met

\* A process that goes on, or leaves, is at no new id.
LEMMA StayMet ==
    ASSUME Met, NEW p \in Processes, torn \subseteq torn',
           op'[p].id = op[p].id \/ op'[p].id = NoId,
           \A q \in Processes : q # p => op'[q] = op[q]
    PROVE  Met'
BY DEF Met

\* What a process holds of an id that is not torn, a step of another process on
\* some id leaves as it is.
LEMMA Others ==
    ASSUME Chaining, Types, NEW id \in Ids \cup {NoId}, NEW q \in Processes, op'[q] = op[q],
           op[q].do # "idle", op[q].id = id => id \in torn', torn \subseteq torn',
           op[q].do = "chain" => history'[op[q].for] = history[op[q].for],
           \A k \in Ids : k # id => (k \in msgs' <=> k \in msgs) /\ obj'[k] = obj[k]
    PROVE  Pending(q)' /\ Looking(q)'
<1>1. Pending(q) /\ Looking(q) /\ op[q].id \in Ids
  BY DEF Chaining, Types, Reading
<1>2. CASE op[q].id = id
  <2>1. op'[q].id \in torn'
    BY <1>2
  <2> QED
    BY <1>1, <2>1 DEF Pending, Looking
<1>3. CASE op[q].id # id
  <2>1. (op[q].id \in msgs' <=> op[q].id \in msgs) /\ obj'[op[q].id] = obj[op[q].id]
    BY <1>1, <1>3
  <2> QED
    BY <1>1, <2>1 DEF Pending, Looking
<1> QED
  BY <1>2, <1>3

\* What is stored of an id that a step of p is not about stays whole.
LEMMA StaysWhole ==
    ASSUME Chaining, NEW p \in Processes, NEW k \in Ids, op[p].id # k,
           \A q \in Processes : q # p => op'[q] = op[q],
           torn \subseteq torn', k \in msgs' <=> k \in msgs, obj'[k] = obj[k]
    PROVE  Whole(k)'
<1>1. Whole(k)
  BY DEF Chaining
<1>2. Between(k) => Between(k)'
  BY DEF Between
<1> QED
  BY <1>1, <1>2 DEF Whole

\* A step of p in a store method on an id: no lookup.
LEMMA StepChaining ==
    ASSUME Chaining, Types, NEW p \in Processes, NEW id \in Ids \cup {NoId},
           op[p].id \in {id, NoId}, Met',
           \A q \in Processes : q # p => op'[q] = op[q] /\ (op[q].id = id => id \in torn' \cup {NoId}),
           torn \subseteq torn', kind' = kind, history' = history,
           \A r \in Ids : pc'[r] = "new" => pc[r] = "new",
           \A k \in Ids : k # id => (k \in msgs' <=> k \in msgs) /\ obj'[k] = obj[k],
           id \in Ids => Whole(id)',
           Pending(p)', op'[p].do # "chain"
    PROVE  Chaining'
<1>1. ASSUME NEW q \in Processes PROVE Pending(q)' /\ Looking(q)'
  <2>1. CASE q = p
    BY <2>1 DEF Looking
  <2>2. CASE q # p /\ op[q].do # "idle"
    <3>1. op'[q] = op[q] /\ op[q].id \in Ids
      BY <2>2 DEF Types, Reading
    <3>2. op[q].id = id => id \in torn'
      BY <2>2, <3>1, ResponsesAssumption
    <3> QED
      BY <2>2, <3>1, <3>2, Others
  <2>3. CASE q # p /\ op[q].do = "idle"
    BY <2>3 DEF Pending, Looking
  <2> QED
    BY <2>1, <2>2, <2>3
<1>2. ASSUME NEW k \in Ids PROVE Whole(k)' /\ Chained(k)'
  <2>1. Chained(k)'
    BY DEF Chaining, Chained
  <2>2. CASE k = id
    BY <2>1, <2>2
  <2>3. CASE k # id
    <3>1. op[p].id # k
      BY <2>3, ResponsesAssumption
    <3> QED
      BY <2>1, <2>3, <3>1, StaysWhole
  <2> QED
    BY <2>2, <2>3
<1> QED
  BY <1>1, <1>2 DEF Chaining

LEMMA SaveStepChaining ==
    ASSUME Types, Streaming, Storing, Storing', Chaining, NEW r \in Ids, SaveStep(r)
    PROVE  Chaining'
<1>1. Base /\ pc[r] # "new" /\ made'[r] = obj'[r]
  BY DEF Types, SaveStep, Base
<1>2. PICK p \in Processes : p = kind[r].at
  BY <1>1, KindTyped DEF Types
<1>3. /\ op[p].id = NoId /\ op'[p].do = "save_messages" /\ op'[p].id = r
      /\ \A q \in Processes : q # p => op'[q] = op[q]
      /\ UNCHANGED <<kind, history, msgs>> /\ Meet(p, r)
      /\ \A k \in Ids : k # r => obj'[k] = obj[k]
      /\ \A k \in Ids : pc'[k] = "new" => pc[k] = "new"
  <2>1. /\ Free(p) /\ At(p, "save_messages", r, r) /\ Meet(p, r)
        /\ UNCHANGED <<kind, history, msgs>> /\ obj' = [obj EXCEPT ![r] = made'[r]]
        /\ pc'[r] = "saving" /\ \A k \in Ids : k # r => pc'[k] = pc[k]
    BY <1>2 DEF SaveStep
  <2>2. op[p].id = NoId
    BY <2>1 DEF Free, Types, Serving
  <2>3. /\ op'[p].do = "save_messages" /\ op'[p].id = r
        /\ \A q \in Processes : q # p => op'[q] = op[q]
    BY ZenonT(40), <1>1, <2>1, AtTyped DEF Saving
  <2>4. \A k \in Ids : k # r => obj'[k] = obj[k]
    BY <1>1, <2>1 DEF Base
  <2> QED
    BY <2>1, <2>2, <2>3, <2>4
<1>4. Met' /\ torn \subseteq torn' /\ (r \notin torn' => \A q \in Processes \ {p} : op[q].id # r)
  BY <1>3, MeetMet DEF Chaining
<1>5. obj'[r] # None
  BY ZenonT(40), <1>1, ResponsesAssumption DEF SaveStep, Storing, Answered
<1>6. Pending(p)' /\ Whole(r)'
  BY <1>3, <1>5 DEF Pending, Whole, Between
<1> QED
  BY <1>3, <1>4, <1>6, StepChaining

LEMMA DeleteChaining ==
    ASSUME Types, Chaining, NEW r \in Ids, NEW p \in Processes, Delete(r, p)
    PROVE  Chaining'
<1>1. Base
  BY DEF Types
<1>2. /\ op[p].id = NoId /\ op'[p].do = "delete_object" /\ op'[p].id = r
      /\ \A q \in Processes : q # p => op'[q] = op[q]
      /\ UNCHANGED <<sessionVars, storeVars>> /\ Meet(p, r)
  BY <1>1, AtTyped DEF Delete, Deleting, Free, Types, Serving
<1>3. Met' /\ torn \subseteq torn' /\ (r \notin torn' => \A q \in Processes \ {p} : op[q].id # r)
  BY <1>2, MeetMet DEF Chaining
<1>4. Whole(r)'
  BY <1>2, <1>3, ResponsesAssumption, StaysWhole DEF storeVars
<1>5. Pending(p)'
  BY <1>2 DEF Pending
<1> QED
  BY <1>2, <1>3, <1>4, <1>5, StepChaining DEF sessionVars, storeVars

\* Nobody else is at an id that is not torn.
LEMMA Alone ==
    ASSUME Types, Chaining, NEW p \in Processes, op[p].do # "idle",
           NEW id, id = op[p].id, id \notin torn, NEW q \in Processes, q # p
    PROVE  op[q].id # id
BY ResponsesAssumption DEF Chaining, Met, Types, Reading

LEMMA CommandChaining ==
    ASSUME Types, Storing, Chaining, NEW p \in Processes,
           SaveMessages(p) \/ DeleteObject(p) \/ DeleteMessages(p)
    PROVE  Chaining'
<1>1. Base /\ Reading(p) /\ Serving(p) /\ Commanding(p)
  BY DEF Types, Storing
<1>2. /\ op[p].do \in {"save_messages", "delete_object", "delete_messages"}
      /\ UNCHANGED <<sessionVars, index, crashes, ghostVars>>
  BY DEF SaveMessages, DeleteObject, DeleteMessages
<1>3. PICK id \in Ids : id = op[p].id
  BY <1>1, <1>2 DEF Reading
<1>4. PICK for \in Ids \cup {NoId}, do \in {"append", "delete_messages", "remove"} :
         /\ At(p, do, id, for)
         /\ do = "delete_messages" <=> op[p].do = "delete_object"
  BY <1>1, <1>3, OpTyped DEF SaveMessages, DeleteObject, DeleteMessages
<1>5. op'[p].do = do /\ op'[p].id = id /\ \A q \in Processes : q # p => op'[q] = op[q]
  BY <1>1, <1>4, AtTyped DEF Saving, Deleting
<1>6. \A k \in Ids : k # id => (k \in msgs' <=> k \in msgs) /\ obj'[k] = obj[k]
  BY <1>1, <1>3 DEF SaveMessages, DeleteObject, DeleteMessages, Base
<1>7. Met'
  BY <1>2, <1>3, <1>5, StayMet DEF Chaining, ghostVars
<1>8. \A q \in Processes : q # p => (op[q].id = id => id \in torn)
  BY <1>2, <1>3, Alone
<1>9. Pending(p)'
  BY <1>5 DEF Pending
<1>10. Whole(id)'
  <2>1. CASE SaveMessages(p)
    <3>1. id \in msgs' /\ obj' = obj /\ torn' = torn /\ (id \notin torn => obj[id] # None)
      BY <1>2, <1>3, <2>1 DEF SaveMessages, ghostVars, Chaining, Pending
    <3> QED
      BY <3>1 DEF Whole
  <2>2. CASE DeleteObject(p)
    <3>1. op'[p].do = "delete_messages"
      BY <1>4, <1>5, <2>2 DEF DeleteObject
    <3> QED
      BY <1>5, <3>1 DEF Whole, Between
  <2>3. CASE DeleteMessages(p)
    <3>1. id \notin msgs' /\ obj' = obj /\ obj[id] = None
      BY <1>1, <1>3, <2>3 DEF DeleteMessages, Commanding, Deleting
    <3> QED
      BY <3>1 DEF Whole
  <2> QED
    BY <2>1, <2>2, <2>3
<1>11. torn' = torn /\ kind' = kind /\ history' = history /\ pc' = pc
  BY <1>2 DEF sessionVars, ghostVars
<1> QED
  BY <1>3, <1>4, <1>5, <1>6, <1>7, <1>8, <1>9, <1>10, <1>11, StepChaining

LEMMA IndexChaining ==
    ASSUME Types, Chaining, NEW p \in Processes, ReadIndex(p) \/ WriteIndex(p)
    PROVE  Chaining'
<1>1. Base /\ op[p] \in OpType
  BY DEF Types, Base
<1>2. /\ op[p].do \in {"append", "append_write", "remove", "remove_write"}
      /\ UNCHANGED <<kind, history, obj, msgs, torn>>
  BY DEF ReadIndex, WriteIndex, storeVars, ghostVars
<1>3. PICK id \in Ids : id = op[p].id
  BY <1>2 DEF Types, Reading
<1>4. /\ op'[p].do \in {"idle", "append_write", "remove_write"} /\ op'[p].id \in {id, NoId}
      /\ \A q \in Processes : q # p => op'[q] = op[q]
      /\ \A r \in Ids : pc'[r] = "new" => pc[r] = "new"
  <2>1. CASE Return(p)
    BY <1>1, <2>1, ReturnTyped, IdleTyped
  <2>2. CASE ~Return(p)
    <3>1. PICK do \in {"append_write", "remove_write"} :
             do = IF op[p].do = "append" THEN "append_write" ELSE "remove_write"
      OBVIOUS
    <3>2. pc' = pc /\ op' = [op EXCEPT ![p].do = do, ![p].ids = index]
      BY <2>2, <3>1 DEF ReadIndex, WriteIndex
    <3>3. op'[p].do = do /\ op'[p].id = op[p].id /\ \A q \in Processes : q # p => op'[q] = op[q]
      BY <1>1, <3>2 DEF Base, OpType
    <3> QED
      BY <1>3, <3>2, <3>3
  <2> QED
    BY <2>1, <2>2
<1>5. Met'
  BY <1>2, <1>3, <1>4, StayMet DEF Chaining
<1>6. \A q \in Processes : q # p => (op[q].id = id => id \in torn)
  BY <1>2, <1>3, Alone
<1>7. Whole(id)'
  <2>1. Whole(id)
    BY DEF Chaining
  <2>2. id \notin torn => ~Between(id)
    BY <1>2, <1>3, <1>6 DEF Between
  <2> QED
    BY <1>2, <2>1, <2>2 DEF Whole
<1>8. Pending(p)'
  BY <1>4 DEF Pending
<1> QED
  BY <1>2, <1>3, <1>4, <1>5, <1>6, <1>7, <1>8, StepChaining

LEMMA CrashChaining ==
    ASSUME Types, Chaining, NEW p \in Processes, Crash(p)
    PROVE  Chaining'
<1>1. Base /\ Reading(p)
  BY DEF Types
<1>2. PICK id \in Ids \cup {NoId} : id = op[p].id
  BY <1>1, OpTyped
<1>3. /\ op'[p] = Idle /\ \A q \in Processes : q # p => op'[q] = op[q]
      /\ torn' = torn \cup ({id} \ {NoId})
      /\ UNCHANGED <<kind, history, storeVars>>
      /\ \A r \in Ids : pc'[r] = "new" => pc[r] = "new"
  BY <1>1, <1>2, IdleTyped DEF Crash, Base
<1>4. op'[p].do = "idle" /\ op'[p].id = NoId
  BY <1>3, IdleTyped
<1>5. torn \subseteq torn' /\ id \in torn' \cup {NoId}
  BY <1>3
<1>6. Met'
  BY <1>3, <1>4, <1>5, StayMet DEF Chaining
<1>7. id \in Ids => Whole(id)'
  BY <1>5, ResponsesAssumption DEF Whole
<1>8. Pending(p)'
  BY <1>4 DEF Pending
<1> QED
  BY <1>2, <1>3, <1>4, <1>5, <1>6, <1>7, <1>8, StepChaining DEF storeVars

\* Steps of a handler that leave the store alone.
LEMMA SameChaining ==
    ASSUME Chaining, UNCHANGED <<kind, history, op, obj, msgs, torn>>,
           \A r \in Ids : pc'[r] = "new" => pc[r] = "new"
    PROVE  Chaining'
<1>1. Met'
  BY DEF Chaining, Met
<1>2. \A k \in Ids : Whole(k)' /\ Chained(k)'
  BY DEF Chaining, Whole, Between, Chained
<1>3. \A p \in Processes : Pending(p)' /\ Looking(p)'
  BY DEF Chaining, Pending, Looking
<1> QED
  BY <1>1, <1>2, <1>3 DEF Chaining

\* A lookup begins.
LEMMA ArriveChaining ==
    ASSUME Types, Chaining, NEW r \in Ids, NEW k \in Kinds[r], Arrive(r, k)
    PROVE  Chaining'
<1>1. Base /\ k \in KindType
  BY ResponsesAssumption DEF Types
<1>2. /\ pc[r] = "new" /\ op[k.at].do = "idle"
      /\ kind' = [kind EXCEPT ![r] = k]
      /\ UNCHANGED storeVars
      /\ pc' = [pc EXCEPT ![r] = "calling"] \/ pc' = [pc EXCEPT ![r] = "chaining"]
  BY DEF Arrive, Free
<1>3. /\ pc'[r] # "new" /\ kind'[r] = k
      /\ \A q \in Ids : q # r => pc'[q] = pc[q] /\ kind'[q] = kind[q]
  BY <1>1, <1>2 DEF Base
<1>4. history[r] = "none"
  BY <1>2 DEF Chaining, Chained
<1>5. CASE k.prev = NoId
  <2>1. UNCHANGED <<history, op, torn>>
    BY <1>5 DEF Arrive
  <2>2. \A q \in Ids : Whole(q)' /\ Chained(q)'
    BY <1>2, <1>3, <1>4, <2>1 DEF Chaining, Whole, Between, Chained, storeVars
  <2>3. \A p \in Processes : Pending(p)' /\ Looking(p)'
    BY <1>2, <2>1 DEF Chaining, Pending, Looking, storeVars
  <2>4. Met'
    BY <2>1 DEF Chaining, Met
  <2> QED
    BY <2>2, <2>3, <2>4 DEF Chaining
<1>6. CASE k.prev # NoId
  <2>1. PICK p \in Processes : p = k.at
    BY <1>1, KindTyped
  <2>2. PICK id \in Ids : id = k.prev
    BY <1>1, <1>6, KindTyped
  <2>3. PICK h \in {"messages", "no_messages"} : h = IF id \in msgs THEN "messages" ELSE "no_messages"
    OBVIOUS
  <2>4. history' = [history EXCEPT ![r] = h] /\ At(p, "chain", id, r) /\ Meet(p, id)
    BY <1>6, <2>1, <2>2, <2>3 DEF Arrive
  <2>5. history'[r] = h /\ \A q \in Ids : q # r => history'[q] = history[q]
    BY <1>1, <2>4 DEF Base
  <2>6. /\ op'[p].do = "chain" /\ op'[p].id = id /\ op'[p].for = r
        /\ \A q \in Processes : q # p => op'[q] = op[q]
    BY <1>1, <2>4, AtTyped
  <2>7. Met' /\ torn \subseteq torn' /\ (id \notin torn' => \A q \in Processes \ {p} : op[q].id # id)
    BY <2>4, <2>6, MeetMet DEF Chaining
  <2>8. op[p].id = NoId
    BY <1>2, <2>1 DEF Types, Serving
  <2>9. ASSUME NEW q \in Ids PROVE Whole(q)' /\ Chained(q)'
    <3>1. Whole(q)'
      BY <1>2, <2>6, <2>7, <2>8, StaysWhole, ResponsesAssumption DEF storeVars
    <3>2. Chained(q)'
      BY <1>3, <1>4, <2>3, <2>5, <2>7 DEF Chaining, Chained
    <3> QED
      BY <3>1, <3>2
  <2>10. ASSUME NEW q \in Processes PROVE Pending(q)' /\ Looking(q)'
    <3>1. CASE q = p
      BY <1>2, <2>3, <2>5, <2>6, <3>1 DEF Pending, Looking, storeVars
    <3>2. CASE q # p
      <4>1. Pending(q) /\ Looking(q) /\ op'[q] = op[q] /\ obj' = obj /\ msgs' = msgs
        BY <1>2, <2>6, <3>2 DEF Chaining, storeVars
      <4>2. op[q].do = "chain" => op[q].for \in Ids /\ op[q].for # r
        BY <1>2 DEF Types, Serving
      <4> QED
        BY <2>5, <2>7, <4>1, <4>2 DEF Pending, Looking
    <3> QED
      BY <3>1, <3>2
  <2> QED
    BY <2>7, <2>9, <2>10 DEF Chaining
<1> QED
  BY <1>5, <1>6

\* A lookup ends: of an id nobody else is at, it has found what is there.
LEMMA ChainChaining ==
    ASSUME Types, Chaining, NEW p \in Processes, ChainOutput(p)
    PROVE  Chaining'
<1>1. Base /\ Serving(p) /\ Looking(p) /\ op[p].do = "chain"
  BY DEF Types, Chaining, ChainOutput
<1>2. PICK r \in Ids : r = op[p].for /\ pc[r] = "chaining" /\ kind[r].at = p /\ kind[r].prev = op[p].id
  BY <1>1 DEF Serving
<1>3. PICK id \in Ids : id = op[p].id
  BY <1>1 DEF Types, Reading
<1>4. /\ history' = [history EXCEPT ![r] = Found(@ = "messages", obj[id] # None)]
      /\ pc' = [pc EXCEPT ![r] = "calling"] /\ op' = [op EXCEPT ![p] = Idle]
      /\ UNCHANGED <<kind, stream, made, out, storeVars, crashes, ghostVars>>
  BY <1>2, <1>3 DEF ChainOutput
<1>5. /\ history'[r] = Found(history[r] = "messages", obj[id] # None)
      /\ \A q \in Ids : q # r => history'[q] = history[q]
      /\ \A q \in Ids : pc'[q] = "new" => pc[q] = "new" /\ q # r
      /\ op'[p] = Idle /\ \A q \in Processes : q # p => op'[q] = op[q]
  BY <1>1, <1>4 DEF Base
<1>6. op'[p].do = "idle" /\ op'[p].id = NoId
  BY <1>5, IdleTyped
<1>7. UNCHANGED <<kind, obj, msgs, torn>>
  BY <1>4 DEF storeVars, ghostVars
<1>8. Met'
  BY <1>5, <1>6, <1>7, StayMet DEF Chaining
<1>9. id \notin torn => \A q \in Processes : q # p => op[q].id # id
  BY <1>1, <1>3, Alone
<1>10. id \notin torn => (id \in msgs <=> obj[id] # None)
  BY <1>1, <1>3, <1>9 DEF Chaining, Whole, Between
<1>11. ASSUME NEW q \in Ids PROVE Whole(q)' /\ Chained(q)'
  <2>1. Whole(q)'
    <3>1. Between(q) => Between(q)'
      BY <1>1, <1>5 DEF Between
    <3> QED
      BY <1>7, <3>1 DEF Chaining, Whole
  <2>2. CASE q # r
    BY <1>5, <1>7, <2>1, <2>2 DEF Chaining, Chained
  <2>3. CASE q = r
    <3>1. id \notin torn => (history[r] = "messages" <=> obj[id] # None)
      BY <1>1, <1>2, <1>3, <1>10 DEF Looking
    <3>2. id \notin torn => history'[r] # "half"
      BY <1>5, <3>1 DEF Found
    <3> QED
      BY <1>2, <1>3, <1>5, <1>7, <2>1, <2>3, <3>2 DEF Chained
  <2> QED
    BY <2>2, <2>3
<1>12. ASSUME NEW q \in Processes PROVE Pending(q)' /\ Looking(q)'
  <2>1. CASE q = p
    BY <1>6, <2>1 DEF Pending, Looking
  <2>2. CASE q # p
    <3>1. Pending(q) /\ Looking(q) /\ op'[q] = op[q]
      BY <1>5, <2>2 DEF Chaining
    <3>2. op[q].do = "chain" => op[q].for \in Ids /\ op[q].for # r
      BY <1>2, <2>2 DEF Types, Serving
    <3> QED
      BY <1>5, <1>7, <3>1, <3>2 DEF Pending, Looking
  <2> QED
    BY <2>1, <2>2
<1> QED
  BY <1>8, <1>11, <1>12 DEF Chaining

LEMMA ChainingHolds == Spec => []Chaining
<1>1. Init => Chaining
  <2> SUFFICES ASSUME Init PROVE Chaining
    OBVIOUS
  <2>1. \A p \in Processes : op[p].do = "idle" /\ op[p].id = NoId
    BY IdleTyped DEF Init
  <2>2. \A k \in Ids : Whole(k) /\ Chained(k)
    BY DEF Init, Whole, Chained
  <2> QED
    BY <2>1, <2>2 DEF Chaining, Met, Pending, Looking
<1>2. Types /\ Streaming /\ Storing /\ Storing' /\ Chaining /\ [Next]_vars => Chaining'
  <2> SUFFICES ASSUME Types, Streaming, Storing, Storing', Chaining, [Next]_vars PROVE Chaining'
    OBVIOUS
  <2>1. ASSUME UNCHANGED vars PROVE Chaining'
    BY <2>1, SameChaining DEF vars, sessionVars, storeVars, ghostVars
  <2>2. ASSUME NEW r \in Ids, Handle(r) \/ Disconnect(r) PROVE Chaining'
    <3>1. HandlerStep(r) \/ SaveStep(r)
      BY <2>2, HandleEffect DEF Types
    <3>2. CASE HandlerStep(r)
      BY <3>2, SameChaining DEF HandlerStep, storeVars, ghostVars
    <3> QED
      BY <3>1, <3>2, SaveStepChaining
  <2>3. ASSUME NEW p \in Processes, Command(p) PROVE Chaining'
    BY <2>3, ChainChaining, CommandChaining, IndexChaining DEF Command
  <2> QED
    BY <2>1, <2>2, <2>3, ArriveChaining, DeleteChaining, CrashChaining DEF Next
<1> QED
  BY <1>1, <1>2, TypesHold, StreamingHolds, StoringHolds, PTL DEF Spec

\* A continued conversation gets both the messages and the output of the
\* response before or neither, unless two processes were at it at a time or one
\* crashed at it.
THEOREM WholeHistories == Spec => []HistoryWhole
<1>1. Chaining => HistoryWhole
  BY DEF Chaining, Chained, HistoryWhole
<1> QED
  BY <1>1, ChainingHolds, PTL
=============================================================================
