---------------------------- MODULE PiConsoleProofs ----------------------------
(***************************************************************************)
(* What the chat sessions and the views over them guarantee for any number *)
(* of sessions, creates, prompts, events and lost connections: logs only   *)
(* grow, messages stay where they were shown, a reader of a log misses     *)
(* nothing, and a prompt's answer starts with it.                          *)
(***************************************************************************)
EXTENDS PiConsole, TLAPS, SequenceTheorems, WellFoundedInduction

-----------------------------------------------------------------------------
(* Induction over data.  The library's theorem takes an operator, which    *)
(* the provers at hand cannot instantiate; a set of numbers does as well.  *)

\* A set that has 0, and with every number the next one, has them all.
LEMMA AllFromZero ==
    ASSUME NEW T, 0 \in T, \A n \in Nat : n \in T => n + 1 \in T
    PROVE  \A n \in Nat : n \in T
<1> DEFINE bad == Nat \ T
<1>1. SUFFICES ASSUME bad # {} PROVE FALSE
  OBVIOUS
<1>2. PICK n \in bad : \A m \in bad : ~ (<<m, n>> \in OpToRel(<, Nat))
  BY <1>1, NatLessThanWellFounded, WFMin
<1>3. n \in Nat /\ n # 0
  BY <1>2
<1>4. n - 1 \in Nat /\ n - 1 < n /\ (n - 1) + 1 = n
  BY <1>3
<1>5. n - 1 \in T
  <2>1. <<n - 1, n>> \in OpToRel(<, Nat)
    BY <1>3, <1>4 DEF OpToRel
  <2> QED
    BY <1>2, <1>4, <2>1
<1>6. n \in T
  BY <1>4, <1>5
<1> QED
  BY <1>2, <1>6

-----------------------------------------------------------------------------
(* The messages a log is shown as.                                         *)

\* f holds the messages of each beginning of a log.
ShownBy(f, events) ==
    f = [n \in 0..Len(events) |->
            IF n = 0 THEN <<>> ELSE AddMessage(f[n - 1], events[n])]

LEMMA ShownByExists ==
    ASSUME NEW events, Len(events) \in Nat
    PROVE  \E f : ShownBy(f, events)
<1> DEFINE Upto(g, k) == g = [n \in 0..k |->
               IF n = 0 THEN <<>> ELSE AddMessage(g[n - 1], events[n])]
           T == {k \in Nat : \E g : Upto(g, k)}
<1>1. 0 \in T
  <2>1. Upto([n \in 0..0 |-> <<>>], 0)
    OBVIOUS
  <2> QED
    BY <2>1
<1>2. ASSUME NEW k \in Nat, k \in T
      PROVE  k + 1 \in T
  <2>1. PICK g : Upto(g, k)
    BY <1>2
  <2> DEFINE h == [n \in 0..(k + 1) |->
                      IF n = k + 1 THEN AddMessage(g[k], events[k + 1]) ELSE g[n]]
  <2>2. \A n \in 0..k : h[n] = g[n] /\ n \in 0..(k + 1)
    OBVIOUS
  <2>3. ASSUME NEW n \in 0..(k + 1)
        PROVE  h[n] = IF n = 0 THEN <<>> ELSE AddMessage(h[n - 1], events[n])
    <3>1. CASE n = k + 1
      <4>1. n # 0 /\ n - 1 = k /\ k \in 0..k
        BY <3>1
      <4>2. h[n - 1] = g[k]
        BY <2>2, <4>1
      <4> QED
        BY <3>1, <4>1, <4>2
    <3>2. CASE n # k + 1
      <4>1. n \in 0..k /\ h[n] = g[n]
        BY <3>2
      <4>2. g[n] = IF n = 0 THEN <<>> ELSE AddMessage(g[n - 1], events[n])
        BY <2>1, <4>1
      <4>3. n # 0 => n - 1 \in 0..k
        BY <4>1
      <4>4. n # 0 => h[n - 1] = g[n - 1]
        BY <2>2, <4>3
      <4> HIDE DEF h
      <4> QED
        BY <4>1, <4>2, <4>4
    <3> QED
      BY <3>1, <3>2
  <2>4. h = [n \in 0..(k + 1) |-> h[n]]
    OBVIOUS
  <2> HIDE DEF h
  <2>5. Upto(h, k + 1)
    BY <2>3, <2>4
  <2> QED
    BY <2>5
<1>3. \A k \in Nat : k \in T
  <2> HIDE DEF T
  <2> QED
    BY <1>1, <1>2, AllFromZero
<1> QED
  BY <1>3 DEF ShownBy

LEMMA MessagesShown ==
    ASSUME NEW events, Len(events) \in Nat
    PROVE  \E f : ShownBy(f, events) /\ Messages(events) = f[Len(events)]
<1> DEFINE f == CHOOSE g : ShownBy(g, events)
<1>1. ShownBy(f, events)
  BY ShownByExists
<1>2. Messages(events) = f[Len(events)]
  BY DEF Messages, ShownBy
<1> QED
  BY <1>1, <1>2
Shown == [role : {"system", "user", "assistant"}, parts : Seq(Nat), failed : BOOLEAN]

LEMMA MessageType ==
    ASSUME NEW e \in Event
    PROVE  /\ Visible(e) => Message(e) \in Shown
           /\ Merges(e) => RoleOf(e) = "assistant"
<1>1. e.kind \in EventKind /\ e.sequence \in Nat
  BY DEF Event
<1>2. Visible(e) => RoleOf(e) \in {"system", "user", "assistant"}
  BY <1>1 DEF Visible, RoleOf, EventKind
<1>3. <<e.sequence>> \in Seq(Nat)
  BY <1>1
<1> QED
  BY <1>2, <1>3 DEF Shown, Message, Merges

\* Text is added to a message.
LEMMA PartAdded ==
    ASSUME NEW old \in Shown, NEW x \in Nat
    PROVE  LET last == [old EXCEPT !.parts = Append(@, x)]
           IN  /\ last \in Shown
               /\ last.parts = Append(old.parts, x)
               /\ last = [old EXCEPT !.parts = last.parts]
<1> DEFINE ps == Append(old.parts, x)
           last == [old EXCEPT !.parts = Append(@, x)]
<1>1. ps \in Seq(Nat)
  BY DEF Shown
<1>2. last = [old EXCEPT !.parts = ps]
  OBVIOUS
<1> HIDE DEF ps
<1>3. [old EXCEPT !.parts = ps] \in Shown /\ [old EXCEPT !.parts = ps].parts = ps
  BY <1>1 DEF Shown
<1>4. last \in Shown /\ last.parts = ps
  BY <1>2, <1>3
<1>5. last = [old EXCEPT !.parts = last.parts]
  <2> HIDE DEF last
  <2> QED
    BY <1>2, <1>4
<1> QED
  BY <1>4, <1>5 DEF ps

\* An event adds a message, or text to the last one.
LEMMA AddMessageGrows ==
    ASSUME NEW messages \in Seq(Shown), NEW e \in Event
    PROVE  /\ AddMessage(messages, e) \in Seq(Shown)
           /\ Continues(AddMessage(messages, e), messages)
<1> DEFINE n == Len(messages)
<1>1. n \in Nat /\ DOMAIN messages = 1..n /\ \A i \in 1..n : messages[i] \in Shown
  OBVIOUS
<1>2. CASE ~Visible(e)
  BY <1>2 DEF AddMessage, Continues, Extends
<1>3. CASE Visible(e) /\ Merges(e) /\ n > 0 /\ messages[n].role = "assistant"
  <2> DEFINE longer == [messages EXCEPT ![n].parts = Append(@, e.sequence)]
             last == [messages[n] EXCEPT !.parts = Append(@, e.sequence)]
  <2>1. AddMessage(messages, e) = longer
    BY <1>3 DEF AddMessage
  <2>2. messages[n] \in Shown /\ n \in 1..n /\ e.sequence \in Nat
    BY <1>1, <1>3 DEF Event
  <2>3. /\ last \in Shown /\ last.parts = Append(messages[n].parts, e.sequence)
        /\ last = [messages[n] EXCEPT !.parts = last.parts]
    BY <2>2, PartAdded, Zenon
  <2>4. SubSeq(last.parts, 1, Len(messages[n].parts)) = messages[n].parts
    <3>1. messages[n].parts \in Seq(Nat)
      BY <2>2 DEF Shown
    <3> QED
      BY <2>2, <2>3, <3>1
  <2>5. longer = [messages EXCEPT ![n] = last]
    OBVIOUS
  <2> HIDE DEF last
  <2>6. /\ longer \in Seq(Shown) /\ Len(longer) = n /\ longer[n] = last
        /\ \A i \in 1..n : i # n => longer[i] = messages[i]
    <3>1. n \in 1..Len(messages) /\ last \in Shown
      BY <2>2, <2>3
    <3> QED
      BY <1>1, <2>5, <3>1, ExceptSeq
  <2> HIDE DEF longer
  <2>7. Extends(last, messages[n])
    BY <1>3, <2>3, <2>4 DEF Extends
  <2>8. Continues(longer, messages)
    <3>1. ASSUME NEW i \in DOMAIN messages
          PROVE  IF i = n THEN Extends(longer[i], messages[i]) ELSE longer[i] = messages[i]
      <4>1. CASE i = n
        <5>1. longer[i] = last /\ messages[i] = messages[n]
          BY <2>6, <4>1
        <5>2. Extends(longer[i], messages[i])
          BY <2>7, <5>1, Zenon
        <5> QED
          BY <4>1, <5>2
      <4>2. CASE i # n
        BY <1>1, <2>6, <4>2
      <4> QED
        BY <4>1, <4>2
    <3>2. Len(messages) <= Len(longer)
      <4>1. Len(longer) = Len(messages) /\ Len(messages) \in Nat
        BY <1>1, <2>6
      <4> QED
        BY <4>1
    <3> QED
      BY <3>1, <3>2 DEF Continues
  <2> QED
    BY <2>1, <2>6, <2>8
<1>4. CASE Visible(e) /\ ~(Merges(e) /\ n > 0 /\ messages[n].role = "assistant")
  <2>1. AddMessage(messages, e) = Append(messages, Message(e))
    BY <1>4 DEF AddMessage
  <2>2. Message(e) \in Shown
    BY <1>4, MessageType
  <2>3. /\ Append(messages, Message(e)) \in Seq(Shown)
        /\ Len(Append(messages, Message(e))) = n + 1
        /\ \A i \in 1..n : Append(messages, Message(e))[i] = messages[i]
    BY <1>1, <2>2
  <2> QED
    BY <1>1, <2>1, <2>3 DEF Continues, Extends
<1> QED
  BY <1>2, <1>3, <1>4

LEMMA ContinuesItself ==
    ASSUME NEW messages \in Seq(Shown)
    PROVE  Continues(messages, messages)
BY DEF Continues, Extends

\* A prompt and an answer that is there at once are two messages of their own.
LEMMA TurnGrows ==
    ASSUME NEW messages \in Seq(Shown), NEW p \in Event, NEW a \in Event,
           p.kind = "prompt", a.kind = "answer"
    PROVE  Continues(AddMessage(AddMessage(messages, p), a), messages)
<1>1. /\ Visible(p) /\ ~Merges(p) /\ Message(p) \in Shown
      /\ Visible(a) /\ ~Merges(a) /\ Message(a) \in Shown
  <2>1. /\ Visible(p) /\ ~Merges(p) /\ Visible(a) /\ ~Merges(a)
    BY DEF Visible, Merges, RoleOf
  <2> QED
    BY <2>1, MessageType
<1> DEFINE one == Append(messages, Message(p))
           two == Append(one, Message(a))
<1>2. AddMessage(messages, p) = one
  BY <1>1 DEF AddMessage
<1>3. AddMessage(one, a) = two
  BY <1>1 DEF AddMessage
<1>4. /\ one \in Seq(Shown) /\ Len(one) = Len(messages) + 1
      /\ \A i \in 1..Len(messages) : one[i] = messages[i]
  BY <1>1
<1> HIDE DEF one
<1>5. /\ two \in Seq(Shown) /\ Len(two) = Len(messages) + 2
      /\ \A i \in 1..Len(messages) : two[i] = messages[i]
  BY <1>1, <1>4
<1> HIDE DEF two
<1> QED
  BY <1>2, <1>3, <1>5 DEF Continues, Extends

LEMMA MessagesType ==
    ASSUME NEW events \in Seq(Event), NEW f, ShownBy(f, events)
    PROVE  \A n \in 0..Len(events) : f[n] \in Seq(Shown)
<1> DEFINE T == {n \in Nat : n <= Len(events) => f[n] \in Seq(Shown)}
<1>1. Len(events) \in Nat
  OBVIOUS
<1>2. 0 \in T
  BY <1>1 DEF ShownBy
<1>3. ASSUME NEW n \in Nat, n \in T
      PROVE  n + 1 \in T
  <2>1. CASE n + 1 <= Len(events)
    <3>1. /\ n + 1 \in 0..Len(events) /\ n + 1 # 0 /\ (n + 1) - 1 = n
          /\ n + 1 \in 1..Len(events) /\ n <= Len(events)
      BY <1>1, <2>1
    <3>2. f[n + 1] = AddMessage(f[n], events[n + 1])
      BY <3>1 DEF ShownBy
    <3>3. events[n + 1] \in Event /\ f[n] \in Seq(Shown)
      BY <1>3, <3>1
    <3>4. f[n + 1] \in Seq(Shown)
      BY <3>2, <3>3, AddMessageGrows
    <3> QED
      BY <3>4
  <2>2. CASE ~(n + 1 <= Len(events))
    BY <2>2
  <2> QED
    BY <2>1, <2>2
<1>4. \A n \in Nat : n \in T
  <2> HIDE DEF T
  <2> QED
    BY <1>2, <1>3, AllFromZero
<1> QED
  BY <1>1, <1>4

\* The messages of a log that has got one more event.
LEMMA MessagesAppend ==
    ASSUME NEW events \in Seq(Event), NEW e \in Event
    PROVE  /\ Messages(events) \in Seq(Shown)
           /\ Messages(Append(events, e)) = AddMessage(Messages(events), e)
<1> DEFINE more == Append(events, e)
           k == Len(events)
<1>1. /\ k \in Nat /\ more \in Seq(Event) /\ Len(more) = k + 1 /\ more[k + 1] = e
      /\ \A i \in 1..k : more[i] = events[i]
  OBVIOUS
<1> HIDE DEF more
<1>2. PICK f : ShownBy(f, events) /\ Messages(events) = f[k]
  BY <1>1, MessagesShown
<1>3. PICK g : ShownBy(g, more) /\ Messages(more) = g[k + 1]
  BY <1>1, MessagesShown
<1>4. /\ f[0] = <<>> /\ g[0] = <<>>
      /\ \A n \in 1..k : f[n] = AddMessage(f[n - 1], events[n])
      /\ \A n \in 1..(k + 1) : g[n] = AddMessage(g[n - 1], more[n])
  <2>1. ASSUME NEW n \in 1..k
        PROVE  f[n] = AddMessage(f[n - 1], events[n])
    <3>1. n \in 0..Len(events) /\ n # 0
      BY <1>1
    <3> QED
      BY <1>2, <3>1 DEF ShownBy
  <2>2. ASSUME NEW n \in 1..(k + 1)
        PROVE  g[n] = AddMessage(g[n - 1], more[n])
    <3>1. n \in 0..Len(more) /\ n # 0
      BY <1>1
    <3> QED
      BY <1>3, <3>1 DEF ShownBy
  <2>3. 0 \in 0..Len(events) /\ 0 \in 0..Len(more)
    BY <1>1
  <2>4. f[0] = <<>> /\ g[0] = <<>>
    BY <1>2, <1>3, <2>3 DEF ShownBy
  <2> QED
    BY <2>1, <2>2, <2>4
<1> DEFINE T == {n \in Nat : n <= k => f[n] = g[n]}
<1>5. 0 \in T
  BY <1>4
<1>6. ASSUME NEW n \in Nat, n \in T
      PROVE  n + 1 \in T
  <2>1. CASE n + 1 <= k
    <3>1. /\ n + 1 \in 1..k /\ n + 1 \in 1..(k + 1) /\ (n + 1) - 1 = n /\ n <= k
      BY <1>1, <2>1
    <3>2. f[n + 1] = AddMessage(f[n], events[n + 1])
      BY <1>4, <3>1
    <3>3. g[n + 1] = AddMessage(g[n], more[n + 1])
      BY <1>4, <3>1
    <3> QED
      BY <1>1, <1>6, <3>1, <3>2, <3>3
  <2>2. CASE ~(n + 1 <= k)
    BY <2>2
  <2> QED
    BY <2>1, <2>2
<1>7. \A n \in Nat : n \in T
  <2> HIDE DEF T
  <2> QED
    BY <1>5, <1>6, AllFromZero
<1>8. f[k] = g[k]
  BY <1>1, <1>7
<1>9. k + 1 \in 1..(k + 1) /\ (k + 1) - 1 = k
  BY <1>1
<1>10. g[k + 1] = AddMessage(g[k], e)
  BY <1>1, <1>4, <1>9
<1>11. f[k] \in Seq(Shown)
  BY <1>1, <1>2, MessagesType
<1> QED
  BY <1>2, <1>3, <1>8, <1>10, <1>11 DEF more

-----------------------------------------------------------------------------
(* What a reader of a log is sent.                                         *)

\* f holds what is newer than after of each beginning of a log.
NewerBy(f, events, after) ==
    f = [n \in 0..Len(events) |->
            IF n = 0 THEN <<>>
            ELSE IF events[n].sequence > after THEN Append(f[n - 1], events[n])
            ELSE f[n - 1]]

LEMMA NewerByExists ==
    ASSUME NEW events, Len(events) \in Nat, NEW after
    PROVE  \E f : NewerBy(f, events, after)
<1> DEFINE Next1(l, n) == IF events[n].sequence > after THEN Append(l, events[n]) ELSE l
           Upto(g, k) == g = [n \in 0..k |->
               IF n = 0 THEN <<>>
               ELSE IF events[n].sequence > after THEN Append(g[n - 1], events[n])
               ELSE g[n - 1]]
           T == {k \in Nat : \E g : Upto(g, k)}
<1>1. 0 \in T
  <2>1. Upto([n \in 0..0 |-> <<>>], 0)
    OBVIOUS
  <2> QED
    BY <2>1
<1>2. ASSUME NEW k \in Nat, k \in T
      PROVE  k + 1 \in T
  <2>1. PICK g : Upto(g, k)
    BY <1>2
  <2> DEFINE h == [n \in 0..(k + 1) |->
                      IF n = k + 1 THEN Next1(g[k], k + 1) ELSE g[n]]
  <2>2. \A n \in 0..k : h[n] = g[n] /\ n \in 0..(k + 1)
    OBVIOUS
  <2>3. ASSUME NEW n \in 0..(k + 1)
        PROVE  h[n] = IF n = 0 THEN <<>> ELSE Next1(h[n - 1], n)
    <3>1. CASE n = k + 1
      <4>1. n # 0 /\ n - 1 = k /\ k \in 0..k
        BY <3>1
      <4>2. h[n - 1] = g[k]
        BY <2>2, <4>1
      <4> QED
        BY <3>1, <4>1, <4>2
    <3>2. CASE n # k + 1
      <4>1. n \in 0..k /\ h[n] = g[n]
        BY <3>2
      <4>2. g[n] = IF n = 0 THEN <<>> ELSE Next1(g[n - 1], n)
        BY <2>1, <4>1
      <4>3. n # 0 => n - 1 \in 0..k
        BY <4>1
      <4>4. n # 0 => h[n - 1] = g[n - 1]
        BY <2>2, <4>3
      <4> HIDE DEF h, Next1
      <4> QED
        BY <4>1, <4>2, <4>4
    <3> QED
      BY <3>1, <3>2
  <2>4. h = [n \in 0..(k + 1) |-> h[n]]
    OBVIOUS
  <2> HIDE DEF h
  <2>5. Upto(h, k + 1)
    BY <2>3, <2>4
  <2> QED
    BY <2>5
<1>3. \A k \in Nat : k \in T
  <2> HIDE DEF T
  <2> QED
    BY <1>1, <1>2, AllFromZero
<1> QED
  BY <1>3 DEF NewerBy

LEMMA ListEventsBy ==
    ASSUME NEW s, Len(log[s]) \in Nat, NEW after
    PROVE  \E f : NewerBy(f, log[s], after) /\ ListEvents(s, after) = f[Len(log[s])]
<1> DEFINE f == CHOOSE g : NewerBy(g, log[s], after)
<1>1. NewerBy(f, log[s], after)
  BY NewerByExists
<1>2. ListEvents(s, after) = f[Len(log[s])]
  BY DEF ListEvents, NewerBy
<1> QED
  BY <1>1, <1>2

Numbered(events) == \A i \in 1..Len(events) : events[i].sequence = i

\* Of a log that is numbered: all that comes after, in its order.
LEMMA ListEventsRest ==
    ASSUME NEW s, log[s] \in Seq(Event), Numbered(log[s]), NEW after \in 0..Len(log[s])
    PROVE  /\ ListEvents(s, after) \in Seq(Event)
           /\ Len(ListEvents(s, after)) = Len(log[s]) - after
           /\ \A i \in 1..(Len(log[s]) - after) :
                 ListEvents(s, after)[i] = log[s][after + i]
<1> DEFINE events == log[s]
           k == Len(log[s])
           count(n) == IF n <= after THEN 0 ELSE n - after
<1>1. k \in Nat /\ after \in Nat /\ after <= k /\ \A n \in 1..k : events[n] \in Event
  OBVIOUS
<1>2. PICK f : NewerBy(f, events, after) /\ ListEvents(s, after) = f[k]
  BY <1>1, ListEventsBy
<1> HIDE DEF events
<1>3. ASSUME NEW n \in 0..k
      PROVE  f[n] = IF n = 0 THEN <<>>
                    ELSE IF events[n].sequence > after THEN Append(f[n - 1], events[n])
                    ELSE f[n - 1]
  BY <1>2 DEF NewerBy, events
<1> DEFINE Rest(n) == /\ f[n] \in Seq(Event) /\ Len(f[n]) = count(n)
                      /\ \A i \in 1..count(n) : f[n][i] = events[after + i]
           T == {n \in Nat : n <= k => Rest(n)}
<1>4. 0 \in T
  <2>1. 0 \in 0..k /\ count(0) = 0
    BY <1>1
  <2>2. f[0] = <<>>
    BY <1>3, <2>1
  <2> HIDE DEF count
  <2>3. Rest(0)
    BY <2>1, <2>2
  <2> QED
    BY <2>3
<1>5. ASSUME NEW n \in Nat, n \in T
      PROVE  n + 1 \in T
  <2> SUFFICES ASSUME n + 1 <= k
               PROVE  Rest(n + 1)
    OBVIOUS
  <2>1. n + 1 \in 0..k /\ n + 1 \in 1..k /\ n + 1 # 0 /\ (n + 1) - 1 = n /\ n <= k
    BY <1>1
  <2>2. Rest(n)
    BY <1>5, <2>1
  <2>3. events[n + 1].sequence = n + 1 /\ events[n + 1] \in Event
    BY <1>1, <2>1 DEF Numbered, events
  <2>4. f[n + 1] = IF n + 1 > after THEN Append(f[n], events[n + 1]) ELSE f[n]
    BY <1>3, <2>1, <2>3
  <2>5. CASE n + 1 > after
    <3>1. count(n + 1) = count(n) + 1 /\ count(n) \in Nat
          /\ after + (count(n) + 1) = n + 1
      BY <1>1, <2>5
    <3>2. f[n + 1] = Append(f[n], events[n + 1])
      BY <2>4, <2>5
    <3> HIDE DEF count
    <3>3. /\ Append(f[n], events[n + 1]) \in Seq(Event)
          /\ Len(Append(f[n], events[n + 1])) = count(n) + 1
          /\ \A i \in 1..count(n) : Append(f[n], events[n + 1])[i] = events[after + i]
          /\ Append(f[n], events[n + 1])[count(n) + 1] = events[n + 1]
      BY <2>2, <2>3, <3>1
    <3>4. \A i \in 1..(count(n) + 1) : i \in 1..count(n) \/ i = count(n) + 1
      BY <3>1
    <3> QED
      BY <3>1, <3>2, <3>3, <3>4
  <2>6. CASE ~(n + 1 > after)
    <3>1. count(n + 1) = 0 /\ count(n) = 0
      BY <1>1, <2>6
    <3>2. f[n + 1] = f[n]
      BY <2>4, <2>6
    <3> HIDE DEF count
    <3> QED
      BY <2>2, <3>1, <3>2
  <2> QED
    BY <2>5, <2>6
<1>6. \A n \in Nat : n \in T
  <2> HIDE DEF T
  <2> QED
    BY <1>4, <1>5, AllFromZero
<1>7. Rest(k)
  BY <1>1, <1>6
<1>8. count(k) = k - after
  BY <1>1
<1> QED
  BY <1>2, <1>7, <1>8 DEF events

-----------------------------------------------------------------------------
(* The invariant.                                                          *)

Status == {"absent", "idle", "running", "done", "error"}
Stages == {"idle", "loading", "resolved", "created", "refused", "told"}
SessionOrNone == Session \cup {NoSession}

\* The sequence number of an event is its position in the log.
LogOK ==
    /\ log \in [Session -> Seq(Event)]
    /\ \A s \in Session : Numbered(log[s])

\* A create that the view asked for has a session once it was entered in the
\* map, and no other of them has it.
Mine(c) == creating[c].from # "api" /\ creating[c].id # NoSession
CreatingOK ==
    /\ creating \in [Call -> [stage : Stages, id : SessionOrNone,
                              from : {"api", "view", "past"}]]
    /\ \A c \in Call : creating[c].stage = "created" => creating[c].id \in Session
    /\ \A c \in Call : Mine(c) => Exists(creating[c].id)
    /\ \A c, d \in Call : Mine(c) /\ Mine(d) /\ creating[c].id = creating[d].id => c = d

\* The prompt that is worked on is in the log, at the length it had before.
PromptingOK ==
    /\ prompting \subseteq [session : Session, before : Nat]
    /\ \A p \in prompting : /\ p.before < Len(log[p.session])
                            /\ log[p.session][p.before + 1].kind = "prompt"

\* The reader has the beginning of the log it follows.
ReaderOK ==
    /\ reader \in [of : Session, got : Seq(Event)]
    /\ Len(reader.got) <= Len(log[reader.of])
    /\ \A i \in 1..Len(reader.got) : reader.got[i] = log[reader.of][i]

\* What the view shows, or is on its way to it, are snapshots of sessions, and
\* only the panel asks for them.
Snapshots == [id : SessionOrNone, status : Status, events : Nat]
ViewOK ==
    /\ selected \in SessionOrNone
    /\ shown \in Snapshots
    /\ loads \subseteq Snapshots
    /\ view # "panel" => loads = {}
    /\ \E of \in SessionOrNone, last \in Snapshots, wire \in Seq(Snapshots) :
          stream = [of |-> of, last |-> last, wire |-> wire]
    /\ composer \in [node : Node, busy : BOOLEAN,
                     seed : [session : SessionOrNone, before : Nat],
                     follow : [session : SessionOrNone, before : Nat]]

PiInv ==
    /\ bound \in Limit /\ adapter \in {"fake", "real"}
    /\ LogOK
    /\ status \in [Session -> Status]
    /\ CreatingOK
    /\ PromptingOK
    /\ RunningIsPrompted
    /\ sent \in 0..bound.prompts
    /\ ReaderOK
    /\ ViewOK

-----------------------------------------------------------------------------
(* What an action does to the sessions.                                    *)

\* The same whoever does it: nothing, a session is entered in the map, a prompt
\* is sent or ends, or the SDK reports an event.
SessionStep ==
    \/ UNCHANGED <<log, status, prompting, sent>>
    \/ \E s \in Session : /\ ~Exists(s)
                          /\ status' = [status EXCEPT ![s] = "idle"]
                          /\ log' = [log EXCEPT ![s] = With(s, "created")]
                          /\ UNCHANGED <<prompting, sent>>
    \/ \E s \in Session : SendPrompt(s)
    \/ \E s \in Session : SdkEvent(s)
    \/ \E p \in prompting : (PromptEnds(p) \/ PromptFails(p)) /\ UNCHANGED sent

LEMMA IdsForSessions ==
    ASSUME PiInv, NEW c \in Call
    PROVE  IdsFor(c) \subseteq Session
<1>1. creating[c].id \in SessionOrNone
  BY DEF PiInv, CreatingOK
<1>2. Unseen \subseteq Session
  BY DEF Unseen
<1>3. Unseen # {} => (CHOOSE s \in Unseen : TRUE) \in Unseen
  OBVIOUS
<1> QED
  BY <1>1, <1>2, <1>3 DEF IdsFor, Requested, SessionOrNone

\* Every action is one of those steps of the sessions, leaves its bounds alone,
\* and only Read moves the reader.
LEMMA StepOfSessions ==
    ASSUME PiInv, [ConsoleNext]_consoleVars
    PROVE  /\ SessionStep
           /\ UNCHANGED <<bound, adapter, view>>
           /\ UNCHANGED reader \/ (Read /\ UNCHANGED log)
<1> USE DEF piVars, server, client
<1>1. ASSUME NEW c \in Call, Resolve(c), UNCHANGED client
      PROVE  SessionStep /\ UNCHANGED <<bound, adapter, view, reader>>
  BY <1>1 DEF Resolve, SessionStep
<1>2. ASSUME NEW c \in Call, Register(c), UNCHANGED client
      PROVE  SessionStep /\ UNCHANGED <<bound, adapter, view, reader>>
  BY <1>2, IdsForSessions DEF Register, Enter, SessionStep
<1>3. ASSUME NEW s \in Session, SdkEvent(s), UNCHANGED client
      PROVE  SessionStep /\ UNCHANGED <<bound, adapter, view, reader>>
  <2>1. UNCHANGED <<bound, adapter, view, reader>>
    BY <1>3 DEF SdkEvent
  <2> QED
    BY <1>3, <2>1 DEF SessionStep
<1>4. ASSUME NEW p \in prompting, PromptEnds(p) \/ PromptFails(p),
             UNCHANGED <<bound, adapter, creating, sent>>, UNCHANGED client
      PROVE  SessionStep /\ UNCHANGED <<bound, adapter, view, reader>>
  <2>1. UNCHANGED <<bound, adapter, view, reader, sent>>
    BY <1>4 DEF PromptEnds, PromptFails
  <2> QED
    BY <1>4, <2>1 DEF SessionStep
<1>5. ASSUME NEW c \in Call, ApiCreate(c), UNCHANGED client
      PROVE  SessionStep /\ UNCHANGED <<bound, adapter, view, reader>>
  BY <1>5 DEF ApiCreate, SessionStep
<1>6. ASSUME NEW s \in Session, ApiPrompt(s), UNCHANGED client
      PROVE  SessionStep /\ UNCHANGED <<bound, adapter, view, reader>>
  BY <1>6 DEF ApiPrompt, SessionStep
<1>7. ASSUME Read, UNCHANGED client
      PROVE  SessionStep /\ UNCHANGED <<bound, adapter, view, log>>
  BY <1>7 DEF Read, SessionStep
<1>8. ASSUME OpenStream \/ Poll \/ Deliver \/ Drop \/ Answered
      PROVE  SessionStep /\ UNCHANGED <<bound, adapter, view, reader>>
  BY <1>8 DEF OpenStream, Poll, Deliver, Drop, Answered, SessionStep
<1>9. ASSUME NEW s \in Session, Load(s)
      PROVE  SessionStep /\ UNCHANGED <<bound, adapter, view, reader>>
  BY <1>9 DEF Load, SessionStep
<1>10. ASSUME NEW answer \in loads, Loaded(answer)
       PROVE  SessionStep /\ UNCHANGED <<bound, adapter, view, reader>>
  BY <1>10 DEF Loaded, SessionStep
<1>11. ASSUME NEW c \in Call, PanelCreate(c) \/ PanelCreated(c)
       PROVE  SessionStep /\ UNCHANGED <<bound, adapter, view, reader>>
  BY <1>11 DEF PanelCreate, PanelCreated, SessionStep
<1>12. ASSUME PanelPrompt
       PROVE  SessionStep /\ UNCHANGED <<bound, adapter, view, reader>>
  <2>1. selected \in Session /\ SendPrompt(selected)
    BY <1>12 DEF PanelPrompt, PiInv, ViewOK, SessionOrNone
  <2> QED
    BY <1>12, <2>1 DEF PanelPrompt, SessionStep
<1>13. ASSUME NEW c \in Call, Compose(c) \/ CreateRefused(c)
       PROVE  SessionStep /\ UNCHANGED <<bound, adapter, view, reader>>
  BY <1>13 DEF Compose, CreateRefused, SessionStep
<1>14. ASSUME NEW c \in Call, SeedSession(c)
       PROVE  SessionStep /\ UNCHANGED <<bound, adapter, view, reader>>
  <2>1. Requested(c) \in Session /\ SendPrompt(Requested(c))
    BY <1>14 DEF SeedSession, PiInv, CreatingOK, Requested
  <2> QED
    BY <1>14, <2>1 DEF SeedSession, SessionStep
<1>15. ASSUME FollowUp
       PROVE  SessionStep /\ UNCHANGED <<bound, adapter, view, reader>>
  <2>1. selected \in Session /\ SendPrompt(selected)
    BY <1>15 DEF FollowUp, PiInv, ViewOK, SessionOrNone
  <2> QED
    BY <1>15, <2>1 DEF FollowUp, SessionStep
<1>16. ASSUME UNCHANGED consoleVars
       PROVE  SessionStep /\ UNCHANGED <<bound, adapter, view, reader>>
  BY <1>16 DEF consoleVars, SessionStep
<1>17. ASSUME Adapter, UNCHANGED client
       PROVE  SessionStep /\ UNCHANGED <<bound, adapter, view, reader>>
  BY <1>1, <1>2, <1>3, <1>4, <1>17 DEF Adapter
<1>18. ASSUME OtherClients, UNCHANGED client
       PROVE  /\ SessionStep /\ UNCHANGED <<bound, adapter, view>>
              /\ UNCHANGED reader \/ (Read /\ UNCHANGED log)
  BY <1>5, <1>6, <1>7, <1>18 DEF OtherClients
<1> QED
  BY <1>8, <1>9, <1>10, <1>11, <1>12, <1>13, <1>14, <1>15, <1>16, <1>17, <1>18
     DEF ConsoleNext

-----------------------------------------------------------------------------
(* Logs.                                                                   *)

\* Every step leaves a log alone or appends to it what appendEvent makes: one
\* event, or the prompt and the answer of the fake adapter.
LogStep(s) ==
    \/ log'[s] = log[s]
    \/ \E kind \in EventKind : log'[s] = With(s, kind)
    \/ \E p, a \in Event :
          /\ p = Stamp(s, "prompt")
          /\ a = [kind |-> "answer", sequence |-> Len(log[s]) + 2]
          /\ log'[s] = Append(Append(log[s], p), a)

LEMMA WithIsEvents ==
    ASSUME LogOK, NEW s \in Session, NEW kind \in EventKind
    PROVE  /\ Stamp(s, kind) \in Event /\ Stamp(s, kind).kind = kind
           /\ With(s, kind) \in Seq(Event) /\ Numbered(With(s, kind))
           /\ Len(With(s, kind)) = Len(log[s]) + 1
           /\ \A i \in 1..Len(log[s]) : With(s, kind)[i] = log[s][i]
           /\ With(s, kind)[Len(log[s]) + 1] = Stamp(s, kind)
<1>1. log[s] \in Seq(Event) /\ Len(log[s]) \in Nat /\ Numbered(log[s])
  BY DEF LogOK
<1>2. /\ Stamp(s, kind) \in Event /\ Stamp(s, kind).kind = kind
      /\ Stamp(s, kind).sequence = Len(log[s]) + 1
  BY <1>1 DEF Stamp, Event
<1>3. /\ With(s, kind) \in Seq(Event)
      /\ Len(With(s, kind)) = Len(log[s]) + 1
      /\ \A i \in 1..Len(log[s]) : With(s, kind)[i] = log[s][i]
      /\ With(s, kind)[Len(log[s]) + 1] = Stamp(s, kind)
  BY <1>1, <1>2 DEF With
<1>4. Numbered(With(s, kind))
  BY <1>1, <1>2, <1>3 DEF Numbered
<1> QED
  BY <1>2, <1>3, <1>4

LEMMA SessionStepLogs ==
    ASSUME PiInv, SessionStep
    PROVE  /\ log' = [s \in Session |-> log'[s]]
           /\ \A s \in Session : LogStep(s)
<1>1. log = [s \in Session |-> log[s]]
  BY DEF PiInv, LogOK
<1>2. CASE UNCHANGED log
  BY <1>1, <1>2 DEF LogStep
<1>3. ASSUME NEW s \in Session, NEW kind \in EventKind,
             log' = [log EXCEPT ![s] = With(s, kind)]
      PROVE  /\ log' = [t \in Session |-> log'[t]]
             /\ \A t \in Session : LogStep(t)
  <2>1. /\ log' = [t \in Session |-> log'[t]] /\ log'[s] = With(s, kind)
        /\ \A t \in Session \ {s} : log'[t] = log[t]
    BY <1>1, <1>3
  <2> QED
    BY <2>1 DEF LogStep
<1>4. ASSUME NEW s \in Session, FakeTurn(s)
      PROVE  /\ log' = [t \in Session |-> log'[t]]
             /\ \A t \in Session : LogStep(t)
  <2> DEFINE a == [kind |-> "answer", sequence |-> Len(log[s]) + 2]
  <2>1. /\ log' = [t \in Session |-> log'[t]] /\ log'[s] = With(s, "prompt") \o <<a>>
        /\ \A t \in Session \ {s} : log'[t] = log[t]
    BY <1>1, <1>4 DEF FakeTurn
  <2>2. /\ "prompt" \in EventKind /\ LogOK
        /\ log[s] \in Seq(Event) /\ Len(log[s]) \in Nat
    BY DEF EventKind, PiInv, LogOK
  <2>3. Stamp(s, "prompt") \in Event /\ With(s, "prompt") \in Seq(Event)
    BY <2>2, WithIsEvents
  <2>4. a \in Event
    BY <2>2 DEF Event, EventKind
  <2> HIDE DEF a
  <2>5. With(s, "prompt") \o <<a>> = Append(With(s, "prompt"), a)
    BY <2>3, <2>4
  <2>6. log'[s] = Append(Append(log[s], Stamp(s, "prompt")), a)
    BY <2>1, <2>5 DEF With
  <2>7. LogStep(s)
    BY <2>3, <2>4, <2>6 DEF LogStep, a
  <2> QED
    BY <2>1, <2>7 DEF LogStep
<1>5. ASSUME NEW s \in Session, SendPrompt(s)
      PROVE  /\ log' = [t \in Session |-> log'[t]]
             /\ \A t \in Session : LogStep(t)
  BY <1>3, <1>4, <1>5, "prompt" \in EventKind DEF SendPrompt, RealTurn, EventKind
<1>6. ASSUME NEW s \in Session, SdkEvent(s)
      PROVE  /\ log' = [t \in Session |-> log'[t]]
             /\ \A t \in Session : LogStep(t)
  <2>1. bound.kinds \subseteq EventKind
    BY PiAssumption DEF PiInv, EventKind
  <2> QED
    BY <1>3, <1>6, <2>1 DEF SdkEvent
<1>7. ASSUME NEW p \in prompting, PromptEnds(p) \/ PromptFails(p)
      PROVE  /\ log' = [t \in Session |-> log'[t]]
             /\ \A t \in Session : LogStep(t)
  <2>1. p.session \in Session /\ "error" \in EventKind
    BY DEF PiInv, PromptingOK, EventKind
  <2>2. CASE PromptEnds(p)
    BY <1>2, <2>2 DEF PromptEnds
  <2>3. CASE PromptFails(p)
    BY <1>3, <2>1, <2>3 DEF PromptFails
  <2> QED
    BY <1>7, <2>2, <2>3
<1>8. "created" \in EventKind
  BY DEF EventKind
<1> QED
  BY <1>2, <1>3, <1>5, <1>6, <1>7, <1>8 DEF SessionStep

\* A log keeps what it has, stays numbered, and its messages stay.
LEMMA LogStepGrows ==
    ASSUME LogOK, NEW s \in Session, LogStep(s)
    PROVE  /\ log'[s] \in Seq(Event) /\ Numbered(log'[s])
           /\ Len(log[s]) <= Len(log'[s])
           /\ \A i \in 1..Len(log[s]) : log'[s][i] = log[s][i]
           /\ Continues(Messages(log'[s]), Messages(log[s]))
<1>1. log[s] \in Seq(Event) /\ Len(log[s]) \in Nat /\ Numbered(log[s])
  BY DEF LogOK
<1>2. CASE log'[s] = log[s]
  <2>1. Messages(log[s]) \in Seq(Shown)
    BY <1>1, MessagesShown, MessagesType
  <2>2. Continues(Messages(log[s]), Messages(log[s]))
    BY <2>1, ContinuesItself
  <2> QED
    BY <1>1, <1>2, <2>2
<1>3. ASSUME NEW kind \in EventKind, log'[s] = With(s, kind)
      PROVE  /\ log'[s] \in Seq(Event) /\ Numbered(log'[s])
             /\ Len(log[s]) <= Len(log'[s])
             /\ \A i \in 1..Len(log[s]) : log'[s][i] = log[s][i]
             /\ Continues(Messages(log'[s]), Messages(log[s]))
  <2>1. /\ Stamp(s, kind) \in Event
        /\ With(s, kind) \in Seq(Event) /\ Numbered(With(s, kind))
        /\ Len(With(s, kind)) = Len(log[s]) + 1
        /\ \A i \in 1..Len(log[s]) : With(s, kind)[i] = log[s][i]
    BY WithIsEvents
  <2>2. /\ Messages(log[s]) \in Seq(Shown)
        /\ Messages(With(s, kind)) = AddMessage(Messages(log[s]), Stamp(s, kind))
    BY <1>1, <2>1, MessagesAppend DEF With
  <2>3. Continues(Messages(With(s, kind)), Messages(log[s]))
    BY <2>1, <2>2, AddMessageGrows
  <2> QED
    BY <1>1, <1>3, <2>1, <2>3
<1>4. ASSUME NEW p \in Event, NEW a \in Event, p = Stamp(s, "prompt"),
             a = [kind |-> "answer", sequence |-> Len(log[s]) + 2],
             log'[s] = Append(Append(log[s], p), a)
      PROVE  /\ log'[s] \in Seq(Event) /\ Numbered(log'[s])
             /\ Len(log[s]) <= Len(log'[s])
             /\ \A i \in 1..Len(log[s]) : log'[s][i] = log[s][i]
             /\ Continues(Messages(log'[s]), Messages(log[s]))
  <2> DEFINE one == Append(log[s], p)
  <2>1. /\ one \in Seq(Event) /\ Numbered(one) /\ Len(one) = Len(log[s]) + 1
        /\ \A i \in 1..Len(log[s]) : one[i] = log[s][i]
    <3>1. "prompt" \in EventKind
      BY DEF EventKind
    <3> QED
      BY <1>4, <3>1, WithIsEvents DEF With
  <2>2. /\ Messages(log[s]) \in Seq(Shown) /\ Messages(one) \in Seq(Shown)
        /\ Messages(one) = AddMessage(Messages(log[s]), p)
        /\ Messages(Append(one, a)) = AddMessage(Messages(one), a)
    BY <1>1, <2>1, MessagesAppend
  <2>3. p.kind = "prompt" /\ a.kind = "answer" /\ a.sequence = Len(log[s]) + 2
    BY <1>4 DEF Stamp
  <2>4. Continues(Messages(Append(one, a)), Messages(log[s]))
    BY <2>2, <2>3, TurnGrows
  <2>5. log'[s] = Append(one, a)
    BY <1>4
  <2> HIDE DEF one
  <2>6. /\ Append(one, a) \in Seq(Event) /\ Len(Append(one, a)) = Len(log[s]) + 2
        /\ \A i \in 1..(Len(log[s]) + 1) : Append(one, a)[i] = one[i]
        /\ Append(one, a)[Len(log[s]) + 2] = a
    BY <1>1, <2>1
  <2>7. Numbered(Append(one, a))
    BY <1>1, <2>1, <2>3, <2>6 DEF Numbered
  <2>8. \A i \in 1..Len(log[s]) : Append(one, a)[i] = log[s][i]
    BY <1>1, <2>1, <2>6
  <2> QED
    BY <1>1, <2>4, <2>5, <2>6, <2>7, <2>8
<1> QED
  BY <1>2, <1>3, <1>4 DEF LogStep

LEMMA LogsKept ==
    ASSUME PiInv, SessionStep
    PROVE  /\ LogOK'
           /\ \A s \in Session : /\ Len(log[s]) <= Len(log'[s])
                                 /\ \A i \in 1..Len(log[s]) : log'[s][i] = log[s][i]
<1>1. log' = [s \in Session |-> log'[s]] /\ \A s \in Session : LogStep(s)
  BY SessionStepLogs
<1>2. LogOK
  BY DEF PiInv
<1>3. \A s \in Session : /\ log'[s] \in Seq(Event) /\ Numbered(log'[s])
                         /\ Len(log[s]) <= Len(log'[s])
                         /\ \A i \in 1..Len(log[s]) : log'[s][i] = log[s][i]
  BY <1>1, <1>2, LogStepGrows
<1>4. log' \in [Session -> Seq(Event)]
  BY <1>1, <1>3
<1>5. \A s \in Session : Numbered(log'[s])
  BY <1>3
<1> QED
  BY <1>3, <1>4, <1>5 DEF LogOK

-----------------------------------------------------------------------------
(* The status of a session, and the prompts that are worked on.            *)

LEMMA PromptedIsInLog ==
    ASSUME PiInv, NEW s \in Session, RealTurn(s)
    PROVE  LET p == [session |-> s, before |-> Len(log[s])] IN
           /\ p \in [session : Session, before : Nat]
           /\ p.before < Len(log'[s]) /\ log'[s][p.before + 1].kind = "prompt"
<1>1. LogOK /\ log \in [Session -> Seq(Event)] /\ "prompt" \in EventKind
  BY DEF PiInv, LogOK, EventKind
<1>2. /\ Len(With(s, "prompt")) = Len(log[s]) + 1 /\ Len(log[s]) \in Nat
      /\ With(s, "prompt")[Len(log[s]) + 1] = Stamp(s, "prompt")
      /\ Stamp(s, "prompt").kind = "prompt"
  BY <1>1, WithIsEvents
<1>3. log'[s] = With(s, "prompt")
  BY <1>1 DEF RealTurn
<1> QED
  BY <1>2, <1>3

LEMMA SessionStepInv ==
    ASSUME PiInv, SessionStep, UNCHANGED bound
    PROVE  /\ (status \in [Session -> Status])'
           /\ PromptingOK'
           /\ RunningIsPrompted'
           /\ (sent \in 0..bound.prompts)'
           /\ \A s \in Session : Exists(s) => Exists(s)'
<1>1. /\ status \in [Session -> Status] /\ RunningIsPrompted
      /\ sent \in 0..bound.prompts /\ bound.prompts \in Nat
  BY PiAssumption DEF PiInv
<1>2. /\ prompting \subseteq [session : Session, before : Nat]
      /\ \A p \in prompting : /\ p.session \in Session /\ p.before \in Nat
                              /\ p.before < Len(log[p.session])
                              /\ log[p.session][p.before + 1].kind = "prompt"
  BY DEF PiInv, PromptingOK
<1>3. \A s \in Session : /\ Len(log[s]) \in Nat /\ Len(log'[s]) \in Nat
                         /\ Len(log[s]) <= Len(log'[s])
                         /\ \A i \in 1..Len(log[s]) : log'[s][i] = log[s][i]
  BY LogsKept DEF PiInv, LogOK
<1>4. \A p \in prompting : /\ p.before < Len(log'[p.session])
                           /\ log'[p.session][p.before + 1].kind = "prompt"
  <2> SUFFICES ASSUME NEW p \in prompting
               PROVE  /\ p.before < Len(log'[p.session])
                      /\ log'[p.session][p.before + 1].kind = "prompt"
    OBVIOUS
  <2>1. p.before + 1 \in 1..Len(log[p.session])
    BY <1>2, <1>3
  <2> QED
    BY <1>2, <1>3, <2>1
<1>5. CASE UNCHANGED <<log, status, prompting, sent>>
  BY <1>1, <1>2, <1>5 DEF PromptingOK, RunningIsPrompted, Exists
<1>6. ASSUME NEW s \in Session, ~Exists(s), status' = [status EXCEPT ![s] = "idle"],
             UNCHANGED <<prompting, sent>>
      PROVE  /\ (status \in [Session -> Status])'
             /\ PromptingOK'
             /\ RunningIsPrompted'
             /\ (sent \in 0..bound.prompts)'
             /\ \A t \in Session : Exists(t) => Exists(t)'
  <2>1. PromptingOK' /\ (sent \in 0..bound.prompts)'
    BY <1>1, <1>2, <1>4, <1>6 DEF PromptingOK
  <2> QED
    BY <1>1, <1>6, <2>1 DEF RunningIsPrompted, Exists, Status
<1>7. ASSUME NEW s \in Session, SendPrompt(s)
      PROVE  /\ (status \in [Session -> Status])'
             /\ PromptingOK'
             /\ RunningIsPrompted'
             /\ (sent \in 0..bound.prompts)'
             /\ \A t \in Session : Exists(t) => Exists(t)'
  <2>1. (sent \in 0..bound.prompts)'
    BY <1>1, <1>7 DEF SendPrompt
  <2>2. CASE FakeTurn(s)
    <3>1. PromptingOK'
      BY <1>2, <1>4, <2>2 DEF FakeTurn, PromptingOK
    <3> QED
      BY <1>1, <2>1, <2>2, <3>1 DEF FakeTurn, RunningIsPrompted, Exists, Status
  <2>3. CASE RealTurn(s)
    <3> DEFINE p == [session |-> s, before |-> Len(log[s])]
    <3>1. /\ p \in [session : Session, before : Nat] /\ p.session = s
          /\ p.before < Len(log'[s]) /\ log'[s][p.before + 1].kind = "prompt"
      BY <2>3, PromptedIsInLog
    <3>2. prompting' = prompting \cup {p} /\ status' = [status EXCEPT ![s] = "running"]
      BY <2>3 DEF RealTurn
    <3> HIDE DEF p
    <3>3. PromptingOK'
      BY <1>2, <1>4, <3>1, <3>2 DEF PromptingOK
    <3>4. RunningIsPrompted'
      BY <1>1, <3>1, <3>2 DEF RunningIsPrompted
    <3> QED
      BY <1>1, <2>1, <3>2, <3>3, <3>4 DEF Exists, Status
  <2> QED
    BY <1>7, <2>2, <2>3 DEF SendPrompt
<1>8. ASSUME NEW s \in Session, SdkEvent(s)
      PROVE  /\ (status \in [Session -> Status])'
             /\ PromptingOK'
             /\ RunningIsPrompted'
             /\ (sent \in 0..bound.prompts)'
             /\ \A t \in Session : Exists(t) => Exists(t)'
  <2>1. UNCHANGED <<status, prompting, sent>>
    BY <1>8 DEF SdkEvent
  <2> QED
    BY <1>1, <1>2, <1>4, <2>1 DEF PromptingOK, RunningIsPrompted, Exists
<1>9. ASSUME NEW p \in prompting, PromptEnds(p) \/ PromptFails(p), UNCHANGED sent
      PROVE  /\ (status \in [Session -> Status])'
             /\ PromptingOK'
             /\ RunningIsPrompted'
             /\ (sent \in 0..bound.prompts)'
             /\ \A t \in Session : Exists(t) => Exists(t)'
  <2>1. p.session \in Session /\ prompting' = prompting \ {p}
    BY <1>2, <1>9 DEF PromptEnds, PromptFails
  <2>2. PICK ended \in {"done", "error"} : status' = [status EXCEPT ![p.session] = ended]
    BY <1>9 DEF PromptEnds, PromptFails
  <2>3. PromptingOK'
    BY <1>2, <1>4, <2>1 DEF PromptingOK
  <2>4. ASSUME NEW s \in Session, status'[s] = "running"
        PROVE  \E q \in prompting' : q.session = s
    <3>1. s # p.session /\ status[s] = "running"
      BY <1>1, <2>1, <2>2, <2>4
    <3>2. PICK q \in prompting : q.session = s
      BY <1>1, <3>1 DEF RunningIsPrompted
    <3> QED
      BY <2>1, <3>1, <3>2
  <2> QED
    BY <1>1, <1>9, <2>1, <2>2, <2>3, <2>4 DEF RunningIsPrompted, Exists, Status
<1> QED
  BY <1>5, <1>6, <1>7, <1>8, <1>9 DEF SessionStep

-----------------------------------------------------------------------------
(* The reader of a log.                                                    *)

LEMMA LogGrowsUnderReader ==
    ASSUME PiInv, SessionStep, UNCHANGED reader
    PROVE  ReaderOK'
<1>1. /\ reader \in [of : Session, got : Seq(Event)]
      /\ Len(reader.got) <= Len(log[reader.of])
      /\ \A i \in 1..Len(reader.got) : reader.got[i] = log[reader.of][i]
  BY DEF PiInv, ReaderOK
<1>2. reader.of \in Session /\ Len(reader.got) \in Nat
  BY <1>1
<1>3. /\ Len(log[reader.of]) \in Nat /\ Len(log'[reader.of]) \in Nat
      /\ Len(log[reader.of]) <= Len(log'[reader.of])
      /\ \A i \in 1..Len(log[reader.of]) : log'[reader.of][i] = log[reader.of][i]
  BY <1>2, LogsKept DEF PiInv, LogOK
<1>4. Len(reader.got) <= Len(log'[reader.of])
  BY <1>1, <1>2, <1>3
<1>5. \A i \in 1..Len(reader.got) : reader.got[i] = log'[reader.of][i]
  BY <1>1, <1>2, <1>3
<1> QED
  BY <1>1, <1>4, <1>5 DEF ReaderOK

\* The number of the last event it has is how many it has.
LEMMA ReadInv ==
    ASSUME PiInv, Read, UNCHANGED log
    PROVE  ReaderOK'
<1> DEFINE s == reader.of
           got == reader.got
           k == Len(reader.got)
           rest == ListEvents(s, LastRead)
<1>1. /\ reader \in [of : Session, got : Seq(Event)] /\ k <= Len(log[s])
      /\ \A i \in 1..k : got[i] = log[s][i]
  BY DEF PiInv, ReaderOK
<1>2. /\ s \in Session /\ got \in Seq(Event) /\ k \in Nat
      /\ log[s] \in Seq(Event) /\ Len(log[s]) \in Nat /\ Numbered(log[s])
  BY <1>1 DEF PiInv, LogOK
<1>3. LastRead = k
  <2>1. CASE got = <<>>
    BY <2>1 DEF LastRead
  <2>2. CASE got # <<>>
    <3>1. k \in 1..k /\ k \in 1..Len(log[s])
      BY <1>1, <1>2, <2>2
    <3>2. got[k].sequence = k
      BY <1>1, <1>2, <3>1 DEF Numbered
    <3> QED
      BY <2>2, <3>2 DEF LastRead
  <2> QED
    BY <2>1, <2>2
<1>4. /\ rest \in Seq(Event) /\ Len(rest) = Len(log[s]) - k
      /\ \A i \in 1..(Len(log[s]) - k) : rest[i] = log[s][k + i]
  <2>1. k \in 0..Len(log[s])
    BY <1>1, <1>2
  <2> QED
    BY <1>2, <1>3, <2>1, ListEventsRest
<1>5. reader' = [of |-> s, got |-> got \o rest]
  BY <1>1 DEF Read
<1> HIDE DEF s, got, k, rest
<1>6. /\ got \o rest \in Seq(Event) /\ Len(got \o rest) = Len(got) + Len(rest)
      /\ \A i \in 1..(Len(got) + Len(rest)) :
            (got \o rest)[i] = IF i <= Len(got) THEN got[i] ELSE rest[i - Len(got)]
  BY <1>2, <1>4, ConcatProperties
<1>7. Len(got) = k /\ k + (Len(log[s]) - k) = Len(log[s])
  BY <1>2 DEF got, k
<1>8. ASSUME NEW i \in 1..Len(log[s])
      PROVE  (got \o rest)[i] = log[s][i]
  <2>1. CASE i <= k
    BY <1>1, <1>2, <1>4, <1>6, <1>7, <2>1
  <2>2. CASE ~(i <= k)
    <3>1. i - k \in 1..(Len(log[s]) - k) /\ k + (i - k) = i
      BY <1>2, <2>2
    <3>2. rest[i - k] = log[s][i]
      BY <1>4, <3>1
    <3> QED
      BY <1>4, <1>6, <1>7, <2>2, <3>2
  <2> QED
    BY <2>1, <2>2
<1>9. Len(got \o rest) = Len(log[s])
  BY <1>4, <1>6, <1>7
<1> QED
  BY <1>2, <1>5, <1>6, <1>8, <1>9 DEF ReaderOK

-----------------------------------------------------------------------------
(* Creates.                                                                *)

\* A create moves on without a session of its own.
LEMMA StageInv ==
    ASSUME CreatingOK, \A s \in Session : Exists(s) => Exists(s)',
           NEW c \in Call, NEW stage \in Stages \ {"created"}, Stage(c, stage)
    PROVE  CreatingOK'
<1>1. /\ creating' \in [Call -> [stage : Stages, id : SessionOrNone,
                                 from : {"api", "view", "past"}]]
      /\ creating'[c].stage = stage
      /\ \A d \in Call : /\ creating'[d].id = creating[d].id
                         /\ creating'[d].from = creating[d].from
      /\ \A d \in Call \ {c} : creating'[d].stage = creating[d].stage
  BY DEF CreatingOK, Stage
<1>2. \A d \in Call : creating'[d].stage = "created" => creating'[d].id \in Session
  BY <1>1 DEF CreatingOK
<1>3. \A d \in Call : Mine(d)' <=> Mine(d)
  BY <1>1 DEF Mine
<1>4. \A d \in Call : Mine(d) => creating[d].id \in Session
  BY DEF Mine, CreatingOK, SessionOrNone
<1>5. (\A d \in Call : Mine(d) => Exists(creating[d].id))'
  BY <1>1, <1>3, <1>4 DEF CreatingOK, Exists
<1>6. (\A d, e \in Call :
          Mine(d) /\ Mine(e) /\ creating[d].id = creating[e].id => d = e)'
  BY <1>1, <1>3 DEF CreatingOK
<1> QED
  BY <1>1, <1>2, <1>5, <1>6 DEF CreatingOK

\* The calls that belong to the view, and their sessions, stay the same.
LEMMA CreatingKept ==
    ASSUME CreatingOK, \A s \in Session : Exists(s) => Exists(s)',
           creating' \in [Call -> [stage : Stages, id : SessionOrNone,
                                   from : {"api", "view", "past"}]],
           \A d \in Call : Mine(d)' => Mine(d) /\ creating'[d].id = creating[d].id,
           \A d \in Call : creating'[d].stage = "created" =>
                              creating[d].stage = "created"
                              /\ creating'[d].id = creating[d].id
    PROVE  CreatingOK'
<1>1. \A d \in Call : creating'[d].stage = "created" => creating'[d].id \in Session
  BY DEF CreatingOK
<1>2. \A d \in Call : Mine(d) => creating[d].id \in Session
  BY DEF Mine, CreatingOK, SessionOrNone
<1>3. (\A d \in Call : Mine(d) => Exists(creating[d].id))'
  BY <1>2 DEF CreatingOK, Exists
<1>4. (\A d, e \in Call :
          Mine(d) /\ Mine(e) /\ creating[d].id = creating[e].id => d = e)'
  BY DEF CreatingOK
<1> QED
  BY <1>1, <1>3, <1>4 DEF CreatingOK

LEMMA StartCreateInv ==
    ASSUME CreatingOK, \A s \in Session : Exists(s) => Exists(s)',
           NEW c \in Call, NEW id \in SessionOrNone, NEW from \in {"api", "view"},
           from = "view" => id = NoSession, StartCreate(c, id, from)
    PROVE  CreatingOK'
<1>1. creating' = [creating EXCEPT ![c] = [stage |-> "loading", id |-> id, from |-> from]]
  BY DEF StartCreate
<1>2. /\ creating' \in [Call -> [stage : Stages, id : SessionOrNone,
                                 from : {"api", "view", "past"}]]
      /\ creating'[c] = [stage |-> "loading", id |-> id, from |-> from]
      /\ \A d \in Call \ {c} : creating'[d] = creating[d]
  BY <1>1 DEF CreatingOK, Stages
<1>3. \A d \in Call : Mine(d)' => Mine(d) /\ creating'[d].id = creating[d].id
  BY <1>2 DEF Mine
<1>4. \A d \in Call : creating'[d].stage = "created" =>
          creating[d].stage = "created" /\ creating'[d].id = creating[d].id
  BY <1>2
<1> QED
  BY <1>2, <1>3, <1>4, CreatingKept

\* Nobody has the session yet that is entered: it did not exist.
LEMMA EnterInv ==
    ASSUME CreatingOK, status \in [Session -> Status],
           NEW c \in Call, NEW s \in Session, ~Exists(s), Enter(c, s)
    PROVE  CreatingOK'
<1>1. /\ creating' \in [Call -> [stage : Stages, id : SessionOrNone,
                                 from : {"api", "view", "past"}]]
      /\ creating'[c].stage = "created" /\ creating'[c].id = s
      /\ creating'[c].from = creating[c].from
      /\ \A d \in Call \ {c} : creating'[d] = creating[d]
  <2>1. PICK stage \in Stages, id \in SessionOrNone, from \in {"api", "view", "past"} :
           creating[c] = [stage |-> stage, id |-> id, from |-> from]
    BY DEF CreatingOK
  <2>2. creating' = [creating EXCEPT ![c] = [stage |-> "created", id |-> s, from |-> from]]
    BY <2>1 DEF Enter, CreatingOK
  <2> QED
    BY <2>1, <2>2 DEF CreatingOK, Stages, SessionOrNone
<1>2. \A t \in Session : Exists(t)' <=> Exists(t) \/ t = s
  BY DEF Enter, Exists
<1>3. \A d \in Call : Mine(d) => creating[d].id \in Session \ {s}
  BY DEF Mine, CreatingOK, SessionOrNone
<1>4. \A d \in Call \ {c} : Mine(d)' <=> Mine(d)
  BY <1>1 DEF Mine
<1>5. \A d \in Call : creating'[d].stage = "created" => creating'[d].id \in Session
  BY <1>1 DEF CreatingOK
<1>6. (\A d \in Call : Mine(d) => Exists(creating[d].id))'
  <2> SUFFICES ASSUME NEW d \in Call, Mine(d)' PROVE Exists(creating[d].id)'
    OBVIOUS
  <2>1. CASE d = c
    BY <1>1, <2>1 DEF Enter, Exists
  <2>2. CASE d # c
    <3>1. Mine(d) /\ creating'[d] = creating[d]
      BY <1>1, <1>4, <2>2
    <3>2. Exists(creating[d].id) /\ creating[d].id \in Session
      BY <1>3, <3>1 DEF CreatingOK
    <3> QED
      BY <1>2, <3>1, <3>2 DEF Exists
  <2> QED
    BY <2>1, <2>2
<1>7. (\A d, e \in Call :
          Mine(d) /\ Mine(e) /\ creating[d].id = creating[e].id => d = e)'
  <2> SUFFICES ASSUME NEW d \in Call, NEW e \in Call, Mine(d)', Mine(e)',
                      creating'[d].id = creating'[e].id
               PROVE  d = e
    OBVIOUS
  <2>1. CASE d # c /\ e # c
    BY <1>1, <1>4, <2>1 DEF CreatingOK
  <2>2. CASE d = c \/ e = c
    BY <1>1, <1>3, <1>4, <2>2
  <2> QED
    BY <2>1, <2>2
<1> QED
  BY <1>1, <1>5, <1>6, <1>7 DEF CreatingOK

\* The effect of the composer starts a create, and what it waited for is past.
LEMMA ComposeInv ==
    ASSUME CreatingOK, \A s \in Session : Exists(s) => Exists(s)',
           NEW c \in Call, Compose(c)
    PROVE  CreatingOK'
<1>1. creating' = [d \in Call |->
          IF d = c THEN [stage |-> "loading", id |-> NoSession, from |-> "view"]
          ELSE IF creating[d].from = "view"
               THEN [creating[d] EXCEPT !.from = "past"] ELSE creating[d]]
  BY DEF Compose
<1>2. ASSUME NEW d \in Call
      PROVE  /\ creating'[d] \in [stage : Stages, id : SessionOrNone,
                                  from : {"api", "view", "past"}]
             /\ Mine(d)' => Mine(d) /\ creating'[d].id = creating[d].id
             /\ creating'[d].stage = "created" =>
                   creating[d].stage = "created" /\ creating'[d].id = creating[d].id
  <2>1. PICK stage \in Stages, id \in SessionOrNone, from \in {"api", "view", "past"} :
           creating[d] = [stage |-> stage, id |-> id, from |-> from]
    BY DEF CreatingOK
  <2>2. CASE d = c
    BY <1>1, <2>2 DEF Mine, Stages, SessionOrNone
  <2>3. CASE d # c /\ creating[d].from = "view"
    <3>1. creating'[d] = [stage |-> stage, id |-> id, from |-> "past"]
      BY <1>1, <2>1, <2>3
    <3> QED
      BY <2>1, <2>3, <3>1 DEF Mine
  <2>4. CASE d # c /\ creating[d].from # "view"
    <3>1. creating'[d] = creating[d]
      BY <1>1, <2>4
    <3> QED
      BY <2>1, <3>1 DEF Mine
  <2> QED
    BY <2>2, <2>3, <2>4
<1>3. creating' \in [Call -> [stage : Stages, id : SessionOrNone,
                              from : {"api", "view", "past"}]]
  BY <1>1, <1>2
<1> QED
  BY <1>2, <1>3, CreatingKept

LEMMA CreatingInv ==
    ASSUME PiInv, [ConsoleNext]_consoleVars
    PROVE  CreatingOK'
<1> USE DEF piVars, server, client
<1>1. CreatingOK /\ status \in [Session -> Status]
  BY DEF PiInv
<1>2. \A s \in Session : Exists(s) => Exists(s)'
  BY StepOfSessions, SessionStepInv
<1>3. CASE UNCHANGED creating
  BY <1>1, <1>2, <1>3, CreatingKept DEF CreatingOK, Mine
<1>4. {"resolved", "refused", "told"} \subseteq Stages \ {"created"}
  BY DEF Stages
<1>5. ASSUME NEW c \in Call, Resolve(c) PROVE CreatingOK'
  BY <1>1, <1>2, <1>4, <1>5, StageInv DEF Resolve
<1>6. ASSUME NEW c \in Call, Register(c) PROVE CreatingOK'
  BY <1>1, <1>2, <1>4, <1>6, IdsForSessions, StageInv, EnterInv DEF Register
<1>7. ASSUME NEW c \in Call, ApiCreate(c) PROVE CreatingOK'
  <2>1. bound.named \cup {NoSession} \subseteq SessionOrNone
    BY PiAssumption DEF PiInv, SessionOrNone
  <2> QED
    BY <1>1, <1>2, <1>7, <2>1, StartCreateInv DEF ApiCreate
<1>8. ASSUME NEW c \in Call, PanelCreate(c) PROVE CreatingOK'
  BY <1>1, <1>2, <1>8, StartCreateInv DEF PanelCreate, SessionOrNone
<1>9. ASSUME NEW c \in Call, PanelCreated(c) \/ SeedSession(c) \/ CreateRefused(c)
      PROVE  CreatingOK'
  <2>1. Stage(c, "told")
    BY <1>9 DEF PanelCreated, SeedSession, CreateRefused
  <2> QED
    BY <1>1, <1>2, <1>4, <2>1, StageInv
<1>10. ASSUME NEW c \in Call, Compose(c) PROVE CreatingOK'
  BY <1>1, <1>2, <1>10, ComposeInv
<1>11. ASSUME Adapter PROVE CreatingOK'
  <2>1. ASSUME NEW s \in Session, SdkEvent(s) PROVE UNCHANGED creating
    BY <2>1 DEF SdkEvent
  <2> QED
    BY <1>3, <1>5, <1>6, <1>11, <2>1 DEF Adapter
<1>12. ASSUME OtherClients PROVE CreatingOK'
  <2>1. ASSUME NEW s \in Session, ApiPrompt(s) PROVE UNCHANGED creating
    BY <2>1 DEF ApiPrompt
  <2>2. Read => UNCHANGED creating
    BY DEF Read
  <2> QED
    BY <1>3, <1>7, <1>12, <2>1, <2>2 DEF OtherClients
<1>13. CASE OpenStream \/ Poll \/ Deliver \/ Drop \/ Answered \/ PanelPrompt \/ FollowUp
  BY <1>3, <1>13 DEF OpenStream, Poll, Deliver, Drop, Answered, PanelPrompt, FollowUp
<1>14. ASSUME NEW s \in Session, Load(s) PROVE CreatingOK'
  BY <1>3, <1>14 DEF Load
<1>15. ASSUME NEW answer \in loads, Loaded(answer) PROVE CreatingOK'
  BY <1>3, <1>15 DEF Loaded
<1>16. CASE UNCHANGED consoleVars
  BY <1>3, <1>16 DEF consoleVars
<1> QED
  BY <1>8, <1>9, <1>10, <1>11, <1>12, <1>13, <1>14, <1>15, <1>16 DEF ConsoleNext

-----------------------------------------------------------------------------
(* The view.                                                               *)

Streams == [of : SessionOrNone, last : Snapshots, wire : Seq(Snapshots)]
Composers == [node : Node, busy : BOOLEAN,
              seed : [session : SessionOrNone, before : Nat],
              follow : [session : SessionOrNone, before : Nat]]

LEMMA ViewParts ==
    ASSUME PiInv
    PROVE  /\ selected \in SessionOrNone /\ shown \in Snapshots /\ loads \subseteq Snapshots
           /\ view # "panel" => loads = {}
           /\ stream \in Streams /\ composer \in Composers
BY DEF PiInv, ViewOK, Streams, Composers

LEMMA ViewTypes ==
    ASSUME PiInv
    PROVE  /\ NoSnapshot \in Snapshots
           /\ \A s \in Session : Snapshot(s) \in Snapshots /\ Snapshot(s).id = s
           /\ \A s \in SessionOrNone : Stream(s) \in Streams
           /\ NoPrompt \in [session : SessionOrNone, before : Nat]
           /\ \A s \in Session : Prompted(s) \in [session : SessionOrNone, before : Nat]
<1>1. NoSnapshot \in Snapshots
  BY DEF NoSnapshot, Snapshots, SessionOrNone, Status
<1>2. \A s \in Session : Len(log[s]) \in Nat /\ status[s] \in Status
  BY DEF PiInv, LogOK
<1>3. \A s \in Session : Snapshot(s) \in Snapshots /\ Snapshot(s).id = s
  BY <1>2 DEF Snapshot, Snapshots, SessionOrNone
<1>4. <<>> \in Seq(Snapshots)
  OBVIOUS
<1>5. \A s \in SessionOrNone : Stream(s) \in Streams
  BY <1>1, <1>4 DEF Stream, Streams
<1>6. NoPrompt \in [session : SessionOrNone, before : Nat]
  BY DEF NoPrompt, SessionOrNone
<1>7. \A s \in Session : Prompted(s) \in [session : SessionOrNone, before : Nat]
  BY <1>2 DEF Prompted, SessionOrNone
<1> QED
  BY <1>1, <1>3, <1>5, <1>6, <1>7

LEMMA ViewKept ==
    ASSUME selected' \in SessionOrNone, shown' \in Snapshots, loads' \subseteq Snapshots,
           view' # "panel" => loads' = {},
           stream' \in Streams, composer' \in Composers
    PROVE  ViewOK'
<1>1. \E of \in SessionOrNone, last \in Snapshots, wire \in Seq(Snapshots) :
          stream' = [of |-> of, last |-> last, wire |-> wire]
  BY DEF Streams
<1> QED
  BY <1>1 DEF ViewOK, Composers

LEMMA PollInv ==
    ASSUME PiInv, Poll
    PROVE  stream' \in Streams
<1>1. PICK of \in SessionOrNone, last \in Snapshots, wire \in Seq(Snapshots) :
         stream = [of |-> of, last |-> last, wire |-> wire]
  BY DEF PiInv, ViewOK
<1>2. of \in Session
  BY <1>1 DEF Poll, SessionOrNone
<1> DEFINE now == Snapshot(of)
<1>3. now \in Snapshots /\ Append(wire, now) \in Seq(Snapshots)
  BY <1>2, ViewTypes
<1>4. stream' = [stream EXCEPT !.last = now, !.wire = Append(@, now)]
  BY <1>1 DEF Poll
<1> HIDE DEF now
<1>5. stream' = [of |-> of, last |-> now, wire |-> Append(wire, now)]
  BY <1>1, <1>4
<1> QED
  BY <1>3, <1>5 DEF Streams

LEMMA DeliverInv ==
    ASSUME PiInv, Deliver
    PROVE  stream' \in Streams /\ shown' \in Snapshots
<1>1. PICK of \in SessionOrNone, last \in Snapshots, wire \in Seq(Snapshots) :
         stream = [of |-> of, last |-> last, wire |-> wire]
  BY DEF PiInv, ViewOK
<1>2. wire # <<>> /\ shown' = Head(wire)
  BY <1>1 DEF Deliver
<1>3. Head(wire) \in Snapshots /\ Tail(wire) \in Seq(Snapshots)
  BY <1>2
<1>4. stream' = [of |-> of, last |-> last, wire |-> Tail(wire)]
  BY <1>1 DEF Deliver
<1> QED
  BY <1>2, <1>3, <1>4 DEF Streams

LEMMA DropInv ==
    ASSUME PiInv, OpenStream \/ Drop
    PROVE  stream' \in Streams
<1>1. PICK of \in SessionOrNone, last \in Snapshots, wire \in Seq(Snapshots) :
         stream = [of |-> of, last |-> last, wire |-> wire]
  BY DEF PiInv, ViewOK
<1>2. selected \in SessionOrNone /\ stream.of \in SessionOrNone
  BY <1>1 DEF PiInv, ViewOK
<1> QED
  BY <1>2, ViewTypes DEF OpenStream, Drop

\* Whatever the composer does, it composes for a node and has prompts.
LEMMA ComposerInv ==
    ASSUME PiInv,
           \/ \E c \in Call : Compose(c) \/ SeedSession(c) \/ CreateRefused(c)
           \/ FollowUp \/ Answered
    PROVE  composer' \in Composers
<1> DEFINE Prompts == [session : SessionOrNone, before : Nat]
<1>1. PICK node \in Node, busy \in BOOLEAN, seed \in Prompts, follow \in Prompts :
         composer = [node |-> node, busy |-> busy, seed |-> seed, follow |-> follow]
  BY DEF PiInv, ViewOK
<1>2. NoPrompt \in Prompts /\ \A s \in Session : Prompted(s) \in Prompts
  BY ViewTypes
<1> HIDE DEF Prompts
<1>3. \A n \in Node, b \in BOOLEAN, p \in Prompts, q \in Prompts :
         [node |-> n, busy |-> b, seed |-> p, follow |-> q] \in Composers
  BY DEF Composers, Prompts
<1>4. ASSUME NEW c \in Call, Compose(c) PROVE composer' \in Composers
  <2>1. PICK n \in Node :
           composer' = [composer EXCEPT !.node = n, !.busy = TRUE, !.seed = NoPrompt]
    BY <1>4 DEF Compose
  <2>2. composer' = [node |-> n, busy |-> TRUE, seed |-> NoPrompt, follow |-> follow]
    BY <1>1, <2>1
  <2> QED
    BY <1>2, <1>3, <2>2
<1>5. ASSUME NEW c \in Call, SeedSession(c) PROVE composer' \in Composers
  <2>1. Requested(c) \in Session
    BY <1>5 DEF SeedSession, PiInv, CreatingOK, Requested
  <2>2. composer' = [composer EXCEPT !.seed = Prompted(Requested(c))]
    BY <1>5 DEF SeedSession
  <2>3. composer' = [node |-> node, busy |-> busy, seed |-> Prompted(Requested(c)),
                     follow |-> follow]
    BY <1>1, <2>2
  <2> QED
    BY <1>2, <1>3, <2>1, <2>3
<1>6. ASSUME NEW c \in Call, CreateRefused(c) PROVE composer' \in Composers
  <2>1. composer' = [composer EXCEPT !.busy = FALSE]
    BY <1>6 DEF CreateRefused
  <2>2. composer' = [node |-> node, busy |-> FALSE, seed |-> seed, follow |-> follow]
    BY <1>1, <2>1
  <2> QED
    BY <1>3, <2>2
<1>7. ASSUME FollowUp PROVE composer' \in Composers
  <2>1. selected \in Session
    BY <1>7 DEF FollowUp, PiInv, ViewOK, SessionOrNone
  <2>2. composer' = [composer EXCEPT !.busy = TRUE, !.follow = Prompted(selected)]
    BY <1>7 DEF FollowUp
  <2>3. composer' = [node |-> node, busy |-> TRUE, seed |-> seed,
                     follow |-> Prompted(selected)]
    BY <1>1, <2>2
  <2> QED
    BY <1>2, <1>3, <2>1, <2>3
<1>8. ASSUME Answered PROVE composer' \in Composers
  <2>1. \/ composer' = [composer EXCEPT !["seed"] = NoPrompt, !.busy = FALSE]
        \/ composer' = [composer EXCEPT !["follow"] = NoPrompt, !.busy = FALSE]
    BY <1>8 DEF Answered
  <2>2. \/ composer' = [node |-> node, busy |-> FALSE, seed |-> NoPrompt, follow |-> follow]
        \/ composer' = [node |-> node, busy |-> FALSE, seed |-> seed, follow |-> NoPrompt]
    BY <1>1, <2>1
  <2> QED
    BY <1>2, <1>3, <2>2
<1> QED
  BY <1>4, <1>5, <1>6, <1>7, <1>8

LEMMA ViewInv ==
    ASSUME PiInv, [ConsoleNext]_consoleVars
    PROVE  ViewOK'
<1>1. /\ selected \in SessionOrNone /\ shown \in Snapshots /\ loads \subseteq Snapshots
      /\ view # "panel" => loads = {}
      /\ stream \in Streams /\ composer \in Composers
      /\ view' = view
  BY ViewParts, StepOfSessions
<1>2. CASE UNCHANGED client
  BY <1>1, <1>2, ViewKept DEF client
<1>3. CASE OpenStream \/ Drop
  BY <1>1, <1>3, DropInv, ViewKept DEF OpenStream, Drop
<1>4. CASE Poll
  BY <1>1, <1>4, PollInv, ViewKept DEF Poll
<1>5. CASE Deliver
  BY <1>1, <1>5, DeliverInv, ViewKept DEF Deliver
<1>6. ASSUME NEW s \in Session, Load(s) PROVE ViewOK'
  BY <1>1, <1>6, ViewTypes, ViewKept DEF Load, Fetch
<1>7. ASSUME NEW answer \in loads, Loaded(answer) PROVE ViewOK'
  <2>1. answer \in Snapshots /\ answer.id \in SessionOrNone
    BY <1>1, <1>7 DEF Snapshots
  <2> QED
    BY <1>1, <1>7, <2>1, ViewKept DEF Loaded
<1>8. ASSUME NEW c \in Call, PanelCreate(c) PROVE ViewOK'
  BY <1>2, <1>8 DEF PanelCreate
<1>9. ASSUME NEW c \in Call, PanelCreated(c) PROVE ViewOK'
  <2>1. Requested(c) \in Session
    BY <1>9 DEF PanelCreated, PiInv, CreatingOK, Requested
  <2>2. Snapshot(Requested(c)) \in Snapshots
    BY <2>1, ViewTypes
  <2> QED
    BY <1>1, <1>9, <2>2, ViewKept DEF PanelCreated, Fetch
<1>10. CASE PanelPrompt
  BY <1>2, <1>10 DEF PanelPrompt
<1>11. ASSUME NEW c \in Call, Compose(c) \/ CreateRefused(c) PROVE ViewOK'
  BY <1>1, <1>11, ComposerInv, ViewKept DEF Compose, CreateRefused
<1>12. ASSUME NEW c \in Call, SeedSession(c) PROVE ViewOK'
  <2>1. Requested(c) \in SessionOrNone
    BY <1>12 DEF SeedSession, PiInv, CreatingOK, Requested
  <2> QED
    BY <1>1, <1>12, <2>1, ComposerInv, ViewKept DEF SeedSession
<1>13. CASE FollowUp \/ Answered
  BY <1>1, <1>13, ComposerInv, ViewKept DEF FollowUp, Answered
<1>14. CASE UNCHANGED consoleVars
  BY <1>2, <1>14 DEF consoleVars
<1> QED
  BY <1>2, <1>3, <1>4, <1>5, <1>6, <1>7, <1>8, <1>9, <1>10, <1>11, <1>12, <1>13, <1>14
     DEF ConsoleNext

-----------------------------------------------------------------------------
(* The invariant holds of the start and of every step.                     *)

LEMMA InitPiInv == ConsoleInit => PiInv
<1> SUFFICES ASSUME ConsoleInit PROVE PiInv
  OBVIOUS
<1> USE DEF ConsoleInit, PiInit
<1>1. /\ bound \in Limit /\ adapter \in {"fake", "real"}
      /\ bound.prompts \in Nat /\ bound.followed \subseteq Session
  BY PiAssumption
<1>2. LogOK /\ \A s \in Session : log[s] = <<>>
  BY DEF LogOK, Numbered
<1>3. status \in [Session -> Status] /\ \A s \in Session : status[s] = "absent"
  BY DEF Status
<1>4. CreatingOK
  BY DEF CreatingOK, Mine, Stages, SessionOrNone
<1>5. PromptingOK
  BY DEF PromptingOK
<1>6. RunningIsPrompted
  BY <1>3 DEF RunningIsPrompted
<1>7. sent \in 0..bound.prompts
  BY <1>1
<1>8. ReaderOK
  <2>1. PICK s \in bound.followed : reader = [of |-> s, got |-> <<>>]
    OBVIOUS
  <2>2. s \in Session /\ Len(log[s]) \in Nat
    BY <1>1, <1>2, <2>1
  <2>3. <<>> \in Seq(Event) /\ Len(<<>>) = 0
    OBVIOUS
  <2> QED
    BY <2>1, <2>2, <2>3 DEF ReaderOK
<1>9. ViewOK
  <2>1. /\ NoSnapshot \in Snapshots /\ NoPrompt \in [session : SessionOrNone, before : Nat]
        /\ NoSession \in SessionOrNone
    BY DEF NoSnapshot, Snapshots, SessionOrNone, Status, NoPrompt
  <2>2. /\ selected \in SessionOrNone /\ shown \in Snapshots /\ loads \subseteq Snapshots
        /\ view # "panel" => loads = {}
    BY <2>1
  <2>3. \E of \in SessionOrNone, last \in Snapshots, wire \in Seq(Snapshots) :
           stream = [of |-> of, last |-> last, wire |-> wire]
    <3>1. stream = [of |-> NoSession, last |-> NoSnapshot, wire |-> <<>>]
      BY DEF Stream
    <3>2. <<>> \in Seq(Snapshots)
      OBVIOUS
    <3> QED
      BY <2>1, <3>1, <3>2
  <2>4. composer \in [node : Node, busy : BOOLEAN,
                      seed : [session : SessionOrNone, before : Nat],
                      follow : [session : SessionOrNone, before : Nat]]
    BY <2>1
  <2> QED
    BY <2>2, <2>3, <2>4 DEF ViewOK
<1> QED
  BY <1>1, <1>2, <1>3, <1>4, <1>5, <1>6, <1>7, <1>8, <1>9 DEF PiInv

LEMMA NextPiInv ==
    ASSUME PiInv, [ConsoleNext]_consoleVars
    PROVE  PiInv'
<1>1. SessionStep /\ UNCHANGED <<bound, adapter, view>>
      /\ (UNCHANGED reader \/ (Read /\ UNCHANGED log))
  BY StepOfSessions
<1>2. (bound \in Limit /\ adapter \in {"fake", "real"})'
  BY <1>1 DEF PiInv
<1>3. LogOK'
  BY <1>1, LogsKept
<1>4. /\ (status \in [Session -> Status])' /\ PromptingOK' /\ RunningIsPrompted'
      /\ (sent \in 0..bound.prompts)'
  BY <1>1, SessionStepInv
<1>5. ReaderOK'
  BY <1>1, LogGrowsUnderReader, ReadInv
<1> QED
  BY <1>2, <1>3, <1>4, <1>5, CreatingInv, ViewInv DEF PiInv

LEMMA PiAlways == ConsoleSpec => []PiInv
<1>1. ConsoleInit => PiInv
  BY InitPiInv
<1>2. PiInv /\ [ConsoleNext]_consoleVars => PiInv'
  BY NextPiInv
<1> QED
  BY <1>1, <1>2, PTL DEF ConsoleSpec

-----------------------------------------------------------------------------
(* What the sessions and the views promise.                                *)

\* The state of the adapter and of the view is what the code takes it for.
THEOREM ConsoleTypes == ConsoleSpec => []TypeOK
<1>1. PiInv => TypeOK
  <2> SUFFICES ASSUME PiInv PROVE TypeOK
    OBVIOUS
  <2>1. \A s \in Session : \A i \in DOMAIN log[s] : log[s][i] \in Event
    BY DEF PiInv, LogOK
  <2>2. status \in [Session -> {"absent", "idle", "running", "done", "error"}]
        /\ adapter \in {"fake", "real"} /\ sent \in 0..bound.prompts
    BY DEF PiInv, Status
  <2>3. creating \in [Call -> [stage : {"idle", "loading", "resolved",
                                       "created", "refused", "told"},
                               id : Session \cup {NoSession},
                               from : {"api", "view", "past"}]]
    BY DEF PiInv, CreatingOK, Stages, SessionOrNone
  <2>4. prompting \subseteq [session : Session, before : Nat] /\ reader.of \in Session
    BY DEF PiInv, PromptingOK, ReaderOK
  <2>5. PiTypeOK
    BY <2>1, <2>2, <2>3, <2>4 DEF PiTypeOK
  <2>6. selected \in SessionOrNone /\ shown \in Snapshots
        /\ stream \in Streams /\ composer \in Composers
    BY ViewParts
  <2> QED
    BY <2>5, <2>6 DEF TypeOK, SessionOrNone, Snapshots, Streams, Composers
<1> QED
  BY <1>1, PiAlways, PTL

\* A session is shown as running only while the SDK works on a prompt to it,
\* however many prompts to it overlap, and in whatever order they end.
THEOREM RunningMeansPrompted == ConsoleSpec => []RunningIsPrompted
<1>1. PiInv => RunningIsPrompted
  BY DEF PiInv
<1> QED
  BY <1>1, PiAlways, PTL

\* The length remembered before the await is that of the prompt's own event
\* less one, whatever is appended until the answer is cut out of the log.
THEOREM AnswersStartWithPrompt == ConsoleSpec => []AnswerHasOwnPrompt
<1>1. PiInv => AnswerHasOwnPrompt
  <2> SUFFICES ASSUME PiInv, NEW p \in prompting
               PROVE  /\ AnswerOf(p) # <<>> /\ AnswerOf(p)[1].kind = "prompt"
                      /\ AnswerOf(p)[1].sequence = p.before + 1
    BY DEF AnswerHasOwnPrompt
  <2> DEFINE events == log[p.session]
             from == p.before + 1
             k == Len(log[p.session])
  <2>1. /\ p.session \in Session /\ p.before \in Nat /\ p.before < k
        /\ events[from].kind = "prompt"
    BY DEF PiInv, PromptingOK
  <2>2. events \in Seq(Event) /\ k \in Nat /\ Numbered(events)
    BY <2>1 DEF PiInv, LogOK
  <2>3. from \in Int /\ k \in Int /\ from \in 1..k /\ 1 \in 1..(k - from + 1)
        /\ from <= k
    BY <2>1, <2>2
  <2>4. \A i \in from..k : events[i] \in Event
    BY <2>2, <2>3
  <2>5. events[from].sequence = from
    BY <2>2, <2>3 DEF Numbered
  <2>6. AnswerOf(p) = SubSeq(events, from, k)
    BY DEF AnswerOf
  <2> HIDE DEF events, from, k
  <2>7. /\ Len(SubSeq(events, from, k)) = k - from + 1
        /\ SubSeq(events, from, k)[1] = events[from + 1 - 1]
    BY <2>3, <2>4, SubSeqProperties
  <2>8. from + 1 - 1 = from /\ k - from + 1 # 0
    BY <2>3
  <2>9. SubSeq(events, from, k) # <<>>
    BY <2>7, <2>8
  <2> QED
    BY <2>1, <2>5, <2>6, <2>7, <2>8, <2>9 DEF from
<1> QED
  BY <1>1, PiAlways, PTL

\* A sequence that another one begins with.
LEMMA Beginning ==
    ASSUME NEW S, NEW old \in Seq(S), NEW new \in Seq(S), Len(old) <= Len(new),
           \A i \in 1..Len(old) : new[i] = old[i]
    PROVE  SubSeq(new, 1, Len(old)) = old
<1> DEFINE k == Len(old)
           cut == SubSeq(new, 1, k)
<1>1. 1 \in Int /\ k \in Int /\ k \in Nat /\ \A i \in 1..k : new[i] \in S
  OBVIOUS
<1>2. /\ cut \in Seq(S) /\ Len(cut) = IF 1 <= k THEN k - 1 + 1 ELSE 0
      /\ \A i \in 1..(k - 1 + 1) : cut[i] = new[1 + i - 1]
  <2> HIDE DEF k
  <2> QED
    BY <1>1, SubSeqProperties
<1> HIDE DEF cut
<1>3. Len(cut) = Len(old) /\ \A i \in 1..k : cut[i] = new[1 + i - 1]
  BY <1>1, <1>2
<1>4. ASSUME NEW i \in 1..Len(cut) PROVE cut[i] = old[i]
  <2>1. i \in 1..k /\ 1 + i - 1 = i
    BY <1>1, <1>3
  <2> QED
    BY <1>3, <2>1
<1>5. cut = old
  BY <1>2, <1>3, <1>4, SeqEqual
<1> QED
  BY <1>5 DEF cut

\* A client that asks for what is newer than the last number it has gets the
\* log, without a gap and nothing twice, for any log and any number of reads.
THEOREM ReaderMissesNothing == ConsoleSpec => []ReaderSeesAll
<1>1. PiInv => ReaderSeesAll
  <2> SUFFICES ASSUME PiInv PROVE ReaderSeesAll
    OBVIOUS
  <2>1. /\ reader.of \in Session /\ reader.got \in Seq(Event)
        /\ Len(reader.got) <= Len(log[reader.of])
        /\ \A i \in 1..Len(reader.got) : log[reader.of][i] = reader.got[i]
    BY DEF PiInv, ReaderOK
  <2>2. log[reader.of] \in Seq(Event)
    BY <2>1 DEF PiInv, LogOK
  <2>3. SubSeq(log[reader.of], 1, Len(reader.got)) = reader.got
    BY <2>1, <2>2, Beginning
  <2> QED
    BY <2>1, <2>3 DEF ReaderSeesAll
<1> QED
  BY <1>1, PiAlways, PTL

\* No step of any create, prompt or event takes anything back from a log.
THEOREM LogsOnlyGrow == ConsoleSpec => LogGrows
<1>1. ASSUME PiInv, [ConsoleNext]_consoleVars
      PROVE  \A s \in Session : /\ Len(log[s]) <= Len(log'[s])
                                /\ SubSeq(log'[s], 1, Len(log[s])) = log[s]
  <2>1. SessionStep
    BY <1>1, StepOfSessions
  <2> SUFFICES ASSUME NEW s \in Session
               PROVE  /\ Len(log[s]) <= Len(log'[s])
                      /\ SubSeq(log'[s], 1, Len(log[s])) = log[s]
    OBVIOUS
  <2>2. /\ log[s] \in Seq(Event) /\ log'[s] \in Seq(Event)
        /\ Len(log[s]) <= Len(log'[s])
        /\ \A i \in 1..Len(log[s]) : log'[s][i] = log[s][i]
    BY <1>1, <2>1, LogsKept DEF PiInv, LogOK
  <2> QED
    BY <2>2, Beginning
<1>2. PiInv /\ [ConsoleNext]_consoleVars =>
          [\A s \in Session : Len(log[s]) <= Len(log'[s])
                              /\ SubSeq(log'[s], 1, Len(log[s])) = log[s]]_log
  BY <1>1
<1> QED
  BY <1>2, PiAlways, PTL DEF ConsoleSpec, LogGrows

\* A message keeps its place and its text, for logs of any length: by induction
\* over the log, since derivePiChatMessages goes through all of it each time.
THEOREM MessagesStay == ConsoleSpec => MessagesStable
<1>1. ASSUME PiInv, [ConsoleNext]_consoleVars
      PROVE  \A s \in Session : Continues(Messages(log'[s]), Messages(log[s]))
  <2>1. SessionStep /\ LogOK
    BY <1>1, StepOfSessions DEF PiInv
  <2>2. \A s \in Session : LogStep(s)
    BY <1>1, <2>1, SessionStepLogs
  <2> QED
    BY <2>1, <2>2, LogStepGrows
<1>2. PiInv /\ [ConsoleNext]_consoleVars =>
          [\A s \in Session : Continues(Messages(log'[s]), Messages(log[s]))]_log
  BY <1>1
<1> QED
  BY <1>2, PiAlways, PTL DEF ConsoleSpec, MessagesStable

\* The composer takes over the session of the last create it asked for only:
\* no two creates of it have the same session, so a cancelled one never has
\* the one that is taken over.
THEOREM LateSessionsIgnored == ConsoleSpec => LateSessionIgnored
<1>1. ASSUME PiInv, [ConsoleNext]_consoleVars, view = "composer", selected' # selected,
             NEW d \in Call, creating[d].id = selected'
      PROVE  creating[d].from # "past"
  <2>1. loads = {}
    BY <1>1 DEF PiInv, ViewOK
  <2>2. PICK c \in Call : SeedSession(c)
    <3> USE DEF client, consoleVars
    <3>1. ~(\E answer \in loads : Loaded(answer))
      BY <2>1
    <3>2. ~(OpenStream \/ Poll \/ Deliver \/ Drop \/ PanelPrompt \/ FollowUp \/ Answered)
      BY <1>1 DEF OpenStream, Poll, Deliver, Drop, PanelPrompt, FollowUp, Answered
    <3>3. ~(\E s \in Session : Load(s))
      BY <1>1 DEF Load
    <3>4. ~(\E c \in Call : PanelCreate(c) \/ PanelCreated(c) \/ Compose(c)
                            \/ CreateRefused(c))
      BY <1>1 DEF PanelCreate, PanelCreated, Compose, CreateRefused
    <3> QED
      BY <1>1, <3>1, <3>2, <3>3, <3>4 DEF ConsoleNext
  <2>3. /\ creating[c].stage = "created" /\ creating[c].from # "api"
        /\ creating[c].from # "past" /\ selected' = creating[c].id
    BY <2>2 DEF SeedSession, Cancelled, Requested
  <2>4. creating[c].id \in Session /\ creating[c].id # NoSession
    BY <1>1, <2>3, PiAssumption DEF PiInv, CreatingOK
  <2>5. CASE creating[d].from = "past"
    <3>1. Mine(c) /\ Mine(d) /\ creating[c].id = creating[d].id
      BY <1>1, <2>3, <2>4, <2>5 DEF Mine
    <3>2. c = d
      BY <1>1, <3>1 DEF PiInv, CreatingOK
    <3> QED
      BY <2>3, <3>2
  <2> QED
    BY <2>5
<1>2. PiInv /\ [ConsoleNext]_consoleVars =>
          [view = "composer" /\ selected' # selected =>
              \A c \in Call : creating[c].id = selected' =>
                                 creating[c].from # "past"]_selected
  BY <1>1
<1> QED
  BY <1>2, PiAlways, PTL DEF ConsoleSpec, LateSessionIgnored
==============================================================================
