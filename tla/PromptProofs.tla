---------------------------- MODULE PromptProofs ----------------------------
(* Theorems about the prompts a user has waiting: first those of the       *)
(* desktop and the web (PromptQueue), then those of the terminal           *)
(* (ReplQueue).                                                            *)
EXTENDS PromptQueue, ReplQueue, SequenceTheorems, WellFoundedInduction, TLAPS

-----------------------------------------------------------------------------
(***************************************************************************)
(* A theorem about PromptQueue, for any number of prompts, turns, other    *)
(* clients' turns and failures: a prompt of the user is lost only when a    *)
(* take overwrites it.                                                     *)
(***************************************************************************)

-----------------------------------------------------------------------------
(* The invariant.                                                          *)

Items == [id : Nat, prompt : Nat, requested : BOOLEAN]
Events == [type : {"turn_started", "loop_user_message_injected", "ended", "turn_result"}, turn : Nat, id : Nat]
Records == [state : {"running", "ending", "done"}, events : Seq(Events), accepted : SUBSET Nat,
            pending : Seq(Items), ready : Seq(Items), drained : BOOLEAN]
StartsOfPrompts == [id : Nat, prompt : Nat, queued : BOOLEAN, step : {"load", "execute", "answer"}, turn : Nat]
Asked == [id : Nat, prompt : Nat, turn : Nat]
Counts == [prompts : Nat, ids : Nat, turns : Nat, others : Nat, failures : Nat]

TypeInv ==
  /\ queue \in Seq(Items) /\ queueRef \in Seq(Items) /\ stream \in Seq(Events) /\ run \in Seq(Nat)
  /\ starts \subseteq StartsOfPrompts /\ asks \subseteq Asked
  /\ turn \in Seq(Records) /\ counts \in Counts /\ Len(turn) = counts.turns
  /\ \A a \in asks : a.turn \in Turns
  /\ shownTurn = [turn |-> shownTurn.turn, start |-> shownTurn.start] /\ shownTurn.turn \in Turns \cup {0}
  /\ \A k \in DOMAIN stream : stream[k].turn \in Turns
  /\ \A t \in Turns : \A k \in DOMAIN turn[t].events : turn[t].events[k].turn = t
  /\ \A s \in starts : s.turn # 0 => s.turn \in Turns /\ s.prompt \in ToSet(run)

\* Sequences of items and of events.
Has(s, i, p) == \E k \in DOMAIN s : s[k].id = i /\ s[k].prompt = p
Injects(s, i) == \E k \in DOMAIN s : s[k].type = "loop_user_message_injected" /\ s[k].id = i

Reached(p) == p \in ToSet(run) \cup refused

\* What goes to a turn, and what came out of one, under an id of the queue.
Asking(i, p) == \E a \in asks : a.id = i /\ a.prompt = p
InTurn(r, i, p) == Has(r.pending, i, p) \/ Has(r.ready, i, p)
Injecting(i, p) == Asking(i, p) \/ \E t \in Turns : InTurn(turn[t], i, p)
Injected(i) == Injects(stream, i) \/ \E t \in Turns : Injects(turn[t].events, i)

\* An item of the queue, as updated or as the ref has it.
Seen(i, p) == Has(queue, i, p) \/ Has(queueRef, i, p)

\* An id stands for one prompt, in the queue, in the ref and on its way to a turn; the
\* event that takes the id out of the queue follows its prompt.
IdsInv ==
  /\ \A i, p \in Nat : Seen(i, p) \/ Injecting(i, p) => i <= counts.ids
  /\ \A i \in Nat : Injected(i) => i <= counts.ids
  /\ \A i, p, q \in Nat : Seen(i, p) /\ (Seen(i, q) \/ Injecting(i, q)) => p = q
  /\ \A i, p \in Nat : Seen(i, p) /\ Injected(i) => Reached(p)

QueueInv == TypeInv /\ IdsInv /\ LostOnlyByTake

-----------------------------------------------------------------------------
(* Sequences.                                                              *)

\* What is appended is in the sequence, and what was in it still is.
LEMMA HasAppend ==
  ASSUME NEW s \in Seq(Items), NEW x \in Items
  PROVE  /\ Append(s, x) \in Seq(Items)
         /\ \A i, p : Has(Append(s, x), i, p) <=> Has(s, i, p) \/ (x.id = i /\ x.prompt = p)
<1>1. /\ Append(s, x) \in Seq(Items) /\ Len(Append(s, x)) = Len(s) + 1 /\ Len(s) \in Nat
      /\ \A k \in 1..Len(s) : Append(s, x)[k] = s[k]
      /\ Append(s, x)[Len(s) + 1] = x
  BY AppendProperties
<1>2. DOMAIN Append(s, x) = 1..Len(s) + 1 /\ DOMAIN s = 1..Len(s)
  BY <1>1
<1>3. \A k \in DOMAIN Append(s, x) : k \in DOMAIN s \/ k = Len(s) + 1
  BY <1>1, <1>2
<1>4. \A k \in DOMAIN s : k \in DOMAIN Append(s, x)
  BY <1>1, <1>2
<1>5. Len(s) + 1 \in DOMAIN Append(s, x)
  BY <1>1, <1>2
<1>. QED  BY <1>1, <1>2, <1>3, <1>4, <1>5 DEF Has

\* A sequence without its first element.
LEMMA HasTail ==
  ASSUME NEW s \in Seq(Items), s # <<>>
  PROVE  /\ Tail(s) \in Seq(Items) /\ Head(s) \in Items
         /\ \A i, p : Has(Tail(s), i, p) => Has(s, i, p)
         /\ \A i, p : Has(s, i, p) => Has(Tail(s), i, p) \/ (Head(s).id = i /\ Head(s).prompt = p)
         /\ Has(s, Head(s).id, Head(s).prompt)
<1>1. /\ Tail(s) \in Seq(Items) /\ Head(s) \in Items /\ Len(Tail(s)) = Len(s) - 1
      /\ \A k \in 1..Len(Tail(s)) : Tail(s)[k] = s[k + 1]
  BY HeadTailProperties
<1>2. Len(s) \in Nat \ {0} /\ DOMAIN s = 1..Len(s) /\ DOMAIN Tail(s) = 1..Len(s) - 1 /\ Head(s) = s[1]
  BY <1>1
<1>3. ASSUME NEW k \in DOMAIN Tail(s) PROVE k + 1 \in DOMAIN s /\ Tail(s)[k] = s[k + 1]
  BY <1>1, <1>2
<1>4. ASSUME NEW k \in DOMAIN s, k # 1 PROVE k - 1 \in DOMAIN Tail(s) /\ Tail(s)[k - 1] = s[k]
  <2>1. k - 1 \in DOMAIN Tail(s) /\ (k - 1) + 1 = k
    BY <1>2, <1>4
  <2>. QED  BY <1>3, <2>1
<1>5. 1 \in DOMAIN s
  BY <1>2
<1>6. \A i, p : Has(s, i, p) => Has(Tail(s), i, p) \/ (Head(s).id = i /\ Head(s).prompt = p)
  BY <1>2, <1>4 DEF Has
<1>7. \A i, p : Has(Tail(s), i, p) => Has(s, i, p)
  BY <1>3 DEF Has
<1>8. Has(s, Head(s).id, Head(s).prompt)
  BY <1>2, <1>5 DEF Has
<1>. QED  BY <1>1, <1>6, <1>7, <1>8

\* A sequence without the element at k.
LEMMA HasRemoved ==
  ASSUME NEW s \in Seq(Items), NEW k \in DOMAIN s
  PROVE  /\ RemoveAt(s, k) \in Seq(Items)
         /\ \A i, p : Has(RemoveAt(s, k), i, p) => Has(s, i, p)
         /\ \A i, p : Has(s, i, p) => Has(RemoveAt(s, k), i, p) \/ (s[k].id = i /\ s[k].prompt = p)
<1> DEFINE a == SubSeq(s, 1, k - 1)  b == SubSeq(s, k + 1, Len(s))
<1>1. Len(s) \in Nat /\ k \in 1..Len(s) /\ DOMAIN s = 1..Len(s) /\ \A j \in 1..Len(s) : s[j] \in Items
  OBVIOUS
<1>2. /\ a \in Seq(Items) /\ Len(a) = k - 1 /\ \A j \in 1..k - 1 : a[j] = s[j]
  BY <1>1, SubSeqProperties
<1>3. /\ b \in Seq(Items) /\ Len(b) = Len(s) - k /\ \A j \in 1..Len(s) - k : b[j] = s[k + j]
  BY <1>1, SubSeqProperties
<1> HIDE DEF a, b
<1>4. PICK r : r = a \o b
  OBVIOUS
<1>5. /\ r \in Seq(Items) /\ Len(r) = Len(s) - 1
      /\ \A j \in 1..Len(s) - 1 : r[j] = IF j <= k - 1 THEN a[j] ELSE b[j - (k - 1)]
  <2>1. Len(a) + Len(b) = Len(s) - 1
    BY <1>1, <1>2, <1>3
  <2>2. /\ r \in Seq(Items) /\ Len(r) = Len(a) + Len(b)
        /\ \A j \in 1..Len(a) + Len(b) : r[j] = IF j <= Len(a) THEN a[j] ELSE b[j - Len(a)]
    BY <1>2, <1>3, <1>4, ConcatProperties
  <2>. QED  BY <1>2, <2>1, <2>2
<1>6. DOMAIN r = 1..Len(s) - 1
  BY <1>5
<1>7. ASSUME NEW j \in DOMAIN r PROVE r[j] = s[IF j < k THEN j ELSE j + 1] /\ (IF j < k THEN j ELSE j + 1) \in DOMAIN s
  <2>1. CASE j < k
    BY <1>1, <1>2, <1>5, <1>6, <2>1
  <2>2. CASE ~(j < k)
    <3>1. j - (k - 1) \in 1..Len(s) - k /\ k + (j - (k - 1)) = j + 1
      BY <1>1, <1>6, <2>2
    <3>2. r[j] = b[j - (k - 1)]
      <4>1. j \in 1..Len(s) - 1 /\ ~(j <= k - 1)
        BY <1>1, <1>6, <2>2
      <4>. QED  BY <1>5, <4>1
    <3>. QED  BY <1>1, <1>3, <1>6, <2>2, <3>1, <3>2
  <2>. QED  BY <2>1, <2>2
<1>8. ASSUME NEW l \in DOMAIN s, l # k PROVE \E j \in DOMAIN r : r[j] = s[l]
  <2>1. CASE l < k
    <3>1. l \in DOMAIN r
      BY <1>1, <1>6, <2>1
    <3>. QED  BY <1>7, <2>1, <3>1
  <2>2. CASE ~(l < k)
    <3>1. l - 1 \in DOMAIN r /\ ~(l - 1 < k) /\ (l - 1) + 1 = l
      BY <1>1, <1>6, <1>8, <2>2
    <3>. QED  BY <1>7, <3>1
  <2>. QED  BY <2>1, <2>2
<1>9. r = RemoveAt(s, k)
  BY <1>4 DEF RemoveAt, a, b
<1>10. \A i, p : Has(r, i, p) => Has(s, i, p)
  BY <1>7 DEF Has
<1>11. \A i, p : Has(s, i, p) => Has(r, i, p) \/ (s[k].id = i /\ s[k].prompt = p)
  BY <1>8 DEF Has
<1>. QED  BY <1>5, <1>9, <1>10, <1>11

LEMMA InjectsAppend ==
  ASSUME NEW s \in Seq(Events), NEW e \in Events
  PROVE  /\ Append(s, e) \in Seq(Events)
         /\ \A i : Injects(Append(s, e), i)
                     => Injects(s, i) \/ (e.type = "loop_user_message_injected" /\ e.id = i)
         /\ \A k \in DOMAIN Append(s, e) : Append(s, e)[k] = e \/ (k \in DOMAIN s /\ Append(s, e)[k] = s[k])
<1>1. /\ Append(s, e) \in Seq(Events) /\ Len(Append(s, e)) = Len(s) + 1 /\ Len(s) \in Nat
      /\ \A k \in 1..Len(s) : Append(s, e)[k] = s[k]
      /\ Append(s, e)[Len(s) + 1] = e
  BY AppendProperties
<1>2. DOMAIN Append(s, e) = 1..Len(s) + 1 /\ DOMAIN s = 1..Len(s)
  BY <1>1
<1>3. \A k \in DOMAIN Append(s, e) : k \in DOMAIN s \/ k = Len(s) + 1
  BY <1>1, <1>2
<1>. QED  BY <1>1, <1>2, <1>3 DEF Injects

LEMMA InjectsTail ==
  ASSUME NEW s \in Seq(Events), s # <<>>
  PROVE  /\ Tail(s) \in Seq(Events) /\ Head(s) \in Events
         /\ \A i : Injects(Tail(s), i) => Injects(s, i)
         /\ Head(s).type = "loop_user_message_injected" => Injects(s, Head(s).id)
         /\ \A k \in DOMAIN Tail(s) : \E l \in DOMAIN s : Tail(s)[k] = s[l]
         /\ 1 \in DOMAIN s /\ Head(s) = s[1]
<1>1. /\ Tail(s) \in Seq(Events) /\ Head(s) \in Events /\ Len(Tail(s)) = Len(s) - 1
      /\ \A k \in 1..Len(Tail(s)) : Tail(s)[k] = s[k + 1]
  BY HeadTailProperties
<1>2. Len(s) \in Nat \ {0} /\ DOMAIN s = 1..Len(s) /\ DOMAIN Tail(s) = 1..Len(s) - 1 /\ Head(s) = s[1]
  BY <1>1
<1>3. ASSUME NEW k \in DOMAIN Tail(s) PROVE k + 1 \in DOMAIN s /\ Tail(s)[k] = s[k + 1]
  BY <1>1, <1>2
<1>4. 1 \in DOMAIN s
  BY <1>2
<1>. QED  BY <1>1, <1>2, <1>3, <1>4 DEF Injects

LEMMA InjectsConcat ==
  ASSUME NEW s \in Seq(Events), NEW u \in Seq(Events)
  PROVE  /\ s \o u \in Seq(Events)
         /\ \A i : Injects(s \o u, i) => Injects(s, i) \/ Injects(u, i)
<1>1. /\ s \o u \in Seq(Events) /\ Len(s \o u) = Len(s) + Len(u) /\ Len(s) \in Nat /\ Len(u) \in Nat
      /\ \A k \in 1..Len(s) + Len(u) : (s \o u)[k] = IF k <= Len(s) THEN s[k] ELSE u[k - Len(s)]
  BY ConcatProperties
<1>2. DOMAIN (s \o u) = 1..Len(s) + Len(u) /\ DOMAIN s = 1..Len(s) /\ DOMAIN u = 1..Len(u)
  BY <1>1
<1>3. ASSUME NEW k \in DOMAIN (s \o u)
      PROVE  \/ k \in DOMAIN s /\ (s \o u)[k] = s[k]
             \/ k - Len(s) \in DOMAIN u /\ (s \o u)[k] = u[k - Len(s)]
  BY <1>1, <1>2
<1>. QED  BY <1>1, <1>3 DEF Injects

\* What both sequences are of, their concatenation is of.
LEMMA ConcatOf ==
  ASSUME NEW t, NEW s \in Seq(Events), NEW u \in Seq(Events),
         \A k \in DOMAIN s : s[k].turn = t, \A k \in DOMAIN u : u[k].turn = t
  PROVE  \A k \in DOMAIN (s \o u) : (s \o u)[k].turn = t
<1>1. /\ Len(s \o u) = Len(s) + Len(u) /\ Len(s) \in Nat /\ Len(u) \in Nat /\ s \o u \in Seq(Events)
      /\ \A k \in 1..Len(s) + Len(u) : (s \o u)[k] = IF k <= Len(s) THEN s[k] ELSE u[k - Len(s)]
  BY ConcatProperties
<1>2. DOMAIN (s \o u) = 1..Len(s) + Len(u) /\ DOMAIN s = 1..Len(s) /\ DOMAIN u = 1..Len(u)
  BY <1>1
<1>3. ASSUME NEW k \in DOMAIN (s \o u)
      PROVE  \/ k \in DOMAIN s /\ (s \o u)[k] = s[k]
             \/ k - Len(s) \in DOMAIN u /\ (s \o u)[k] = u[k - Len(s)]
  BY <1>1, <1>2
<1>. QED  BY <1>3

\* What has run has run.
LEMMA RunGrows ==
  ASSUME NEW s \in Seq(Nat), NEW u \in Seq(Nat)
  PROVE  s \o u \in Seq(Nat) /\ ToSet(s \o u) = ToSet(s) \cup ToSet(u)
<1>1. /\ s \o u \in Seq(Nat) /\ Len(s \o u) = Len(s) + Len(u) /\ Len(s) \in Nat /\ Len(u) \in Nat
      /\ \A k \in 1..Len(s) + Len(u) : (s \o u)[k] = IF k <= Len(s) THEN s[k] ELSE u[k - Len(s)]
  BY ConcatProperties
<1>2. DOMAIN (s \o u) = 1..Len(s) + Len(u) /\ DOMAIN s = 1..Len(s) /\ DOMAIN u = 1..Len(u)
  BY <1>1
<1>3. ASSUME NEW k \in DOMAIN (s \o u)
      PROVE  \/ k \in DOMAIN s /\ (s \o u)[k] = s[k]
             \/ k - Len(s) \in DOMAIN u /\ (s \o u)[k] = u[k - Len(s)]
  BY <1>1, <1>2
<1>4. ASSUME NEW k \in DOMAIN s PROVE k \in DOMAIN (s \o u) /\ (s \o u)[k] = s[k]
  BY <1>1, <1>2
<1>5. ASSUME NEW k \in DOMAIN u PROVE k + Len(s) \in DOMAIN (s \o u) /\ (s \o u)[k + Len(s)] = u[k]
  <2>1. k + Len(s) \in 1..Len(s) + Len(u) /\ ~(k + Len(s) <= Len(s)) /\ (k + Len(s)) - Len(s) = k
    BY <1>1, <1>2
  <2>. QED  BY <1>1, <1>2, <2>1
<1>6. \A x : (\E k \in DOMAIN (s \o u) : (s \o u)[k] = x)
            <=> (\E k \in DOMAIN s : s[k] = x) \/ (\E k \in DOMAIN u : u[k] = x)
  BY <1>3, <1>4, <1>5
<1>. QED  BY <1>1, <1>6 DEF ToSet

-----------------------------------------------------------------------------
(* What a step has to keep.                                                *)

LEMMA Kept ==
  ASSUME QueueInv, TypeInv', counts.ids <= counts'.ids,
         overwritten \subseteq overwritten',
         \A i, p \in Nat : Has(queue', i, p) \/ Has(queueRef', i, p) =>
           Seen(i, p) \/ (i = counts.ids + 1 /\ p = queue'[Len(queue')].prompt /\ counts'.ids = counts.ids + 1),
         \A i, p \in Nat : (\E a \in asks' : a.id = i /\ a.prompt = p) \/ (\E t \in Turns' : InTurn(turn'[t], i, p))
                             => Injecting(i, p) \/ Seen(i, p),
         \A i \in Nat : Injects(stream', i) \/ (\E t \in Turns' : Injects(turn'[t].events, i))
                          => Injected(i) \/ \E q \in Nat : Injecting(i, q) /\ Reached(q)',
         \A p : Reached(p) => Reached(p)',
         \A i, p \in Nat : Has(queue, i, p) =>
           (\E j \in Nat : Has(queue', j, p)) \/ (\E s \in starts' : s.prompt = p) \/ Reached(p)' \/ p \in overwritten',
         \A x \in starts : (\E j \in Nat : Has(queue', j, x.prompt)) \/ (\E s \in starts' : s.prompt = x.prompt)
                             \/ Reached(x.prompt)',
         \/ counts'.prompts = counts.prompts
         \/ /\ counts'.prompts = counts.prompts + 1
            /\ \/ \E j \in Nat : Has(queue', j, counts'.prompts)
               \/ \E s \in starts' : s.prompt = counts'.prompts
  PROVE  IdsInv' /\ LostOnlyByTake'
<1>1. counts.ids \in Nat /\ counts'.ids \in Nat /\ counts.prompts \in Nat /\ counts'.prompts \in Nat
  BY DEF QueueInv, TypeInv, Counts
<1>2. \A i, p \in Nat : Seen(i, p)' <=> Has(queue', i, p) \/ Has(queueRef', i, p)
  BY DEF Seen, Has
<1>3. \A i, p \in Nat : Injecting(i, p)' => Injecting(i, p) \/ Seen(i, p)
  <2>1. \A i, p \in Nat : Injecting(i, p)' =>
          (\E a \in asks' : a.id = i /\ a.prompt = p) \/ (\E t \in Turns' : InTurn(turn'[t], i, p))
    BY DEF Injecting, Asking, InTurn, Has
  <2>. QED  BY <2>1
<1>4. \A i \in Nat : Injected(i)' => Injected(i) \/ \E q \in Nat : Injecting(i, q) /\ Reached(q)'
  <2>1. \A i \in Nat : Injected(i)' => Injects(stream', i) \/ (\E t \in Turns' : Injects(turn'[t].events, i))
    BY DEF Injected, Injects
  <2>. QED  BY <2>1
<1>5. \A i, p \in Nat : Seen(i, p)' =>
        Seen(i, p) \/ (i = counts.ids + 1 /\ p = queue'[Len(queue')].prompt /\ counts'.ids = counts.ids + 1)
  BY <1>2
<1>6. \A i, p \in Nat : Seen(i, p) \/ Injecting(i, p) => i <= counts.ids
  BY DEF QueueInv, IdsInv
<1>7. \A i, p, q \in Nat : Seen(i, p) /\ (Seen(i, q) \/ Injecting(i, q)) => p = q
  BY DEF QueueInv, IdsInv
<1>8. IdsInv'
  <2>1. \A i, p \in Nat : Seen(i, p)' \/ Injecting(i, p)' => i <= counts'.ids
    BY <1>1, <1>3, <1>5, <1>6
  <2>2. \A i \in Nat : Injected(i)' => i <= counts.ids
    BY <1>4, <1>6 DEF QueueInv, IdsInv
  <2>3. \A i, p, q \in Nat : Seen(i, p)' /\ (Seen(i, q)' \/ Injecting(i, q)') => p = q
    <3> SUFFICES ASSUME NEW i \in Nat, NEW p \in Nat, NEW q \in Nat, Seen(i, p)', Seen(i, q)' \/ Injecting(i, q)'
                 PROVE  p = q
      OBVIOUS
    <3>1. CASE i = counts.ids + 1
      <4>1. (\A x \in Nat : ~Seen(i, x) /\ ~Injecting(i, x)) /\ i \in Nat
        BY <1>1, <1>6, <3>1
      <4>2. p = queue'[Len(queue')].prompt
        BY <1>5, <4>1
      <4>3. Seen(i, q)'
        BY <1>3, <4>1
      <4>4. q = queue'[Len(queue')].prompt
        BY <1>5, <4>1, <4>3
      <4>. QED  BY <4>2, <4>4
    <3>2. CASE i # counts.ids + 1
      <4>1. Seen(i, p) /\ (Seen(i, q) \/ Injecting(i, q))
        BY <1>3, <1>5, <3>2
      <4>. QED  BY <1>7, <4>1
    <3>. QED  BY <3>1, <3>2
  <2>4. ASSUME NEW i \in Nat, NEW p \in Nat, Seen(i, p)', Injected(i)' PROVE Reached(p)'
    <3>1. Seen(i, p)
      BY <1>1, <1>5, <2>2, <2>4
    <3>2. CASE Injected(i)
      BY <3>1, <3>2 DEF QueueInv, IdsInv
    <3>3. CASE \E q \in Nat : Injecting(i, q) /\ Reached(q)'
      BY <1>7, <3>1, <3>3
    <3>. QED  BY <1>4, <2>4, <3>2, <3>3
  <2>5. \A i \in Nat : Injected(i)' => i <= counts'.ids
    BY <1>1, <2>2
  <2>. QED  BY <2>1, <2>3, <2>4, <2>5 DEF IdsInv
<1>9. ASSUME NEW p \in 1..counts'.prompts \ overwritten'
      PROVE  (\E j \in Nat : Has(queue', j, p)) \/ (\E s \in starts' : s.prompt = p) \/ Reached(p)'
  <2>1. CASE p \in 1..counts.prompts
    <3>1. p \in Nat /\ p \notin overwritten /\ p \notin overwritten'
      BY <1>1, <1>9
    <3>2. CASE \E k \in DOMAIN queue : queue[k].prompt = p
      <4>1. PICK k \in DOMAIN queue : queue[k].prompt = p
        BY <3>2
      <4>2. queue[k].id \in Nat /\ Has(queue, queue[k].id, p)
        <5>1. queue[k] \in Items
          BY <4>1 DEF QueueInv, TypeInv
        <5>. QED  BY <4>1, <5>1 DEF Items, Has
      <4>. QED  BY <3>1, <4>2
    <3>3. CASE \E s \in starts : s.prompt = p
      BY <3>3
    <3>4. CASE p \in ToSet(run) \cup refused
      BY <3>4 DEF Reached
    <3>. QED  BY <2>1, <3>2, <3>3, <3>4 DEF QueueInv, LostOnlyByTake
  <2>2. CASE p \notin 1..counts.prompts
    <3>1. p = counts'.prompts /\ counts'.prompts = counts.prompts + 1
      BY <1>1, <1>9, <2>2
    <3>. QED  BY <1>1, <3>1
  <2>. QED  BY <2>1, <2>2
<1>10. LostOnlyByTake'
  <2>1. \A p, j : Has(queue', j, p) => \E i \in DOMAIN queue' : queue'[i].prompt = p
    BY DEF Has
  <2>. QED  BY <1>9, <2>1 DEF LostOnlyByTake, Reached
<1>. QED  BY <1>8, <1>10

\* A step of the client that leaves the turns alone.
LEMMA ClientKept ==
  ASSUME QueueInv, TypeInv', counts.ids <= counts'.ids,
         overwritten \subseteq overwritten',
         \A i, p \in Nat : Has(queue', i, p) \/ Has(queueRef', i, p) =>
           Seen(i, p) \/ (i = counts.ids + 1 /\ p = queue'[Len(queue')].prompt /\ counts'.ids = counts.ids + 1),
         UNCHANGED <<asks, stream, turn, run>>, counts'.turns = counts.turns, refused \subseteq refused',
         \A i, p \in Nat : Has(queue, i, p) =>
           (\E j \in Nat : Has(queue', j, p)) \/ (\E s \in starts' : s.prompt = p) \/ Reached(p)' \/ p \in overwritten',
         \A x \in starts : (\E j \in Nat : Has(queue', j, x.prompt)) \/ (\E s \in starts' : s.prompt = x.prompt)
                             \/ Reached(x.prompt)',
         \/ counts'.prompts = counts.prompts
         \/ /\ counts'.prompts = counts.prompts + 1
            /\ \/ \E j \in Nat : Has(queue', j, counts'.prompts)
               \/ \E s \in starts' : s.prompt = counts'.prompts
  PROVE  IdsInv' /\ LostOnlyByTake'
<1>1. Turns' = Turns
  BY DEF Turns
<1>2. \A p : Reached(p) => Reached(p)'
  BY DEF Reached, ToSet
<1>3. \A i, p \in Nat : (\E a \in asks' : a.id = i /\ a.prompt = p) \/ (\E t \in Turns' : InTurn(turn'[t], i, p))
                          => Injecting(i, p) \/ Seen(i, p)
  BY <1>1 DEF Injecting, Asking
<1>4. \A i \in Nat : Injects(stream', i) \/ (\E t \in Turns' : Injects(turn'[t].events, i))
                       => Injected(i) \/ \E q \in Nat : Injecting(i, q) /\ Reached(q)'
  BY <1>1 DEF Injected
<1>. QED  BY <1>2, <1>3, <1>4, Kept

-----------------------------------------------------------------------------
(* The steps of the client.                                                *)

LEMMA Counted ==
  ASSUME NEW c \in Counts, NEW a \in Nat, NEW b \in Nat
  PROVE  /\ [c EXCEPT !.prompts = a, !.ids = b] \in Counts
         /\ [c EXCEPT !.ids = a, !.failures = b] \in Counts
         /\ [c EXCEPT !.turns = a] \in Counts
         /\ [c EXCEPT !.turns = a, !.others = b] \in Counts
         /\ [c EXCEPT !.failures = a] \in Counts
BY DEF Counts

\* A new item at the end of the queue, under a new id.
LEMMA Enqueued ==
  ASSUME QueueInv, NEW p \in Nat, queue' = Append(queue, Item(counts.ids + 1, p)), counts'.ids = counts.ids + 1
  PROVE  /\ queue' \in Seq(Items) /\ Has(queue', counts'.ids, p)
         /\ \A i, q \in Nat : Has(queue', i, q) => Has(queue, i, q) \/ (i = counts.ids + 1 /\ q = p)
         /\ \A i, q \in Nat : Has(queue, i, q) => Has(queue', i, q)
         /\ queue'[Len(queue')].prompt = p
<1>1. counts.ids \in Nat /\ queue \in Seq(Items)
  BY DEF QueueInv, TypeInv, Counts
<1>2. PICK x : x = Item(counts.ids + 1, p)
  OBVIOUS
<1>3. x \in Items /\ x.id = counts.ids + 1 /\ x.prompt = p /\ queue' = Append(queue, x)
  BY <1>1, <1>2 DEF Item, Items
<1>4. /\ queue' \in Seq(Items)
      /\ \A i, q : Has(queue', i, q) <=> Has(queue, i, q) \/ (x.id = i /\ x.prompt = q)
  BY <1>1, <1>3, HasAppend
<1>5. queue'[Len(queue')] = x
  BY <1>1, <1>3, AppendProperties
<1>. QED  BY <1>1, <1>3, <1>4, <1>5

LEMMA SendPromptStep ==
  ASSUME QueueInv, SendPrompt
  PROVE  QueueInv'
<1>1. /\ counts \in Counts /\ counts' \in Counts /\ counts'.prompts = counts.prompts + 1
      /\ counts'.ids = counts.ids + 1 /\ counts'.turns = counts.turns
      /\ UNCHANGED <<queueRef, overwritten, core, asks, stream, turn, refused, run>>
  <2>1. counts \in Counts
    BY DEF QueueInv, TypeInv
  <2>2. /\ counts' = [counts EXCEPT !.prompts = @ + 1, !.ids = @ + 1]
        /\ UNCHANGED <<queueRef, overwritten, core, asks, stream, turn, refused, run>>
    BY DEF SendPrompt
  <2>3. /\ counts.prompts \in Nat /\ counts.ids \in Nat
        /\ DOMAIN counts = {"prompts", "ids", "turns", "others", "failures"}
    BY <2>1 DEF Counts
  <2>4. counts'.prompts = counts.prompts + 1 /\ counts'.ids = counts.ids + 1 /\ counts'.turns = counts.turns
    BY <2>2, <2>3
  <2>5. counts' \in Counts
    <3>1. counts.prompts + 1 \in Nat /\ counts.ids + 1 \in Nat
      BY <2>3
    <3>2. [counts EXCEPT !.prompts = counts.prompts + 1, !.ids = counts.ids + 1] \in Counts
      BY <2>1, <3>1, Counted
    <3>. QED  BY <2>2, <3>2
  <2>. QED  BY <2>1, <2>2, <2>4, <2>5
<1>2. CASE shownTurn # None
  <2>1. queue' = Append(queue, Item(counts.ids + 1, counts'.prompts)) /\ UNCHANGED <<shownTurn, starts>>
    BY <1>1, <1>2 DEF SendPrompt
  <2>2. counts'.prompts \in Nat /\ counts'.ids \in Nat /\ counts.ids \in Nat
    BY <1>1 DEF Counts
  <2>3. /\ queue' \in Seq(Items) /\ Has(queue', counts'.ids, counts'.prompts)
        /\ \A i, q \in Nat : Has(queue', i, q) =>
             Has(queue, i, q) \/ (i = counts.ids + 1 /\ q = queue'[Len(queue')].prompt)
        /\ \A i, q \in Nat : Has(queue, i, q) => Has(queue', i, q)
    BY <1>1, <2>1, <2>2, Enqueued
  <2>4. TypeInv'
    BY <1>1, <2>1, <2>3 DEF QueueInv, TypeInv, Turns
  <2>. QED  BY <1>1, <2>1, <2>2, <2>3, <2>4, ClientKept DEF QueueInv, Seen
<1>3. CASE shownTurn = None
  <2>1. PICK s : s = NewStart(counts'.ids, counts'.prompts, FALSE, "execute")
    OBVIOUS
  <2>2. starts' = starts \cup {s} /\ shownTurn' = [turn |-> 0, start |-> counts'.ids] /\ queue' = queue
    BY <1>3, <2>1 DEF SendPrompt, Optimistic
  <2>3. s \in StartsOfPrompts /\ s.prompt = counts'.prompts /\ s.turn = 0
    BY <1>1, <2>1 DEF NewStart, StartsOfPrompts, Counts
  <2>4. TypeInv'
    BY <1>1, <2>2, <2>3 DEF QueueInv, TypeInv, Turns
  <2>5. counts.ids <= counts'.ids
    BY <1>1 DEF Counts
  <2>. QED  BY <1>1, <2>2, <2>3, <2>4, <2>5, ClientKept DEF QueueInv, Seen
<1>. QED  BY <1>2, <1>3

\* A prompt goes on in a start of its own, or is refused.
LEMMA StartMoves ==
  ASSUME QueueInv, NEW s \in starts,
         \/ starts' = starts \ {s} /\ (s.prompt \in refused' \/ s.prompt \in ToSet(run))
         \/ \E x \in StartsOfPrompts : x.prompt = s.prompt /\ starts' = (starts \ {s}) \cup {x},
         \A x \in starts' \ starts : x.turn = s.turn,
         shownTurn' = [turn |-> shownTurn'.turn, start |-> shownTurn'.start], shownTurn'.turn \in Turns \cup {0},
         refused \subseteq refused', UNCHANGED <<queue, queueRef, overwritten, asks, stream, turn, counts, run>>
  PROVE  QueueInv'
<1>1. TypeInv'
  BY DEF QueueInv, TypeInv, Turns
<1>2. \A x \in starts : (\E y \in starts' : y.prompt = x.prompt) \/ Reached(x.prompt)'
  BY DEF Reached, ToSet
<1>3. counts.ids <= counts'.ids
  BY DEF QueueInv, TypeInv, Counts
<1>. QED  BY <1>1, <1>2, <1>3, ClientKept DEF QueueInv, Seen

LEMMA Requeued ==
  ASSUME QueueInv, NEW s \in starts, NEW failures \in Nat, Requeue(s.prompt, failures), starts' = starts \ {s},
         UNCHANGED <<queueRef, overwritten, shownTurn, asks, stream, turn, refused, run>>
  PROVE  QueueInv'
<1>1. s.prompt \in Nat /\ counts \in Counts
  BY DEF QueueInv, TypeInv, StartsOfPrompts
<1>2. /\ counts' \in Counts /\ counts'.ids = counts.ids + 1 /\ counts'.prompts = counts.prompts
      /\ counts'.turns = counts.turns /\ counts.ids \in Nat /\ counts'.ids \in Nat
      /\ queue' = Append(queue, Item(counts.ids + 1, s.prompt))
  <2>1. /\ counts' = [counts EXCEPT !.ids = @ + 1, !.failures = failures]
        /\ queue' = Append(queue, Item(counts.ids + 1, s.prompt))
    BY DEF Requeue
  <2>2. counts.ids \in Nat /\ DOMAIN counts = {"prompts", "ids", "turns", "others", "failures"}
    BY <1>1 DEF Counts
  <2>3. counts'.prompts = counts.prompts /\ counts'.ids = counts.ids + 1 /\ counts'.turns = counts.turns
    BY <2>1, <2>2
  <2>4. counts' \in Counts
    <3>1. counts.ids + 1 \in Nat
      BY <2>2
    <3>2. [counts EXCEPT !.ids = counts.ids + 1, !.failures = failures] \in Counts
      BY <1>1, <3>1, Counted
    <3>. QED  BY <2>1, <3>2
  <2>. QED  BY <2>1, <2>2, <2>3, <2>4
<1>3. /\ queue' \in Seq(Items) /\ Has(queue', counts'.ids, s.prompt)
      /\ \A i, q \in Nat : Has(queue', i, q) =>
           Has(queue, i, q) \/ (i = counts.ids + 1 /\ q = queue'[Len(queue')].prompt)
      /\ \A i, q \in Nat : Has(queue, i, q) => Has(queue', i, q)
  BY <1>1, <1>2, Enqueued
<1>4. TypeInv'
  BY <1>2, <1>3 DEF QueueInv, TypeInv, Turns
<1>5. \A x \in starts : (\E j \in Nat : Has(queue', j, x.prompt)) \/ (\E y \in starts' : y.prompt = x.prompt)
  BY <1>2, <1>3
<1>6. \A i, q \in Nat : Has(queue', i, q) \/ Has(queueRef', i, q) =>
        Seen(i, q) \/ (i = counts.ids + 1 /\ q = queue'[Len(queue')].prompt /\ counts'.ids = counts.ids + 1)
  BY <1>2, <1>3 DEF Seen
<1>7. overwritten \subseteq overwritten' /\ counts.ids <= counts'.ids
  BY <1>2
<1>8. IdsInv' /\ LostOnlyByTake'
  BY <1>2, <1>3, <1>4, <1>5, <1>6, <1>7, ClientKept
<1>. QED  BY <1>4, <1>8 DEF QueueInv

LEMMA StartSteps ==
  ASSUME QueueInv, NEW s \in starts, LoadSession(s) \/ LoadFails(s) \/ Started(s) \/ NotStarted(s)
  PROVE  QueueInv'
<1>1. s \in StartsOfPrompts /\ s.turn \in Nat /\ s.prompt \in Nat
  BY DEF QueueInv, TypeInv, StartsOfPrompts
<1>2. CASE LoadSession(s)
  <2>1. PICK x : x = [s EXCEPT !.step = "execute"]
    OBVIOUS
  <2>2. x \in StartsOfPrompts /\ x.prompt = s.prompt /\ x.turn = s.turn /\ starts' = (starts \ {s}) \cup {x}
    BY <1>1, <1>2, <2>1 DEF LoadSession, StartsOfPrompts
  <2>3. /\ shownTurn' = [turn |-> 0, start |-> s.id]
        /\ UNCHANGED <<queue, queueRef, overwritten, asks, stream, turn, counts, refused, run>>
    BY <1>2 DEF LoadSession, Optimistic
  <2>. QED  BY <2>2, <2>3, StartMoves
<1>3. CASE LoadFails(s)
  <2>1. counts.failures + 1 \in Nat
    BY DEF QueueInv, TypeInv, Counts
  <2>. QED  BY <1>3, <2>1, Requeued DEF LoadFails
<1>4. CASE NotStarted(s)
  <2>1. CASE s.queued
    <3>1. counts.failures \in Nat
      BY DEF QueueInv, TypeInv, Counts
    <3>. QED  BY <1>4, <2>1, <3>1, Requeued DEF NotStarted
  <2>2. CASE ~s.queued
    BY <1>4, <2>2, StartMoves DEF NotStarted, QueueInv, TypeInv
  <2>. QED  BY <2>1, <2>2
<1>5. CASE Started(s)
  <2>1. s.turn \in Turns /\ s.prompt \in ToSet(run)
    BY <1>5 DEF Started, QueueInv, TypeInv
  <2>2. shownTurn' = [turn |-> shownTurn'.turn, start |-> shownTurn'.start] /\ shownTurn'.turn \in Turns \cup {0}
    BY <1>5, <2>1 DEF Started, Shown, QueueInv, TypeInv
  <2>. QED  BY <1>5, <2>1, <2>2, StartMoves DEF Started
<1>. QED  BY <1>2, <1>3, <1>4, <1>5

\* The queue with other marks is the same queue.
LEMMA Marked ==
  ASSUME QueueInv, NEW id, NEW mark \in BOOLEAN, Mark(id, mark)
  PROVE  queue' \in Seq(Items) /\ \A i, p : Has(queue', i, p) <=> Has(queue, i, p)
<1>1. queue \in Seq(Items)
  BY DEF QueueInv, TypeInv
<1>2. queue' = [k \in DOMAIN queue |-> IF queue[k].id = id THEN [queue[k] EXCEPT !.requested = mark] ELSE queue[k]]
  BY DEF Mark
<1>3. ASSUME NEW k \in DOMAIN queue
      PROVE  queue'[k] \in Items /\ queue'[k].id = queue[k].id /\ queue'[k].prompt = queue[k].prompt
  <2>1. queue[k] \in Items
    BY <1>1
  <2>. QED  BY <1>2, <2>1 DEF Items
<1>4. DOMAIN queue' = DOMAIN queue /\ DOMAIN queue = 1..Len(queue) /\ Len(queue) \in Nat
  BY <1>1, <1>2
<1>5. queue' \in [1..Len(queue) -> Items]
  BY <1>2, <1>3, <1>4
<1>6. queue' \in Seq(Items)
  BY <1>4, <1>5
<1>. QED  BY <1>3, <1>4, <1>6 DEF Has

LEMMA AskStep ==
  ASSUME QueueInv, NEW i \in DOMAIN queueRef, AskInjection(i)
  PROVE  QueueInv'
<1>1. queueRef \in Seq(Items) /\ queueRef[i] \in Items
  BY DEF QueueInv, TypeInv
<1>2. PICK a : a = [id |-> queueRef[i].id, prompt |-> queueRef[i].prompt, turn |-> shownTurn.turn]
  OBVIOUS
<1>3. /\ asks' = asks \cup {a} /\ shownTurn.turn # 0 /\ Mark(queueRef[i].id, TRUE)
      /\ UNCHANGED <<queueRef, overwritten, shownTurn, starts, stream, turn, counts, refused, run>>
  BY <1>2 DEF AskInjection
<1>4. queue' \in Seq(Items) /\ \A j, p : Has(queue', j, p) <=> Has(queue, j, p)
  BY <1>3, Marked
<1>5. a \in Asked /\ a.turn \in Turns /\ Has(queueRef, a.id, a.prompt)
  <2>1. Turns \subseteq Nat
    BY DEF Turns
  <2>2. shownTurn.turn \in Turns
    BY <1>3 DEF QueueInv, TypeInv
  <2>3. Has(queueRef, a.id, a.prompt)
    BY <1>2 DEF Has
  <2>4. queueRef[i].id \in Nat /\ queueRef[i].prompt \in Nat
    BY <1>1 DEF Items
  <2>. QED  BY <1>2, <2>1, <2>2, <2>3, <2>4 DEF Asked
<1>6. TypeInv'
  BY <1>3, <1>4, <1>5 DEF QueueInv, TypeInv, Turns
<1>7. Turns' = Turns /\ \A p : Reached(p) => Reached(p)'
  BY <1>3 DEF Turns, Reached, ToSet
<1>8. \A j, p \in Nat : (\E b \in asks' : b.id = j /\ b.prompt = p) \/ (\E t \in Turns' : InTurn(turn'[t], j, p))
                          => Injecting(j, p) \/ Seen(j, p)
  BY <1>3, <1>5, <1>7 DEF Injecting, Asking, Seen
<1>9. \A j \in Nat : Injects(stream', j) \/ (\E t \in Turns' : Injects(turn'[t].events, j))
                      => Injected(j) \/ \E p \in Nat : Injecting(j, p) /\ Reached(p)'
  BY <1>3, <1>7 DEF Injected
<1>10. counts.ids <= counts'.ids
  BY <1>3 DEF QueueInv, TypeInv, Counts
<1>11. IdsInv' /\ LostOnlyByTake'
  BY <1>3, <1>4, <1>6, <1>7, <1>8, <1>9, <1>10, Kept DEF Seen
<1>. QED  BY <1>6, <1>11 DEF QueueInv

\* What is lost when the queue is overwritten is counted as such.
LEMMA OverwriteKeeps ==
  ASSUME QueueInv, NEW q \in Seq(Items), Overwrite(q), \A i, p \in Nat : Has(q, i, p) => Has(queueRef, i, p)
  PROVE  /\ queue' \in Seq(Items) /\ queueRef' \in Seq(Items) /\ overwritten \subseteq overwritten'
         /\ \A i, p \in Nat : Has(queue', i, p) \/ Has(queueRef', i, p) => Seen(i, p)
         /\ \A i, p \in Nat : Has(queue, i, p) =>
              (\E j \in Nat : Has(queueRef, j, p)) \/ p \in overwritten'
<1>1. queueRef \in Seq(Items)
  BY DEF QueueInv, TypeInv
<1>2. ASSUME NEW i \in Nat, NEW p \in Nat, Has(queue, i, p), p \notin overwritten'
      PROVE  \E j \in Nat : Has(queueRef, j, p)
  <2>1. p \in PromptsIn(queue)
    BY <1>2 DEF Has, PromptsIn
  <2>2. p \in PromptsIn(queueRef)
    BY <1>2, <2>1 DEF Overwrite
  <2>3. PICK k \in DOMAIN queueRef : queueRef[k].prompt = p
    BY <2>2 DEF PromptsIn
  <2>4. queueRef[k] \in Items
    BY <1>1, <2>3
  <2>5. queueRef[k].id \in Nat
    BY <2>4 DEF Items
  <2>. QED  BY <2>3, <2>5 DEF Has
<1>. QED  BY <1>2 DEF Overwrite, Seen

LEMMA ElsewhereStep ==
  ASSUME QueueInv, TakenElsewhere \/ Render
  PROVE  QueueInv'
<1>1. UNCHANGED <<shownTurn, starts, asks, stream, turn, counts, refused, run>> /\ counts.ids <= counts'.ids
  BY DEF TakenElsewhere, Render, QueueInv, TypeInv, Counts
<1>2. queue \in Seq(Items) /\ queueRef \in Seq(Items)
  BY DEF QueueInv, TypeInv
<1>3. CASE TakenElsewhere
  <2>1. /\ queue' \in Seq(Items) /\ queueRef' \in Seq(Items) /\ overwritten \subseteq overwritten'
        /\ \A i, p \in Nat : Has(queue', i, p) \/ Has(queueRef', i, p) => Seen(i, p)
        /\ \A i, p \in Nat : Has(queue, i, p) => (\E j \in Nat : Has(queueRef, j, p)) \/ p \in overwritten'
    BY <1>2, <1>3, OverwriteKeeps DEF TakenElsewhere
  <2>2. queue' = queueRef
    BY <1>3 DEF TakenElsewhere, Overwrite
  <2>3. TypeInv'
    BY <1>1, <2>1 DEF QueueInv, TypeInv, Turns
  <2>. QED  BY <1>1, <2>1, <2>2, <2>3, ClientKept DEF QueueInv
<1>4. CASE Render
  <2>1. queue' = queue /\ queueRef' = queue /\ overwritten' = overwritten
    BY <1>4 DEF Render
  <2>2. TypeInv'
    BY <1>1, <1>2, <2>1 DEF QueueInv, TypeInv, Turns
  <2>. QED  BY <1>1, <2>1, <2>2, ClientKept DEF QueueInv, Seen
<1>. QED  BY <1>3, <1>4

\* An event leaves the stream; the queue loses at most an item that goes on.
LEMMA EventTaken ==
  ASSUME QueueInv, stream # <<>>, stream' = Tail(stream), queue' \in Seq(Items), queueRef' \in Seq(Items),
         overwritten \subseteq overwritten',
         \A i, p \in Nat : Has(queue', i, p) \/ Has(queueRef', i, p) => Seen(i, p),
         \A i, p \in Nat : Has(queue, i, p) =>
           (\E j \in Nat : Has(queue', j, p)) \/ (\E s \in starts' : s.prompt = p) \/ Reached(p) \/ p \in overwritten',
         starts \subseteq starts', starts' \subseteq StartsOfPrompts, \A s \in starts' \ starts : s.turn = 0,
         shownTurn' = [turn |-> shownTurn'.turn, start |-> shownTurn'.start], shownTurn'.turn \in Turns \cup {0},
         UNCHANGED <<asks, turn, counts, refused, run>>
  PROVE  QueueInv'
<1>1. stream \in Seq(Events) /\ Turns' = Turns /\ \A p : Reached(p) <=> Reached(p)'
  BY DEF QueueInv, TypeInv, Turns, Reached, ToSet
<1>2. /\ stream' \in Seq(Events) /\ \A i : Injects(stream', i) => Injects(stream, i)
      /\ \A k \in DOMAIN stream' : \E l \in DOMAIN stream : stream'[k] = stream[l]
  BY <1>1, InjectsTail
<1>3. TypeInv'
  <2>1. \A k \in DOMAIN stream' : stream'[k].turn \in Turns
    BY <1>2 DEF QueueInv, TypeInv
  <2>2. \A s \in starts' : s.turn # 0 => s.turn \in Turns /\ s.prompt \in ToSet(run)
    BY DEF QueueInv, TypeInv
  <2>. QED  BY <1>1, <1>2, <2>1, <2>2 DEF QueueInv, TypeInv, Turns
<1>4. \A i, p \in Nat : (\E a \in asks' : a.id = i /\ a.prompt = p) \/ (\E t \in Turns' : InTurn(turn'[t], i, p))
                          => Injecting(i, p) \/ Seen(i, p)
  BY <1>1 DEF Injecting, Asking
<1>5. \A i \in Nat : Injects(stream', i) \/ (\E t \in Turns' : Injects(turn'[t].events, i))
                       => Injected(i) \/ \E q \in Nat : Injecting(i, q) /\ Reached(q)'
  BY <1>1, <1>2 DEF Injected
<1>6. counts.ids <= counts'.ids
  BY DEF QueueInv, TypeInv, Counts
<1>7. IdsInv' /\ LostOnlyByTake'
  BY <1>1, <1>3, <1>4, <1>5, <1>6, Kept
<1>. QED  BY <1>3, <1>7 DEF QueueInv

\* What is taken out of the queue for an event has reached the model.
LEMMA TakenOutKeeps ==
  ASSUME QueueInv, NEW id \in Nat, Injected(id), TakenOut(id)
  PROVE  /\ queue' \in Seq(Items)
         /\ \A i, p \in Nat : Has(queue', i, p) => Has(queue, i, p)
         /\ \A i, p \in Nat : Has(queue, i, p) => Has(queue', i, p) \/ Reached(p)
<1>1. queue \in Seq(Items)
  BY DEF QueueInv, TypeInv
<1>2. CASE UNCHANGED queue
  BY <1>1, <1>2
<1>3. CASE \E k \in DOMAIN queue : queue[k].id = id /\ queue' = RemoveAt(queue, k)
  <2>1. PICK k \in DOMAIN queue : queue[k].id = id /\ queue' = RemoveAt(queue, k)
    BY <1>3
  <2>2. /\ queue' \in Seq(Items)
        /\ \A i, p : Has(queue', i, p) => Has(queue, i, p)
        /\ \A i, p : Has(queue, i, p) => Has(queue', i, p) \/ (queue[k].id = i /\ queue[k].prompt = p)
    BY <1>1, <2>1, HasRemoved
  <2>3. \A p \in Nat : Has(queue, id, p) => Reached(p)
    BY DEF QueueInv, IdsInv, Seen
  <2>. QED  BY <2>1, <2>2, <2>3
<1>. QED  BY <1>2, <1>3 DEF TakenOut

\* The first of the ref is on its way to a turn of its own; the rest is the queue.
LEMMA NextQueued ==
  ASSUME QueueInv, queueRef # <<>>, Overwrite(Tail(queueRef)),
         NEW s, s = NewStart(Head(queueRef).id, Head(queueRef).prompt, TRUE, "load"), starts' = starts \cup {s}
  PROVE  /\ queue' \in Seq(Items) /\ queueRef' \in Seq(Items) /\ overwritten \subseteq overwritten'
         /\ s \in StartsOfPrompts /\ s.turn = 0
         /\ \A i, p \in Nat : Has(queue', i, p) \/ Has(queueRef', i, p) => Seen(i, p)
         /\ \A i, p \in Nat : Has(queue, i, p) =>
              (\E j \in Nat : Has(queue', j, p)) \/ s.prompt = p \/ p \in overwritten'
<1>1. queueRef \in Seq(Items)
  BY DEF QueueInv, TypeInv
<1>2. PICK q : q = Tail(queueRef)
  OBVIOUS
<1>3. /\ q \in Seq(Items) /\ Head(queueRef) \in Items
      /\ \A i, p : Has(q, i, p) => Has(queueRef, i, p)
      /\ \A i, p : Has(queueRef, i, p) => Has(q, i, p) \/ (Head(queueRef).id = i /\ Head(queueRef).prompt = p)
  BY <1>1, <1>2, HasTail
<1>4. s \in StartsOfPrompts /\ s.turn = 0 /\ s.prompt = Head(queueRef).prompt
  BY <1>3 DEF NewStart, StartsOfPrompts, Items
<1>5. Overwrite(q) /\ queue' = q
  BY <1>2 DEF Overwrite
<1>6. /\ queue' \in Seq(Items) /\ queueRef' \in Seq(Items) /\ overwritten \subseteq overwritten'
      /\ \A i, p \in Nat : Has(queue', i, p) \/ Has(queueRef', i, p) => Seen(i, p)
      /\ \A i, p \in Nat : Has(queue, i, p) => (\E j \in Nat : Has(queueRef, j, p)) \/ p \in overwritten'
  BY <1>3, <1>5, OverwriteKeeps
<1>7. \A i, p \in Nat : Has(queueRef, i, p) => Has(queue', i, p) \/ s.prompt = p
  BY <1>3, <1>4, <1>5
<1>. QED  BY <1>4, <1>6, <1>7

LEMMA HandleEventStep ==
  ASSUME QueueInv, HandleEvent
  PROVE  QueueInv'
<1>1. stream \in Seq(Events) /\ stream # <<>>
  BY DEF HandleEvent, QueueInv, TypeInv
<1>2. PICK e : e = Head(stream)
  OBVIOUS
<1>3. /\ e \in Events /\ e.id \in Nat /\ 1 \in DOMAIN stream /\ e = stream[1]
      /\ e.type = "loop_user_message_injected" => Injects(stream, e.id)
  BY <1>1, <1>2, InjectsTail DEF Events
<1>4. e.turn \in Turns /\ (e.type = "loop_user_message_injected" => Injected(e.id))
  BY <1>3 DEF QueueInv, TypeInv, Injected
<1>5. stream' = Tail(stream) /\ UNCHANGED <<asks, turn, counts, refused, run>>
  BY DEF HandleEvent
<1>6. \A t : Forget(t) => /\ shownTurn' = [turn |-> shownTurn'.turn, start |-> shownTurn'.start]
                          /\ shownTurn'.turn \in Turns \cup {0}
  BY DEF Forget, None, QueueInv, TypeInv
<1>7. shownTurn = [turn |-> shownTurn.turn, start |-> shownTurn.start] /\ shownTurn.turn \in Turns \cup {0}
      /\ starts \subseteq StartsOfPrompts /\ queue \in Seq(Items) /\ queueRef \in Seq(Items)
  BY DEF QueueInv, TypeInv
<1>8. CASE /\ UNCHANGED <<queue, queueRef, overwritten, starts>>
           /\ shownTurn' = Shown(e.turn) \/ \E t : Forget(t)
  <2>1. shownTurn' = [turn |-> shownTurn'.turn, start |-> shownTurn'.start] /\ shownTurn'.turn \in Turns \cup {0}
    BY <1>4, <1>6, <1>8 DEF Shown
  <2>. QED  BY <1>1, <1>5, <1>7, <1>8, <2>1, EventTaken DEF Seen
<1>9. CASE e.type = "loop_user_message_injected" /\ TakenOut(e.id) /\ UNCHANGED <<queueRef, overwritten, shownTurn, starts>>
  <2>1. /\ queue' \in Seq(Items)
        /\ \A i, p \in Nat : Has(queue', i, p) => Has(queue, i, p)
        /\ \A i, p \in Nat : Has(queue, i, p) => Has(queue', i, p) \/ Reached(p)
    BY <1>3, <1>4, <1>9, TakenOutKeeps
  <2>. QED  BY <1>1, <1>5, <1>7, <1>9, <2>1, EventTaken DEF Seen
<1>10. CASE (\E t : Forget(t)) /\ queueRef # <<>> /\ Overwrite(Tail(queueRef))
            /\ starts' = starts \cup {NewStart(Head(queueRef).id, Head(queueRef).prompt, TRUE, "load")}
  <2>1. PICK s : s = NewStart(Head(queueRef).id, Head(queueRef).prompt, TRUE, "load")
    OBVIOUS
  <2>2. /\ queue' \in Seq(Items) /\ queueRef' \in Seq(Items) /\ overwritten \subseteq overwritten'
        /\ s \in StartsOfPrompts /\ s.turn = 0
        /\ \A i, p \in Nat : Has(queue', i, p) \/ Has(queueRef', i, p) => Seen(i, p)
        /\ \A i, p \in Nat : Has(queue, i, p) =>
             (\E j \in Nat : Has(queue', j, p)) \/ s.prompt = p \/ p \in overwritten'
    BY <1>10, <2>1, NextQueued
  <2>3. starts' = starts \cup {s} /\ shownTurn' = [turn |-> shownTurn'.turn, start |-> shownTurn'.start]
        /\ shownTurn'.turn \in Turns \cup {0}
    BY <1>6, <1>10, <2>1
  <2>. QED  BY <1>1, <1>5, <1>7, <2>2, <2>3, EventTaken
<1>. QED
  <2>1. \/ shownTurn' = Shown(e.turn) /\ UNCHANGED <<queue, queueRef, overwritten, starts>>
        \/ e.type = "loop_user_message_injected" /\ TakenOut(e.id) /\ UNCHANGED <<queueRef, overwritten, shownTurn, starts>>
        \/ Forget(e.turn) /\ UNCHANGED <<queue, queueRef, overwritten, starts>>
        \/ /\ \E t : Forget(t)
           /\ \/ UNCHANGED <<queue, queueRef, overwritten, starts>>
              \/ /\ queueRef # <<>> /\ Overwrite(Tail(queueRef))
                 /\ starts' = starts \cup {NewStart(Head(queueRef).id, Head(queueRef).prompt, TRUE, "load")}
    BY <1>2 DEF HandleEvent
  <2>. QED  BY <1>8, <1>9, <1>10, <2>1

-----------------------------------------------------------------------------
(* The steps of the sidecar and the turn host.                             *)

LEMMA TurnSet ==
  ASSUME TypeInv, NEW t \in Turns, NEW r \in Records, turn' = [turn EXCEPT ![t] = r], counts'.turns = counts.turns
  PROVE  /\ turn' \in Seq(Records) /\ Len(turn') = Len(turn) /\ Turns' = Turns
         /\ \A x \in Turns : turn'[x] = IF x = t THEN r ELSE turn[x]
<1>1. turn \in Seq(Records) /\ Turns = 1..Len(turn) /\ Turns' = Turns
  BY DEF TypeInv, Turns
<1>2. /\ [turn EXCEPT ![t] = r] \in Seq(Records)
      /\ Len([turn EXCEPT ![t] = r]) = Len(turn)
      /\ \A x \in 1..Len(turn) : [turn EXCEPT ![t] = r][x] = IF x = t THEN r ELSE turn[x]
  BY <1>1, ExceptSeq
<1>. QED  BY <1>1, <1>2

LEMMA RecordOf ==
  ASSUME TypeInv, NEW t \in Turns
  PROVE  /\ turn[t] \in Records /\ turn[t].events \in Seq(Events) /\ turn[t].pending \in Seq(Items)
         /\ turn[t].ready \in Seq(Items) /\ turn[t].accepted \subseteq Nat
         /\ \A k \in DOMAIN turn[t].events : turn[t].events[k].turn = t
<1>1. turn[t] \in Records
  BY DEF TypeInv, Turns
<1>. QED  BY <1>1 DEF Records, TypeInv

\* A turn changes: what it has of prompts it was sent, or was on its way to it; what it
\* tells of a prompt, the model has.
LEMMA HostKept ==
  ASSUME QueueInv, NEW t \in Turns, NEW r \in Records, turn' = [turn EXCEPT ![t] = r],
         queue' \in Seq(Items), \A i, p : Has(queue', i, p) <=> Has(queue, i, p),
         UNCHANGED <<queueRef, overwritten, starts, shownTurn, refused>>, asks' \subseteq asks, counts' \in Counts,
         counts'.ids = counts.ids, counts'.prompts = counts.prompts, counts'.turns = counts.turns,
         run' \in Seq(Nat), ToSet(run) \subseteq ToSet(run'),
         stream' \in Seq(Events), \A k \in DOMAIN stream' : stream'[k].turn \in Turns,
         \A k \in DOMAIN r.events : r.events[k].turn = t,
         \A i, p \in Nat : InTurn(r, i, p) => Injecting(i, p),
         \A i \in Nat : Injects(r.events, i) \/ Injects(stream', i) =>
           Injected(i) \/ \E q \in Nat : Injecting(i, q) /\ q \in ToSet(run')
  PROVE  QueueInv'
<1>1. /\ turn' \in Seq(Records) /\ Len(turn') = Len(turn) /\ Turns' = Turns
      /\ \A x \in Turns : turn'[x] = IF x = t THEN r ELSE turn[x]
  BY TurnSet DEF QueueInv
<1>2. TypeInv'
  BY <1>1 DEF QueueInv, TypeInv
<1>3. \A p : Reached(p)' <=> p \in ToSet(run') \/ p \in refused'
  BY DEF Reached, ToSet
<1>4. \A p : Reached(p) => Reached(p)'
  BY <1>3 DEF Reached
<1>5. \A i, p \in Nat : Has(queue', i, p) \/ Has(queueRef', i, p) => Seen(i, p)
  BY DEF Seen
<1>6. \A i, p \in Nat : (\E a \in asks' : a.id = i /\ a.prompt = p) \/ (\E x \in Turns' : InTurn(turn'[x], i, p))
                          => Injecting(i, p) \/ Seen(i, p)
  <2>1. \A i, p \in Nat, x \in Turns : InTurn(turn'[x], i, p) => Injecting(i, p)
    BY <1>1 DEF Injecting
  <2>2. \A i, p \in Nat : (\E a \in asks' : a.id = i /\ a.prompt = p) => Injecting(i, p)
    BY DEF Injecting, Asking
  <2>. QED  BY <1>1, <2>1, <2>2
<1>7. \A i \in Nat : Injects(stream', i) \/ (\E x \in Turns' : Injects(turn'[x].events, i))
                       => Injected(i) \/ \E q \in Nat : Injecting(i, q) /\ Reached(q)'
  <2>1. \A i \in Nat, x \in Turns : Injects(turn'[x].events, i) => Injected(i) \/ Injects(r.events, i)
    BY <1>1 DEF Injected
  <2>. QED  BY <1>1, <1>3, <2>1
<1>8. counts.ids <= counts'.ids
  BY DEF QueueInv, TypeInv, Counts
<1>9. IdsInv' /\ LostOnlyByTake'
  BY <1>2, <1>4, <1>5, <1>6, <1>7, <1>8, Kept
<1>. QED  BY <1>2, <1>9 DEF QueueInv

LEMMA QueueInjectionStep ==
  ASSUME QueueInv, NEW a \in asks, QueueInjection(a)
  PROVE  QueueInv'
<1>1. a \in Asked /\ a.id \in Nat /\ a.prompt \in Nat /\ a.turn \in Turns /\ Injecting(a.id, a.prompt)
  BY DEF QueueInv, TypeInv, Asked, Injecting, Asking
<1>2. PICK t : t = a.turn
  OBVIOUS
<1>3. t \in Turns /\ turn[t] \in Records /\ turn[t].events \in Seq(Events) /\ turn[t].pending \in Seq(Items)
      /\ turn[t].ready \in Seq(Items) /\ turn[t].accepted \subseteq Nat
      /\ \A k \in DOMAIN turn[t].events : turn[t].events[k].turn = t
  BY <1>1, <1>2, RecordOf DEF QueueInv
<1>4. PICK x : x = Item(a.id, a.prompt)
  OBVIOUS
<1>5. x \in Items /\ x.id = a.id /\ x.prompt = a.prompt
  BY <1>1, <1>4 DEF Item, Items
<1>6. PICK r : r = IF turn[t].state = "done" \/ a.id \in turn[t].accepted THEN turn[t]
                   ELSE [turn[t] EXCEPT !.accepted = @ \cup {a.id}, !.pending = Append(@, x)]
  OBVIOUS
<1>7. turn' = [turn EXCEPT ![t] = r]
  <2>1. CASE turn[t].state = "done" \/ a.id \in turn[t].accepted
    <3>1. turn' = turn /\ r = turn[t]
      BY <1>2, <1>6, <2>1 DEF QueueInjection
    <3>2. turn = [turn EXCEPT ![t] = turn[t]]
      BY DEF QueueInv, TypeInv
    <3>. QED  BY <3>1, <3>2
  <2>2. CASE ~(turn[t].state = "done" \/ a.id \in turn[t].accepted)
    BY <1>2, <1>4, <1>6, <2>2 DEF QueueInjection
  <2>. QED  BY <2>1, <2>2
<1>8. /\ Append(turn[t].pending, x) \in Seq(Items)
      /\ \A i, p : Has(Append(turn[t].pending, x), i, p) <=> Has(turn[t].pending, i, p) \/ (x.id = i /\ x.prompt = p)
  BY <1>3, <1>5, HasAppend
<1>9. /\ r \in Records /\ r.events = turn[t].events /\ r.ready = turn[t].ready
      /\ r.pending = turn[t].pending \/ r.pending = Append(turn[t].pending, x)
  BY <1>1, <1>3, <1>6, <1>8 DEF Records
<1>10. \A i, p \in Nat : InTurn(r, i, p) => Injecting(i, p)
  BY <1>1, <1>3, <1>5, <1>8, <1>9 DEF InTurn, Injecting
<1>11. \A i \in Nat : Injects(r.events, i) => Injected(i)
  BY <1>3, <1>9 DEF Injected
<1>12. queue \in Seq(Items) /\ stream \in Seq(Events) /\ run \in Seq(Nat) /\ counts \in Counts
       /\ \A k \in DOMAIN stream : stream[k].turn \in Turns
  BY DEF QueueInv, TypeInv
<1>13. /\ asks' = asks \ {a} /\ UNCHANGED <<queueRef, overwritten, shownTurn, core, starts, stream, refused, run>>
       /\ queue' = queue \/ Mark(a.id, FALSE)
       /\ counts' = counts \/ counts' = [counts EXCEPT !.failures = @ + 1]
  BY DEF QueueInjection
<1>14. queue' \in Seq(Items) /\ \A i, p : Has(queue', i, p) <=> Has(queue, i, p)
  <2>1. CASE queue' = queue
    BY <1>12, <2>1
  <2>2. CASE Mark(a.id, FALSE)
    BY <2>2, Marked
  <2>. QED  BY <1>13, <2>1, <2>2
<1>15. counts' \in Counts /\ counts'.ids = counts.ids /\ counts'.prompts = counts.prompts /\ counts'.turns = counts.turns
  <2>1. CASE counts' = counts
    BY <1>12, <2>1
  <2>2. CASE counts' = [counts EXCEPT !.failures = @ + 1]
    <3>1. counts.failures + 1 \in Nat /\ DOMAIN counts = {"prompts", "ids", "turns", "others", "failures"}
      BY <1>12 DEF Counts
    <3>2. [counts EXCEPT !.failures = counts.failures + 1] \in Counts
      BY <1>12, <3>1, Counted
    <3>. QED  BY <2>2, <3>1, <3>2
  <2>. QED  BY <1>13, <2>1, <2>2
<1>16. \A i \in Nat : Injects(r.events, i) \/ Injects(stream', i) => Injected(i)
  BY <1>11, <1>13 DEF Injected
<1>17. run' \in Seq(Nat) /\ ToSet(run) \subseteq ToSet(run') /\ stream' \in Seq(Events)
       /\ \A k \in DOMAIN stream' : stream'[k].turn \in Turns
  BY <1>12, <1>13
<1>18. r \in Records /\ \A k \in DOMAIN r.events : r.events[k].turn = t
  BY <1>3, <1>9
<1>. QED  BY <1>3, <1>7, <1>10, <1>13, <1>14, <1>15, <1>16, <1>17, <1>18, HostKept

\* A step of a turn by itself.
LEMMA TurnKept ==
  ASSUME QueueInv, NEW t \in Turns, NEW r \in Records, turn' = [turn EXCEPT ![t] = r],
         UNCHANGED <<queue, queueRef, overwritten, starts, shownTurn, refused, asks, counts>>,
         run' \in Seq(Nat), ToSet(run) \subseteq ToSet(run'),
         stream' \in Seq(Events), \A k \in DOMAIN stream' : stream'[k].turn \in Turns,
         \A k \in DOMAIN r.events : r.events[k].turn = t,
         \A i, p \in Nat : InTurn(r, i, p) => InTurn(turn[t], i, p),
         \A i \in Nat : Injects(r.events, i) \/ Injects(stream', i) =>
           Injects(stream, i) \/ Injects(turn[t].events, i) \/ \E q \in Nat : InTurn(turn[t], i, q) /\ q \in ToSet(run')
  PROVE  QueueInv'
<1>1. queue \in Seq(Items) /\ counts \in Counts
  BY DEF QueueInv, TypeInv
<1>2. \A i, p \in Nat : InTurn(turn[t], i, p) => Injecting(i, p)
  BY DEF Injecting
<1>3. \A i \in Nat : Injects(stream, i) \/ Injects(turn[t].events, i) => Injected(i)
  BY DEF Injected
<1>. QED  BY <1>1, <1>2, <1>3, HostKept

LEMMA PrepareStep ==
  ASSUME QueueInv, NEW t \in Turns, Prepare(t) \/ EndTurn(t) \/ Done(t)
  PROVE  QueueInv'
<1>1. /\ turn[t] \in Records /\ turn[t].events \in Seq(Events) /\ turn[t].pending \in Seq(Items)
      /\ turn[t].ready \in Seq(Items)
      /\ \A k \in DOMAIN turn[t].events : turn[t].events[k].turn = t
  BY RecordOf DEF QueueInv
<1>2. /\ UNCHANGED <<queue, queueRef, overwritten, shownTurn, starts, asks, stream, counts, refused, run>>
      /\ run \in Seq(Nat) /\ stream \in Seq(Events) /\ \A k \in DOMAIN stream : stream[k].turn \in Turns
  BY DEF Prepare, EndTurn, Done, QueueInv, TypeInv
<1>3. t \in Nat
  BY DEF Turns
<1>4. CASE Prepare(t)
  <2>1. PICK r : r = [turn[t] EXCEPT !.ready = turn[t].pending, !.pending = <<>>]
    OBVIOUS
  <2>2. turn' = [turn EXCEPT ![t] = r]
    BY <1>4, <2>1 DEF Prepare
  <2>3. r \in Records /\ r.events = turn[t].events /\ r.pending = <<>> /\ r.ready = turn[t].pending
    BY <1>1, <2>1, EmptySeq DEF Records
  <2>4. \A i, p \in Nat : InTurn(r, i, p) => InTurn(turn[t], i, p)
    BY <2>3 DEF InTurn, Has
  <2>. QED  BY <1>1, <1>2, <2>2, <2>3, <2>4, TurnKept
<1>5. CASE EndTurn(t)
  <2>1. PICK es \in {<<>>, <<Event("ended", t, 0)>>} :
          turn' = [turn EXCEPT ![t].state = "ending", ![t].events = @ \o es]
    BY <1>5 DEF EndTurn
  <2>2. PICK r : r = [turn[t] EXCEPT !.state = "ending", !.events = @ \o es]
    OBVIOUS
  <2>3. turn' = [turn EXCEPT ![t] = r]
    BY <2>1, <2>2
  <2>4. es \in Seq(Events) /\ (\A i : ~Injects(es, i)) /\ \A k \in DOMAIN es : es[k].turn = t
    <3>1. PICK e : e = Event("ended", t, 0)
      OBVIOUS
    <3>2. e \in Events /\ e.type = "ended" /\ e.turn = t
      BY <1>3, <3>1 DEF Event, Events
    <3>3. <<>> \in Seq(Events) /\ <<e>> \in Seq(Events)
      BY <3>2, EmptySeq
    <3>4. DOMAIN <<>> = {} /\ DOMAIN <<e>> = {1} /\ <<e>>[1] = e
      OBVIOUS
    <3>5. CASE es = <<>>
      BY <3>3, <3>4, <3>5 DEF Injects
    <3>6. CASE es = <<e>>
      BY <3>2, <3>3, <3>4, <3>6 DEF Injects
    <3>. QED  BY <2>1, <3>1, <3>5, <3>6
  <2>5. /\ turn[t].events \o es \in Seq(Events)
        /\ \A i : Injects(turn[t].events \o es, i) => Injects(turn[t].events, i)
    BY <1>1, <2>4, InjectsConcat
  <2>6. \A k \in DOMAIN (turn[t].events \o es) : (turn[t].events \o es)[k].turn = t
    BY <1>1, <2>4, ConcatOf
  <2>7. /\ r \in Records /\ r.events = turn[t].events \o es /\ r.pending = turn[t].pending
        /\ r.ready = turn[t].ready
    BY <1>1, <2>2, <2>5 DEF Records
  <2>8. \A i, p \in Nat : InTurn(r, i, p) => InTurn(turn[t], i, p)
    BY <2>7 DEF InTurn
  <2>9. (\A k \in DOMAIN r.events : r.events[k].turn = t)
        /\ \A i : Injects(r.events, i) \/ Injects(stream', i) => Injects(stream, i) \/ Injects(turn[t].events, i)
    BY <1>2, <2>5, <2>6, <2>7
  <2>. QED  BY <1>2, <2>3, <2>7, <2>8, <2>9, TurnKept
<1>6. CASE Done(t)
  <2>1. PICK r : r = [turn[t] EXCEPT !.state = "done"]
    OBVIOUS
  <2>2. turn' = [turn EXCEPT ![t] = r]
    BY <1>6, <2>1 DEF Done
  <2>3. r \in Records /\ r.events = turn[t].events /\ r.pending = turn[t].pending /\ r.ready = turn[t].ready
    BY <1>1, <2>1 DEF Records
  <2>4. \A i, p \in Nat : InTurn(r, i, p) => InTurn(turn[t], i, p)
    BY <2>3 DEF InTurn
  <2>. QED  BY <1>1, <1>2, <2>2, <2>3, <2>4, TurnKept
<1>. QED  BY <1>4, <1>5, <1>6

\* What the turn takes for its next message, the model is given.
LEMMA TakeStep ==
  ASSUME QueueInv, NEW t \in Turns, Take(t)
  PROVE  QueueInv'
<1>1. /\ turn[t] \in Records /\ turn[t].events \in Seq(Events) /\ turn[t].pending \in Seq(Items)
      /\ turn[t].ready \in Seq(Items)
      /\ \A k \in DOMAIN turn[t].events : turn[t].events[k].turn = t
  BY RecordOf DEF QueueInv
<1>2. PICK batch : batch = turn[t].ready
  OBVIOUS
<1>3. batch \in Seq(Items) /\ DOMAIN batch = 1..Len(batch) /\ Len(batch) \in Nat
      /\ \A k \in DOMAIN batch : batch[k] \in Items /\ batch[k].id \in Nat /\ batch[k].prompt \in Nat
  <2>1. batch \in Seq(Items)
    BY <1>1, <1>2
  <2>2. DOMAIN batch = 1..Len(batch) /\ Len(batch) \in Nat /\ \A k \in DOMAIN batch : batch[k] \in Items
    BY <2>1
  <2>3. \A x \in Items : x.id \in Nat /\ x.prompt \in Nat
    BY DEF Items
  <2>. QED  BY <2>1, <2>2, <2>3
<1>4. PICK es : es = [i \in DOMAIN batch |-> Event("loop_user_message_injected", t, batch[i].id)]
  OBVIOUS
<1>5. PICK ps : ps = [i \in DOMAIN batch |-> batch[i].prompt]
  OBVIOUS
<1>6. PICK r : r = [turn[t] EXCEPT !.ready = <<>>, !.events = @ \o es]
  OBVIOUS
<1>7. /\ turn' = [turn EXCEPT ![t] = r] /\ run' = run \o ps
      /\ UNCHANGED <<queue, queueRef, overwritten, shownTurn, starts, asks, stream, counts, refused>>
  BY <1>2, <1>4, <1>5, <1>6 DEF Take
<1>8. t \in Nat
  BY DEF Turns
<1>9. es \in Seq(Events) /\ DOMAIN es = DOMAIN batch
      /\ \A k \in DOMAIN es : es[k].turn = t /\ es[k].id = batch[k].id
  <2>1. \A k \in DOMAIN batch : Event("loop_user_message_injected", t, batch[k].id) \in Events
    BY <1>3, <1>8 DEF Event, Events
  <2>2. es \in [1..Len(batch) -> Events]
    BY <1>3, <1>4, <2>1
  <2>3. es \in Seq(Events)
    BY <1>3, <2>2
  <2>. QED  BY <1>4, <2>3 DEF Event
<1>10. ps \in Seq(Nat) /\ DOMAIN ps = DOMAIN batch /\ \A k \in DOMAIN ps : ps[k] = batch[k].prompt
  <2>1. ps \in [1..Len(batch) -> Nat]
    BY <1>3, <1>5
  <2>2. ps \in Seq(Nat)
    BY <1>3, <2>1
  <2>. QED  BY <1>5, <2>2
<1>11. run \in Seq(Nat) /\ stream \in Seq(Events) /\ \A k \in DOMAIN stream : stream[k].turn \in Turns
  BY DEF QueueInv, TypeInv
<1>12. run' \in Seq(Nat) /\ ToSet(run') = ToSet(run) \cup ToSet(ps)
  BY <1>7, <1>10, <1>11, RunGrows
<1>13. \A i : Injects(es, i) => \E q \in Nat : Has(batch, i, q) /\ q \in ToSet(ps)
  <2> SUFFICES ASSUME NEW i, Injects(es, i) PROVE \E q \in Nat : Has(batch, i, q) /\ q \in ToSet(ps)
    OBVIOUS
  <2>1. PICK k \in DOMAIN es : es[k].id = i
    BY DEF Injects
  <2>2. Has(batch, i, batch[k].prompt) /\ batch[k].prompt \in Nat
    BY <1>3, <1>9, <2>1 DEF Has
  <2>3. batch[k].prompt \in ToSet(ps)
    BY <1>9, <1>10, <2>1 DEF ToSet
  <2>. QED  BY <2>2, <2>3
<1>14. /\ turn[t].events \o es \in Seq(Events)
       /\ \A i : Injects(turn[t].events \o es, i) => Injects(turn[t].events, i) \/ Injects(es, i)
  BY <1>1, <1>9, InjectsConcat
<1>15. \A k \in DOMAIN (turn[t].events \o es) : (turn[t].events \o es)[k].turn = t
  BY <1>1, <1>9, ConcatOf
<1>16. /\ r \in Records /\ r.events = turn[t].events \o es /\ r.pending = turn[t].pending /\ r.ready = <<>>
  BY <1>1, <1>6, <1>14, EmptySeq DEF Records
<1>17. \A i, p \in Nat : InTurn(r, i, p) => InTurn(turn[t], i, p)
  BY <1>16 DEF InTurn, Has
<1>18. \A i, p \in Nat : Has(batch, i, p) => InTurn(turn[t], i, p)
  BY <1>2 DEF InTurn
<1>19. \A k \in DOMAIN r.events : r.events[k].turn = t
  BY <1>15, <1>16
<1>20. \A i \in Nat : Injects(r.events, i) \/ Injects(stream', i) =>
         Injects(stream, i) \/ Injects(turn[t].events, i) \/ \E q \in Nat : InTurn(turn[t], i, q) /\ q \in ToSet(run')
  <2> SUFFICES ASSUME NEW i \in Nat, Injects(es, i)
               PROVE  \E q \in Nat : InTurn(turn[t], i, q) /\ q \in ToSet(run')
    BY <1>7, <1>14, <1>16
  <2>. QED  BY <1>12, <1>13, <1>18
<1>. QED  BY <1>7, <1>11, <1>12, <1>16, <1>17, <1>19, <1>20, TurnKept

LEMMA DrainStep ==
  ASSUME QueueInv, NEW t \in Turns, Drain(t)
  PROVE  QueueInv'
<1>1. /\ turn[t] \in Records /\ turn[t].events \in Seq(Events)
      /\ \A k \in DOMAIN turn[t].events : turn[t].events[k].turn = t
  BY RecordOf DEF QueueInv
<1>2. run \in Seq(Nat) /\ stream \in Seq(Events) /\ \A k \in DOMAIN stream : stream[k].turn \in Turns
  BY DEF QueueInv, TypeInv
<1>3. t \in Nat
  BY DEF Turns
<1>4. CASE turn[t].events # <<>>
  <2>1. PICK e : e = Head(turn[t].events)
    OBVIOUS
  <2>2. PICK r : r = [turn[t] EXCEPT !.events = Tail(@)]
    OBVIOUS
  <2>3. /\ turn' = [turn EXCEPT ![t] = r] /\ stream' = Append(stream, e)
        /\ UNCHANGED <<queue, queueRef, overwritten, shownTurn, starts, asks, counts, refused, run>>
    BY <1>4, <2>1, <2>2 DEF Drain
  <2>4. /\ Tail(turn[t].events) \in Seq(Events) /\ e \in Events /\ e.turn = t
        /\ \A i : Injects(Tail(turn[t].events), i) => Injects(turn[t].events, i)
        /\ e.type = "loop_user_message_injected" => Injects(turn[t].events, e.id)
        /\ \A k \in DOMAIN Tail(turn[t].events) : Tail(turn[t].events)[k].turn = t
    BY <1>1, <1>4, <2>1, InjectsTail
  <2>5. /\ stream' \in Seq(Events)
        /\ \A i : Injects(stream', i) => Injects(stream, i) \/ (e.type = "loop_user_message_injected" /\ e.id = i)
        /\ \A k \in DOMAIN stream' : stream'[k].turn \in Turns
    BY <1>2, <2>3, <2>4, InjectsAppend
  <2>6. /\ r \in Records /\ r.events = Tail(turn[t].events) /\ r.pending = turn[t].pending
        /\ r.ready = turn[t].ready
    BY <1>1, <2>2, <2>4 DEF Records
  <2>7. \A i, p \in Nat : InTurn(r, i, p) => InTurn(turn[t], i, p)
    BY <2>6 DEF InTurn
  <2>8. \A i : Injects(r.events, i) \/ Injects(stream', i) => Injects(stream, i) \/ Injects(turn[t].events, i)
    BY <2>4, <2>5, <2>6
  <2>9. (\A k \in DOMAIN r.events : r.events[k].turn = t) /\ run' \in Seq(Nat) /\ ToSet(run) \subseteq ToSet(run')
    BY <1>2, <2>3, <2>4, <2>6
  <2>. QED  BY <2>3, <2>5, <2>6, <2>7, <2>8, <2>9, TurnKept
<1>5. CASE turn[t].events = <<>>
  <2>1. PICK e : e = Event("turn_result", t, 0)
    OBVIOUS
  <2>2. e \in Events /\ e.type = "turn_result" /\ e.turn = t
    BY <1>3, <2>1 DEF Event, Events
  <2>3. PICK r : r = [turn[t] EXCEPT !.drained = TRUE]
    OBVIOUS
  <2>4. /\ turn' = [turn EXCEPT ![t] = r] /\ stream' = Append(stream, e)
        /\ UNCHANGED <<queue, queueRef, overwritten, shownTurn, starts, asks, counts, refused, run>>
    BY <1>5, <2>1, <2>3 DEF Drain
  <2>5. /\ stream' \in Seq(Events)
        /\ \A i : Injects(stream', i) => Injects(stream, i)
        /\ \A k \in DOMAIN stream' : stream'[k].turn \in Turns
    BY <1>2, <2>2, <2>4, InjectsAppend
  <2>6. /\ r \in Records /\ r.events = turn[t].events /\ r.pending = turn[t].pending
        /\ r.ready = turn[t].ready
    BY <1>1, <2>3 DEF Records
  <2>7. \A i, p \in Nat : InTurn(r, i, p) => InTurn(turn[t], i, p)
    BY <2>6 DEF InTurn
  <2>. QED  BY <1>1, <1>2, <2>4, <2>5, <2>6, <2>7, TurnKept
<1>. QED  BY <1>4, <1>5

\* A turn is accepted; the prompt it starts with has reached the model.
LEMMA Accepted ==
  ASSUME QueueInv, Accept, counts' \in Counts, counts'.turns = counts.turns + 1,
         counts'.ids = counts.ids, counts'.prompts = counts.prompts,
         UNCHANGED <<queue, queueRef, overwritten, shownTurn, asks, stream, refused>>,
         run' \in Seq(Nat), ToSet(run) \subseteq ToSet(run'),
         starts' \subseteq StartsOfPrompts,
         \A s \in starts' : s.turn # 0 => s.turn \in 1..counts.turns + 1 /\ s.prompt \in ToSet(run'),
         \A x \in starts : \E s \in starts' : s.prompt = x.prompt
  PROVE  QueueInv'
<1>1. PICK n : n = counts.turns + 1
  OBVIOUS
<1>2. counts.turns \in Nat /\ n \in Nat /\ turn \in Seq(Records) /\ Len(turn) = counts.turns
      /\ Turns = 1..counts.turns /\ Turns' = 1..n /\ Turns \subseteq Turns'
  BY <1>1 DEF QueueInv, TypeInv, Counts, Turns
<1>3. PICK e : e = Event("turn_started", n, 0)
  OBVIOUS
<1>4. e \in Events /\ e.type = "turn_started" /\ e.turn = n /\ <<e>> \in Seq(Events)
  BY <1>2, <1>3 DEF Event, Events
<1>5. PICK r : r = [state |-> "running", events |-> <<e>>, accepted |-> {}, pending |-> <<>>,
                    ready |-> <<>>, drained |-> FALSE]
  OBVIOUS
<1>6. r \in Records /\ r.events = <<e>> /\ r.pending = <<>> /\ r.ready = <<>>
  BY <1>4, <1>5, EmptySeq DEF Records
<1>7. turn' = Append(turn, r)
  BY <1>1, <1>3, <1>5 DEF Accept, NewTurn
<1>8. /\ turn' \in Seq(Records) /\ Len(turn') = n
      /\ turn'[n] = r /\ \A t \in Turns : turn'[t] = turn[t]
  BY <1>1, <1>2, <1>6, <1>7, AppendProperties
<1>9. \A t \in Turns' : t \in Turns \/ t = n
  BY <1>1, <1>2
<1>10. TypeInv'
  <2>1. \A t \in Turns' : \A k \in DOMAIN turn'[t].events : turn'[t].events[k].turn = t
    <3>1. \A k \in DOMAIN r.events : r.events[k].turn = n
      <4>1. DOMAIN <<e>> = {1} /\ <<e>>[1] = e
        OBVIOUS
      <4>. QED  BY <1>4, <1>6, <4>1
    <3>2. \A t \in Turns : \A k \in DOMAIN turn'[t].events : turn'[t].events[k].turn = t
      <4>1. \A t \in Turns : \A k \in DOMAIN turn[t].events : turn[t].events[k].turn = t
        BY DEF QueueInv, TypeInv
      <4>. QED  BY <1>8, <4>1
    <3>3. \A k \in DOMAIN turn'[n].events : turn'[n].events[k].turn = n
      BY <1>8, <3>1
    <3>. QED  BY <1>9, <3>2, <3>3
  <2>. QED  BY <1>1, <1>2, <1>8, <2>1 DEF QueueInv, TypeInv
<1>11. \A p : Reached(p) => Reached(p)'
  BY DEF Reached, ToSet
<1>12. (\A i, p : ~InTurn(r, i, p)) /\ \A i : ~Injects(r.events, i)
  BY <1>4, <1>6 DEF InTurn, Has, Injects
<1>13. \A i, p \in Nat : (\E a \in asks' : a.id = i /\ a.prompt = p) \/ (\E t \in Turns' : InTurn(turn'[t], i, p))
                           => Injecting(i, p) \/ Seen(i, p)
  BY <1>8, <1>9, <1>12 DEF Injecting, Asking
<1>14. \A i \in Nat : Injects(stream', i) \/ (\E t \in Turns' : Injects(turn'[t].events, i))
                        => Injected(i) \/ \E q \in Nat : Injecting(i, q) /\ Reached(q)'
  BY <1>8, <1>9, <1>12 DEF Injected
<1>15. counts.ids <= counts'.ids
  BY DEF QueueInv, TypeInv, Counts
<1>16. IdsInv' /\ LostOnlyByTake'
  BY <1>10, <1>11, <1>13, <1>14, <1>15, Kept DEF QueueInv, Seen
<1>. QED  BY <1>10, <1>16 DEF QueueInv

LEMMA StartTurnStep ==
  ASSUME QueueInv, NEW s \in starts, StartTurn(s)
  PROVE  QueueInv'
<1>1. s \in StartsOfPrompts /\ s.prompt \in Nat /\ starts \subseteq StartsOfPrompts /\ run \in Seq(Nat)
      /\ counts \in Counts /\ counts.turns \in Nat /\ counts.failures \in Nat
      /\ DOMAIN counts = {"prompts", "ids", "turns", "others", "failures"}
  BY DEF QueueInv, TypeInv, StartsOfPrompts, Counts
<1>2. UNCHANGED <<queue, queueRef, overwritten, shownTurn, asks, stream, refused>>
  BY DEF StartTurn
<1>3. CASE Accept /\ counts' = [counts EXCEPT !.turns = @ + 1] /\ run' = Append(run, s.prompt)
           /\ starts' = (starts \ {s}) \cup {[s EXCEPT !.step = "answer", !.turn = counts'.turns]}
  <2>1. counts.turns + 1 \in Nat
    BY <1>1
  <2>2. [counts EXCEPT !.turns = counts.turns + 1] \in Counts
    BY <1>1, <2>1, Counted
  <2>3. counts' \in Counts /\ counts'.turns = counts.turns + 1 /\ counts'.ids = counts.ids
        /\ counts'.prompts = counts.prompts
    BY <1>1, <1>3, <2>2
  <2>4. PICK x : x = [s EXCEPT !.step = "answer", !.turn = counts'.turns]
    OBVIOUS
  <2>5. x \in StartsOfPrompts /\ x.prompt = s.prompt /\ x.turn = counts.turns + 1
    BY <1>1, <2>1, <2>3, <2>4 DEF StartsOfPrompts
  <2>6. starts' = (starts \ {s}) \cup {x}
    BY <1>3, <2>4
  <2>7. run' \in Seq(Nat) /\ ToSet(run) \subseteq ToSet(run') /\ s.prompt \in ToSet(run')
    <3>1. /\ run' \in Seq(Nat) /\ Len(run') = Len(run) + 1 /\ Len(run) \in Nat
          /\ \A k \in 1..Len(run) : run'[k] = run[k]
          /\ run'[Len(run) + 1] = s.prompt
      BY <1>1, <1>3, AppendProperties
    <3>2. DOMAIN run' = 1..Len(run) + 1 /\ DOMAIN run = 1..Len(run)
      BY <1>1, <3>1
    <3>3. Len(run) + 1 \in DOMAIN run' /\ \A k \in DOMAIN run : k \in DOMAIN run' /\ run'[k] = run[k]
      BY <3>1, <3>2
    <3>. QED  BY <3>1, <3>3 DEF ToSet
  <2>8. \A y \in starts' : y.turn # 0 => y.turn \in 1..counts.turns + 1 /\ y.prompt \in ToSet(run')
    BY <1>1, <2>5, <2>6, <2>7 DEF QueueInv, TypeInv, Turns
  <2>. QED  BY <1>1, <1>2, <1>3, <2>3, <2>5, <2>6, <2>7, <2>8, Accepted
<1>4. CASE /\ starts' = (starts \ {s}) \cup {[s EXCEPT !.step = "answer", !.turn = 0]}
           /\ counts' = counts \/ counts' = [counts EXCEPT !.failures = @ + 1]
           /\ UNCHANGED <<turn, run>>
  <2>1. PICK x : x = [s EXCEPT !.step = "answer", !.turn = 0]
    OBVIOUS
  <2>2. x \in StartsOfPrompts /\ x.prompt = s.prompt /\ x.turn = 0
    BY <1>1, <2>1 DEF StartsOfPrompts
  <2>3. starts' = (starts \ {s}) \cup {x}
    BY <1>4, <2>1
  <2>4. [counts EXCEPT !.failures = counts.failures + 1] \in Counts
    <3>1. counts.failures + 1 \in Nat
      BY <1>1
    <3>. QED  BY <1>1, <3>1, Counted
  <2>5. counts' \in Counts /\ counts'.turns = counts.turns /\ counts'.ids = counts.ids /\ counts'.prompts = counts.prompts
    BY <1>1, <1>4, <2>4
  <2>6. TypeInv'
    BY <1>2, <1>4, <2>2, <2>3, <2>5 DEF QueueInv, TypeInv, Turns
  <2>7. \A y \in starts : \E z \in starts' : z.prompt = y.prompt
    BY <2>2, <2>3
  <2>8. counts.ids <= counts'.ids
    BY <2>5 DEF Counts
  <2>9. IdsInv' /\ LostOnlyByTake'
    BY <1>2, <1>4, <2>5, <2>6, <2>7, <2>8, ClientKept DEF QueueInv, Seen
  <2>. QED  BY <2>6, <2>9 DEF QueueInv
<1>. QED  BY <1>3, <1>4 DEF StartTurn

LEMMA OtherStartsStep ==
  ASSUME QueueInv, OtherStarts
  PROVE  QueueInv'
<1>1. counts \in Counts /\ counts.turns \in Nat /\ counts.others \in Nat
      /\ DOMAIN counts = {"prompts", "ids", "turns", "others", "failures"}
  BY DEF QueueInv, TypeInv, Counts
<1>2. counts.turns + 1 \in Nat /\ counts.others + 1 \in Nat
  BY <1>1
<1>3. [counts EXCEPT !.turns = counts.turns + 1, !.others = counts.others + 1] \in Counts
  BY <1>1, <1>2, Counted
<1>4. Accept /\ counts' = [counts EXCEPT !.turns = @ + 1, !.others = @ + 1]
      /\ UNCHANGED <<queue, queueRef, overwritten, shownTurn, starts, asks, stream, refused, run>>
  BY DEF OtherStarts
<1>5. counts' \in Counts /\ counts'.turns = counts.turns + 1 /\ counts'.ids = counts.ids
      /\ counts'.prompts = counts.prompts
  BY <1>1, <1>3, <1>4
<1>6. run \in Seq(Nat) /\ starts \subseteq StartsOfPrompts
      /\ \A s \in starts : s.turn # 0 => s.turn \in 1..counts.turns + 1 /\ s.prompt \in ToSet(run)
  BY <1>1 DEF QueueInv, TypeInv, Turns
<1>. QED  BY <1>4, <1>5, <1>6, Accepted
-----------------------------------------------------------------------------
LEMMA QueueInit == PromptInit => QueueInv
<1> SUFFICES ASSUME PromptInit PROVE QueueInv
  OBVIOUS
<1>1. TypeInv
  BY EmptySeq DEF PromptInit, TypeInv, Counts, Turns, None
<1>2. /\ \A i, p : ~Seen(i, p) /\ ~Injecting(i, p)
      /\ \A i : ~Injected(i)
  BY DEF PromptInit, Seen, Has, Injecting, Asking, Injected, Injects, Turns
<1>3. IdsInv
  BY <1>2 DEF PromptInit, IdsInv
<1>. QED  BY <1>1, <1>3 DEF PromptInit, LostOnlyByTake, QueueInv

LEMMA QueueNext ==
  ASSUME QueueInv, [PromptNext]_promptVars
  PROVE  QueueInv'
<1>1. CASE UNCHANGED promptVars
  <2>1. TypeInv'
    BY <1>1 DEF promptVars, QueueInv, TypeInv, Turns
  <2>2. counts.ids <= counts'.ids
    BY <1>1 DEF promptVars, QueueInv, TypeInv, Counts
  <2>3. IdsInv' /\ LostOnlyByTake'
    BY <1>1, <2>1, <2>2, ClientKept DEF promptVars, QueueInv, Seen
  <2>. QED  BY <2>1, <2>3 DEF QueueInv
<1>2. CASE Client
  BY <1>2, SendPromptStep, ElsewhereStep, HandleEventStep, StartSteps, AskStep DEF Client
<1>3. CASE HostStep
  BY <1>3, OtherStartsStep, StartTurnStep, QueueInjectionStep, PrepareStep, TakeStep, DrainStep DEF HostStep
<1>. QED  BY <1>1, <1>2, <1>3 DEF PromptNext

\* Whatever fails, is refused or overtakes, a prompt of the user is lost only when a take
\* overwrites what was put into the queue since the last render.
THEOREM PromptsKept == PromptSpec => []LostOnlyByTake
<1>1. QueueInv => LostOnlyByTake
  BY DEF QueueInv
<1>2. QueueInv /\ [PromptNext]_promptVars => QueueInv'
  BY QueueNext
<1>. QED  BY <1>1, <1>2, QueueInit, PTL DEF PromptSpec

-----------------------------------------------------------------------------
(***************************************************************************)
(* Theorems about ReplQueue, for any number of tasks and interrupts: the   *)
(* prompts of the terminal reach the model in the order they were entered, *)
(* and an interrupt that was accepted reaches the turn.                    *)
(***************************************************************************)

-----------------------------------------------------------------------------
(* The invariant.                                                          *)

TaskRecords == [id : Nat \ {0}, kind : {"turn", "compact"}] \cup {Closing}

UiSteps == {"none", "put", "interrupt", "refused", "clear", "close", "closed"}
WorkerSteps == {"get", "got", "start", "compact", "started", "check", "wait", "finish", "over"}

QueueTypes ==
  /\ taskQueue \in Seq(TaskRecords) /\ reached \in Seq(Nat) /\ ready \in Seq(Nat)
  /\ entered \in Nat /\ handle \in Nat /\ requested \in BOOLEAN
  /\ ui \in [step : UiSteps, arg : Nat, kind : {"none", "turn", "compact"}]
  /\ worker \in [step : WorkerSteps, task : TaskRecords]
  /\ hostTurn \in [id : Nat, state : {"none", "running", "done"}, interrupted : BOOLEAN, popped : Nat]

\* The worker has taken a prompt out of the queue and has not started its turn.
Holding == worker.step \in {"got", "start"} /\ worker.task.kind = "turn"

Waits == worker.step \in {"started", "check", "wait"}

\* A turn is the one the worker waits for; what was prepared for it goes with it.
TurnInv ==
  /\ Waits => hostTurn.state # "none" /\ hostTurn.id = worker.task.id /\ worker.task.kind = "turn"
  /\ ~Waits => hostTurn.state = "none"
  /\ hostTurn.popped # 0 => hostTurn.state = "running"
  /\ ready # <<>> => Waits \/ worker.step = "finish"
  /\ worker.step = "start" => worker.task.kind = "turn"
  /\ worker.step \in {"check", "wait"} => handle = worker.task.id
  /\ ui.step = "put" => ui.kind \in {"turn", "compact"} /\ ui.arg = entered /\ entered # 0

\* An interrupt that is accepted and not on its way has reached the turn.
StopInv == requested /\ worker.step = "wait" /\ ui.step \notin {"interrupt", "refused"}
             => hostTurn.interrupted \/ hostTurn.state = "done"

HasItem(s, n) == \E i \in DOMAIN s : s[i] = n
Increasing(s) == \A i, j \in DOMAIN s : i < j => s[i] < s[j]

\* Of tasks in the queue: the prompts among them.
Ordered(q) == \A i, j \in DOMAIN q : i < j /\ q[i].kind = "turn" /\ q[j].kind = "turn" => q[i].id < q[j].id
Behind(q, n) == \A i \in DOMAIN q : q[i].kind = "turn" => n < q[i].id
UpTo(q, n) == \A i \in DOMAIN q : q[i].kind = "turn" => q[i].id <= n

\* What has left the queue, in the order it reaches the model: prompts that did, prompts
\* that are prepared, the one that is being prepared, the one the worker holds.
InFront(n) == HasItem(reached, n) \/ HasItem(ready, n) \/ n = hostTurn.popped \/ (Holding /\ n = worker.task.id)

OrderInv ==
  /\ Increasing(reached) /\ Increasing(ready) /\ Ordered(taskQueue)
  /\ \A m, n : HasItem(reached, m) /\ HasItem(ready, n) => m < n
  /\ hostTurn.popped # 0 => \A m : HasItem(reached, m) \/ HasItem(ready, m) => m < hostTurn.popped
  /\ Holding => \A m : HasItem(reached, m) => m < worker.task.id
  /\ \A n : InFront(n) => Behind(taskQueue, n)
  /\ \A n : InFront(n) => n <= entered /\ (ui.step = "put" => n < entered)
  /\ UpTo(taskQueue, entered)
  /\ ui.step = "put" => UpTo(taskQueue, entered - 1)

ReplInv == QueueTypes /\ TurnInv /\ StopInv /\ OrderInv

-----------------------------------------------------------------------------
(* Sequences.                                                              *)

\* A number that is put at the end of a sequence.
LEMMA ItemAppended ==
  ASSUME NEW s \in Seq(Nat), NEW x \in Nat
  PROVE  /\ Append(s, x) \in Seq(Nat)
         /\ \A n : HasItem(Append(s, x), n) <=> HasItem(s, n) \/ n = x
         /\ Increasing(s) /\ (\A n : HasItem(s, n) => n < x) => Increasing(Append(s, x))
<1>1. /\ Append(s, x) \in Seq(Nat) /\ Len(Append(s, x)) = Len(s) + 1 /\ Len(s) \in Nat
      /\ \A k \in 1..Len(s) : Append(s, x)[k] = s[k]
      /\ Append(s, x)[Len(s) + 1] = x
  BY AppendProperties
<1>2. PICK r : r = Append(s, x)
  OBVIOUS
<1>3. DOMAIN r = 1..Len(s) + 1 /\ DOMAIN s = 1..Len(s) /\ r \in Seq(Nat)
  BY <1>1, <1>2
<1>4. /\ \A k \in DOMAIN s : k \in DOMAIN r /\ r[k] = s[k]
      /\ Len(s) + 1 \in DOMAIN r /\ r[Len(s) + 1] = x
      /\ \A k \in DOMAIN r : k \in DOMAIN s \/ (k = Len(s) + 1 /\ r[k] = x)
  BY <1>1, <1>2, <1>3
<1>5. \A n : HasItem(r, n) <=> HasItem(s, n) \/ n = x
  BY <1>4 DEF HasItem
<1>6. ASSUME Increasing(s), \A n : HasItem(s, n) => n < x,
             NEW i \in DOMAIN r, NEW j \in DOMAIN r, i < j
      PROVE  r[i] < r[j]
  <2>1. i \in DOMAIN s /\ r[i] = s[i]
    BY <1>1, <1>3, <1>4, <1>6
  <2>2. CASE j \in DOMAIN s
    BY <1>4, <1>6, <2>1, <2>2 DEF Increasing
  <2>3. CASE r[j] = x
    BY <1>6, <2>1, <2>3 DEF HasItem
  <2>. QED  BY <1>4, <2>2, <2>3
<1>. QED  BY <1>2, <1>3, <1>5, <1>6 DEF Increasing

\* The first number of a sequence is taken out.
LEMMA ItemOfTail ==
  ASSUME NEW s \in Seq(Nat), s # <<>>
  PROVE  /\ Tail(s) \in Seq(Nat) /\ Head(s) \in Nat
         /\ \A n : HasItem(s, n) <=> HasItem(Tail(s), n) \/ n = Head(s)
         /\ Increasing(s) => Increasing(Tail(s)) /\ \A n : HasItem(Tail(s), n) => Head(s) < n
<1>1. /\ Tail(s) \in Seq(Nat) /\ Head(s) \in Nat /\ Len(Tail(s)) = Len(s) - 1
      /\ \A k \in 1..Len(Tail(s)) : Tail(s)[k] = s[k + 1]
  BY HeadTailProperties
<1>2. PICK r : r = Tail(s)
  OBVIOUS
<1>3. /\ Len(s) \in Nat \ {0} /\ DOMAIN s = 1..Len(s) /\ DOMAIN r = 1..Len(s) - 1 /\ Head(s) = s[1]
      /\ 1 \in DOMAIN s
  BY <1>1, <1>2
<1>4. ASSUME NEW k \in DOMAIN r PROVE k + 1 \in DOMAIN s /\ r[k] = s[k + 1] /\ 1 < k + 1
  BY <1>1, <1>2, <1>3
<1>5. ASSUME NEW k \in DOMAIN s, k # 1 PROVE k - 1 \in DOMAIN r /\ r[k - 1] = s[k]
  <2>1. k - 1 \in DOMAIN r /\ (k - 1) + 1 = k
    BY <1>3, <1>5
  <2>. QED  BY <1>4, <2>1
<1>6. \A n : HasItem(s, n) <=> HasItem(r, n) \/ n = Head(s)
  BY <1>3, <1>4, <1>5 DEF HasItem
<1>7. Increasing(s) => \A n : HasItem(r, n) => Head(s) < n
  BY <1>3, <1>4 DEF HasItem, Increasing
<1>8. ASSUME Increasing(s), NEW i \in DOMAIN r, NEW j \in DOMAIN r, i < j
      PROVE  r[i] < r[j]
  <2>1. i + 1 < j + 1
    BY <1>3, <1>8
  <2>. QED  BY <1>4, <1>8, <2>1 DEF Increasing
<1>. QED  BY <1>1, <1>2, <1>6, <1>7, <1>8 DEF Increasing

LEMMA HasEmpty == <<>> \in Seq(Nat) /\ Increasing(<<>>) /\ \A n : ~HasItem(<<>>, n)
  BY EmptySeq DEF HasItem, Increasing

LEMMA LeastNumber ==
  ASSUME NEW S \in SUBSET Nat, S # {}
  PROVE  \E x \in S : \A y \in S : x <= y
<1> DEFINE R == OpToRel(<, Nat)
<1>1. IsWellFoundedOn(R, Nat)
  BY NatLessThanWellFounded
<1>2. \A x, y \in Nat : x < y => <<x, y>> \in R
  BY DEF OpToRel
<1> HIDE DEF R
<1>3. PICK x \in S : \A y \in S : ~ (<<y, x>> \in R)
  BY <1>1, WFMin
<1>4. ASSUME NEW y \in S PROVE x <= y
  <2>1. x \in Nat /\ y \in Nat /\ ~(y < x)
    BY <1>2, <1>3
  <2>. QED  BY <2>1
<1>. QED  BY <1>4

\* r has the tasks of q but the one at k, before which there is no prompt.
Without(r, q, k) ==
  /\ r \in Seq(TaskRecords)
  /\ \A i \in DOMAIN r : \E j \in DOMAIN q : r[i] = q[j] /\ j = IF i < k THEN i ELSE i + 1

LEMMA TasksWithout ==
  ASSUME NEW q \in Seq(TaskRecords), NEW r, NEW k \in DOMAIN q, Without(r, q, k),
         \A i \in DOMAIN q : i < k => q[i].kind # "turn", Ordered(q)
  PROVE  /\ Ordered(r)
         /\ \A n : Behind(q, n) => Behind(r, n)
         /\ \A n : UpTo(q, n) => UpTo(r, n)
         /\ q[k].kind = "turn" => Behind(r, q[k].id)
<1>1. DOMAIN q = 1..Len(q) /\ Len(q) \in Nat /\ r \in Seq(TaskRecords)
  BY DEF Without
<1>2. DOMAIN r = 1..Len(r) /\ Len(r) \in Nat
  BY <1>1
<1>3. ASSUME NEW i \in DOMAIN r
      PROVE  \E l \in DOMAIN q : r[i] = q[l] /\ l = IF i < k THEN i ELSE i + 1
  BY DEF Without
<1>4. ASSUME NEW i \in DOMAIN r, NEW j \in DOMAIN r, i < j, r[i].kind = "turn", r[j].kind = "turn"
      PROVE  r[i].id < r[j].id
  <2>1. PICK a \in DOMAIN q : r[i] = q[a] /\ a = IF i < k THEN i ELSE i + 1
    BY <1>3
  <2>2. PICK b \in DOMAIN q : r[j] = q[b] /\ b = IF j < k THEN j ELSE j + 1
    BY <1>3
  <2>3. a < b
    BY <1>1, <1>2, <1>4, <2>1, <2>2
  <2>. QED  BY <1>4, <2>1, <2>2, <2>3 DEF Ordered
<1>5. \A n : Behind(q, n) => Behind(r, n)
  BY <1>3 DEF Behind
<1>6. \A n : UpTo(q, n) => UpTo(r, n)
  BY <1>3 DEF UpTo
<1>7. ASSUME q[k].kind = "turn", NEW i \in DOMAIN r, r[i].kind = "turn" PROVE q[k].id < r[i].id
  <2>1. PICK a \in DOMAIN q : r[i] = q[a] /\ a = IF i < k THEN i ELSE i + 1
    BY <1>3
  <2>2. ~(i < k)
    BY <1>7, <2>1
  <2>3. k < a
    BY <1>1, <1>2, <2>1, <2>2
  <2>. QED  BY <1>7, <2>1, <2>3 DEF Ordered
<1>. QED  BY <1>4, <1>5, <1>6, <1>7 DEF Ordered, Behind

LEMMA TailWithout ==
  ASSUME NEW q \in Seq(TaskRecords), q # <<>>
  PROVE  1 \in DOMAIN q /\ Head(q) = q[1] /\ Head(q) \in TaskRecords /\ Without(Tail(q), q, 1)
<1>1. /\ Tail(q) \in Seq(TaskRecords) /\ Head(q) \in TaskRecords /\ Len(Tail(q)) = Len(q) - 1
      /\ \A k \in 1..Len(Tail(q)) : Tail(q)[k] = q[k + 1]
  BY HeadTailProperties
<1>2. PICK r : r = Tail(q)
  OBVIOUS
<1>3. /\ Len(q) \in Nat \ {0} /\ DOMAIN q = 1..Len(q) /\ DOMAIN r = 1..Len(q) - 1 /\ Head(q) = q[1]
      /\ 1 \in DOMAIN q
  BY <1>1, <1>2
<1>4. ASSUME NEW i \in DOMAIN r PROVE i + 1 \in DOMAIN q /\ r[i] = q[i + 1] /\ ~(i < 1)
  BY <1>1, <1>2, <1>3
<1>. QED  BY <1>1, <1>2, <1>3, <1>4 DEF Without

LEMMA RemovedWithout ==
  ASSUME NEW q \in Seq(TaskRecords), NEW k \in DOMAIN q
  PROVE  Without(RemoveAt(q, k), q, k)
<1> DEFINE a == SubSeq(q, 1, k - 1)  b == SubSeq(q, k + 1, Len(q))
<1>1. Len(q) \in Nat /\ k \in 1..Len(q) /\ DOMAIN q = 1..Len(q) /\ \A j \in 1..Len(q) : q[j] \in TaskRecords
  OBVIOUS
<1>2. /\ a \in Seq(TaskRecords) /\ Len(a) = k - 1 /\ \A j \in 1..k - 1 : a[j] = q[j]
  BY <1>1, SubSeqProperties
<1>3. /\ b \in Seq(TaskRecords) /\ Len(b) = Len(q) - k /\ \A j \in 1..Len(q) - k : b[j] = q[k + j]
  BY <1>1, SubSeqProperties
<1> HIDE DEF a, b
<1>4. PICK r : r = a \o b
  OBVIOUS
<1>5. /\ r \in Seq(TaskRecords) /\ Len(r) = Len(q) - 1
      /\ \A j \in 1..Len(q) - 1 : r[j] = IF j <= k - 1 THEN a[j] ELSE b[j - (k - 1)]
  <2>1. Len(a) + Len(b) = Len(q) - 1
    BY <1>1, <1>2, <1>3
  <2>2. /\ r \in Seq(TaskRecords) /\ Len(r) = Len(a) + Len(b)
        /\ \A j \in 1..Len(a) + Len(b) : r[j] = IF j <= Len(a) THEN a[j] ELSE b[j - Len(a)]
    BY <1>2, <1>3, <1>4, ConcatProperties
  <2>. QED  BY <1>2, <2>1, <2>2
<1>6. DOMAIN r = 1..Len(q) - 1
  BY <1>5
<1>7. ASSUME NEW j \in DOMAIN r
      PROVE  \E l \in DOMAIN q : r[j] = q[l] /\ l = IF j < k THEN j ELSE j + 1
  <2>1. CASE j < k
    BY <1>1, <1>2, <1>5, <1>6, <2>1
  <2>2. CASE ~(j < k)
    <3>1. j - (k - 1) \in 1..Len(q) - k /\ k + (j - (k - 1)) = j + 1 /\ j + 1 \in DOMAIN q
      BY <1>1, <1>6, <2>2
    <3>2. r[j] = b[j - (k - 1)]
      <4>1. j \in 1..Len(q) - 1 /\ ~(j <= k - 1)
        BY <1>1, <1>6, <2>2
      <4>. QED  BY <1>5, <4>1
    <3>. QED  BY <1>1, <1>3, <1>6, <2>2, <3>1, <3>2
  <2>. QED  BY <2>1, <2>2
<1>8. r = RemoveAt(q, k)
  BY <1>4 DEF RemoveAt, a, b
<1>. QED  BY <1>5, <1>7, <1>8 DEF Without

\* A task that is put at the end of the queue.
LEMMA TasksAppend ==
  ASSUME NEW q \in Seq(TaskRecords), NEW t \in TaskRecords
  PROVE  /\ Append(q, t) \in Seq(TaskRecords)
         /\ \A n : Behind(q, n) /\ (t.kind = "turn" => n < t.id) => Behind(Append(q, t), n)
         /\ \A n : UpTo(q, n) /\ (t.kind = "turn" => t.id <= n) => UpTo(Append(q, t), n)
         /\ Ordered(q) /\ (t.kind = "turn" => UpTo(q, t.id - 1)) => Ordered(Append(q, t))
<1>1. /\ Append(q, t) \in Seq(TaskRecords) /\ Len(Append(q, t)) = Len(q) + 1 /\ Len(q) \in Nat
      /\ \A k \in 1..Len(q) : Append(q, t)[k] = q[k]
      /\ Append(q, t)[Len(q) + 1] = t
  BY AppendProperties
<1>2. PICK r : r = Append(q, t)
  OBVIOUS
<1>3. DOMAIN r = 1..Len(q) + 1 /\ DOMAIN q = 1..Len(q) /\ r \in Seq(TaskRecords)
  BY <1>1, <1>2
<1>4. \A k \in DOMAIN r : (k \in DOMAIN q /\ r[k] = q[k]) \/ (k = Len(q) + 1 /\ r[k] = t)
  BY <1>1, <1>2, <1>3
<1>5. \A n : Behind(q, n) /\ (t.kind = "turn" => n < t.id) => Behind(r, n)
  BY <1>4 DEF Behind
<1>6. \A n : UpTo(q, n) /\ (t.kind = "turn" => t.id <= n) => UpTo(r, n)
  BY <1>4 DEF UpTo
<1>7. ASSUME Ordered(q), t.kind = "turn" => UpTo(q, t.id - 1), NEW i \in DOMAIN r, NEW j \in DOMAIN r,
             i < j, r[i].kind = "turn", r[j].kind = "turn"
      PROVE  r[i].id < r[j].id
  <2>1. i \in DOMAIN q /\ r[i] = q[i]
    BY <1>1, <1>3, <1>4, <1>7
  <2>2. CASE j \in DOMAIN q /\ r[j] = q[j]
    BY <1>7, <2>1, <2>2 DEF Ordered
  <2>3. CASE r[j] = t
    <3>1. q[i].id <= t.id - 1
      BY <1>7, <2>1, <2>3 DEF UpTo
    <3>2. q[i] \in TaskRecords /\ Closing.id = 0
      BY <1>3, <2>1 DEF Closing, Task
    <3>3. q[i].id \in Nat /\ t.id \in Nat
      BY <3>2 DEF TaskRecords
    <3>. QED  BY <2>1, <2>3, <3>1, <3>3
  <2>. QED  BY <1>4, <2>2, <2>3
<1>. QED  BY <1>2, <1>3, <1>5, <1>6, <1>7 DEF Ordered

-----------------------------------------------------------------------------
(* Every step keeps the invariant.                                         *)

LEMMA InitRepl == ReplInit => ReplInv
<1> SUFFICES ASSUME ReplInit PROVE ReplInv
  OBVIOUS
<1>1. QueueTypes
  BY EmptySeq DEF ReplInit, QueueTypes, TaskRecords, Closing, Task, Nothing, NoTurn, UiSteps, WorkerSteps
<1>2. TurnInv
  BY DEF ReplInit, TurnInv, Waits, Nothing, NoTurn
<1>3. StopInv
  BY DEF ReplInit, StopInv
<1>4. ~Holding /\ \A n : InFront(n) => n = 0
  BY HasEmpty DEF ReplInit, Holding, InFront, NoTurn
<1>5. Ordered(taskQueue) /\ UpTo(taskQueue, 0) /\ UpTo(taskQueue, entered - 1) /\ \A n : Behind(taskQueue, n)
  BY DEF ReplInit, Ordered, UpTo, Behind
<1>6. OrderInv
  BY <1>4, <1>5, HasEmpty DEF ReplInit, OrderInv, NoTurn, Nothing
<1>. QED  BY <1>1, <1>2, <1>3, <1>6 DEF ReplInv

LEMMA TaskTyped ==
  /\ Closing \in TaskRecords /\ Closing.kind = "close"
  /\ \A n \in Nat \ {0}, k \in {"turn", "compact"} : Task(n, k) \in TaskRecords
  /\ \A t \in TaskRecords : t.id \in Nat /\ (t.kind = "turn" => t.id # 0)
  BY DEF TaskRecords, Closing, Task

\* Interrupting a turn leaves everything but its mark.
LEMMA Interrupted ==
  ASSUME QueueTypes, NEW id, HostInterrupt(id)
  PROVE  /\ hostTurn' \in [id : Nat, state : {"none", "running", "done"}, interrupted : BOOLEAN, popped : Nat]
         /\ hostTurn'.id = hostTurn.id /\ hostTurn'.state = hostTurn.state /\ hostTurn'.popped = hostTurn.popped
         /\ hostTurn.interrupted => hostTurn'.interrupted
         /\ Interruptible(id) => hostTurn'.interrupted
  BY DEF QueueTypes, HostInterrupt

\* The prompt that is taken out of the queue for the running turn is the first one.
LEMMA NextFound ==
  ASSUME QueueTypes, Prompts # {}
  PROVE  /\ NextPrompt \in DOMAIN taskQueue /\ taskQueue[NextPrompt] \in TaskRecords
         /\ taskQueue[NextPrompt].kind = "turn"
         /\ \A i \in DOMAIN taskQueue : i < NextPrompt => taskQueue[i].kind # "turn"
<1>1. DOMAIN taskQueue = 1..Len(taskQueue) /\ Len(taskQueue) \in Nat /\ Prompts \subseteq DOMAIN taskQueue
  BY DEF QueueTypes, Prompts
<1>2. Prompts \in SUBSET Nat
  BY <1>1
<1>3. NextPrompt \in Prompts /\ \A i \in Prompts : NextPrompt <= i
  BY <1>2, LeastNumber DEF NextPrompt, Min
<1>4. ASSUME NEW i \in DOMAIN taskQueue, i < NextPrompt PROVE taskQueue[i].kind # "turn"
  <2>1. i \notin Prompts
    BY <1>1, <1>3, <1>4
  <2>. QED  BY <2>1 DEF Prompts
<1>. QED  BY <1>1, <1>3, <1>4 DEF Prompts, QueueTypes

LEMMA TypesKept ==
  ASSUME QueueTypes, TurnInv, ReplNext
  PROVE  QueueTypes'
<1> USE DEF QueueTypes, UiSteps, WorkerSteps, Nothing, NoTurn
<1>1. CASE Enter
  BY <1>1 DEF Enter
<1>2. CASE Put
  <2>1. Task(ui.arg, ui.kind) \in TaskRecords
    BY <1>2, TaskTyped DEF Put, TurnInv
  <2>2. taskQueue' \in Seq(TaskRecords)
    BY <1>2, <2>1, AppendProperties DEF Put
  <2>. QED  BY <1>2, <2>2 DEF Put
<1>3. CASE RequestInterrupt
  BY <1>3 DEF RequestInterrupt
<1>4. CASE SendInterrupt
  BY <1>4, Interrupted DEF SendInterrupt
<1>5. CASE InterruptRefused
  BY <1>5 DEF InterruptRefused
<1>6. CASE RequestInjection
  BY <1>6 DEF RequestInjection
<1>7. CASE ClearOne
  <2>1. taskQueue' \in Seq(TaskRecords)
    BY <1>7, TailWithout DEF ClearOne, Without
  <2>. QED  BY <1>7, <2>1 DEF ClearOne
<1>8. CASE Cleared
  BY <1>8, EmptySeq DEF Cleared
<1>9. CASE Close
  <2>1. taskQueue' \in Seq(TaskRecords)
    BY <1>9, TaskTyped, AppendProperties DEF Close
  <2>. QED  BY <1>9, <2>1 DEF Close
<1>10. CASE Get
  <2>1. taskQueue' \in Seq(TaskRecords) /\ Head(taskQueue) \in TaskRecords
    BY <1>10, TailWithout DEF Get, Without
  <2>. QED  BY <1>10, <2>1 DEF Get
<1>11. CASE Begin
  BY <1>11 DEF Begin
<1>12. CASE HostStart
  <2>1. worker.task.id \in Nat
    BY TaskTyped
  <2>2. PICK n \in Nat : n = worker.task.id
    BY <2>1
  <2>3. Append(reached, n) \in Seq(Nat)
    BY AppendProperties
  <2>4. reached' \in Seq(Nat)
    BY <1>12, <2>2, <2>3 DEF HostStart
  <2>5. hostTurn' \in [id : Nat, state : {"none", "running", "done"}, interrupted : BOOLEAN, popped : Nat]
    <3>1. hostTurn' = hostTurn \/ hostTurn' = [id |-> n, state |-> "running", interrupted |-> FALSE, popped |-> 0]
      BY <1>12, <2>2 DEF HostStart
    <3>2. [id |-> n, state |-> "running", interrupted |-> FALSE, popped |-> 0]
            \in [id : Nat, state : {"none", "running", "done"}, interrupted : BOOLEAN, popped : Nat]
      OBVIOUS
    <3>. QED  BY <3>1, <3>2
  <2>6. worker' \in [step : WorkerSteps, task : TaskRecords]
    BY <1>12 DEF HostStart
  <2>. QED  BY <1>12, <2>4, <2>5, <2>6 DEF HostStart
<1>13. CASE SetHandle
  BY <1>13, TaskTyped DEF SetHandle
<1>14. CASE CheckInterrupt
  BY <1>14, Interrupted DEF CheckInterrupt
<1>15. CASE Finished
  BY <1>15 DEF Finished
<1>16. CASE Finish
  BY <1>16, EmptySeq, TaskTyped DEF Finish
<1>17. CASE PopPrompt
  <2>1. PICK k : k = NextPrompt
    OBVIOUS
  <2>2. k \in DOMAIN taskQueue /\ taskQueue[k] \in TaskRecords
    BY <1>17, <2>1, NextFound DEF PopPrompt
  <2>3. taskQueue' \in Seq(TaskRecords)
    BY <1>17, <2>1, <2>2, RemovedWithout DEF PopPrompt, Without
  <2>4. hostTurn' = [hostTurn EXCEPT !.popped = taskQueue[k].id] /\ taskQueue[k].id \in Nat
    BY <1>17, <2>1, <2>2, TaskTyped DEF PopPrompt
  <2>. QED  BY <1>17, <2>3, <2>4 DEF PopPrompt
<1>18. CASE Prepared
  <2>1. Append(ready, hostTurn.popped) \in Seq(Nat)
    BY AppendProperties
  <2>. QED  BY <1>18, <2>1 DEF Prepared
<1>19. CASE TakePrompt
  <2>1. Head(ready) \in Nat /\ Tail(ready) \in Seq(Nat)
    BY <1>19, HeadTailProperties DEF TakePrompt
  <2>2. Append(reached, Head(ready)) \in Seq(Nat)
    BY <2>1, AppendProperties
  <2>. QED  BY <1>19, <2>1, <2>2 DEF TakePrompt
<1>20. CASE HostEnd
  BY <1>20 DEF HostEnd
<1>. QED
  BY <1>1, <1>2, <1>3, <1>4, <1>5, <1>6, <1>7, <1>8, <1>9, <1>10, <1>11, <1>12, <1>13, <1>14, <1>15,
     <1>16, <1>17, <1>18, <1>19, <1>20 DEF ReplNext, Ui, Worker, Turn

\* The turn, its handle and what is prepared for it.
LEMMA HostKeeps ==
  ASSUME QueueTypes, TurnInv, ReplNext
  PROVE  TurnInv'
<1> USE DEF QueueTypes, TurnInv, Waits, Nothing, NoTurn
<1>1. CASE Ui
  <2>1. CASE Enter
    BY <2>1 DEF Enter
  <2>2. CASE SendInterrupt
    BY <2>2, Interrupted DEF SendInterrupt
  <2>3. CASE Cleared
    BY <2>3 DEF Cleared
  <2>4. CASE Put \/ RequestInterrupt \/ InterruptRefused \/ RequestInjection \/ ClearOne \/ Close
    BY <2>4 DEF Put, RequestInterrupt, InterruptRefused, RequestInjection, ClearOne, Close
  <2>. QED  BY <1>1, <2>1, <2>2, <2>3, <2>4 DEF Ui
<1>2. CASE Get
  <2>1. worker'.step \in {"got", "over"} /\ worker.step = "get"
    BY <1>2 DEF Get, Works
  <2>. QED  BY <1>2, <2>1 DEF Get
<1>3. CASE Begin
  <2>1. /\ worker'.step = IF worker.task.kind = "turn" THEN "start" ELSE "compact"
        /\ worker'.task = worker.task /\ worker.step = "got"
    BY <1>3 DEF Begin, Works
  <2>. QED  BY <1>3, <2>1 DEF Begin
<1>4. CASE HostStart
  <2>1. worker'.step \in {"started", "finish"} /\ worker'.task = worker.task /\ worker.step = "start"
    BY <1>4 DEF HostStart, Works
  <2>. QED  BY <1>4, <2>1 DEF HostStart
<1>5. CASE SetHandle
  <2>1. worker'.step = "check" /\ worker'.task = worker.task /\ worker.step = "started"
    BY <1>5 DEF SetHandle, Works
  <2>. QED  BY <1>5, <2>1 DEF SetHandle
<1>6. CASE CheckInterrupt
  <2>1. worker'.step = "wait" /\ worker'.task = worker.task /\ worker.step = "check"
    BY <1>6 DEF CheckInterrupt, Works
  <2>2. hostTurn'.id = hostTurn.id /\ hostTurn'.state = hostTurn.state /\ hostTurn'.popped = hostTurn.popped
    BY <1>6, Interrupted DEF CheckInterrupt
  <2>. QED  BY <1>6, <2>1, <2>2 DEF CheckInterrupt
<1>7. CASE Finished
  <2>1. worker'.step = "finish" /\ hostTurn' = NoTurn
    BY <1>7 DEF Finished
  <2>. QED  BY <1>7, <2>1 DEF Finished
<1>8. CASE Finish
  BY <1>8 DEF Finish, Works
<1>9. CASE PopPrompt
  <2>1. hostTurn'.id = hostTurn.id /\ hostTurn'.state = hostTurn.state /\ hostTurn.state = "running"
    BY <1>9 DEF PopPrompt, Running
  <2>. QED  BY <1>9, <2>1 DEF PopPrompt
<1>10. CASE Prepared
  <2>1. hostTurn'.id = hostTurn.id /\ hostTurn'.state = hostTurn.state /\ hostTurn'.popped = 0 /\ hostTurn.state = "running"
    BY <1>10 DEF Prepared
  <2>. QED  BY <1>10, <2>1 DEF Prepared
<1>11. CASE TakePrompt
  <2>1. hostTurn.state = "running"
    BY <1>11 DEF TakePrompt, Running
  <2>. QED  BY <1>11, <2>1 DEF TakePrompt
<1>12. CASE HostEnd
  <2>1. hostTurn'.id = hostTurn.id /\ hostTurn'.state = "done" /\ hostTurn'.popped = 0 /\ hostTurn.state = "running"
    BY <1>12 DEF HostEnd, Running
  <2>. QED  BY <1>12, <2>1 DEF HostEnd
<1>. QED
  BY <1>1, <1>2, <1>3, <1>4, <1>5, <1>6, <1>7, <1>8, <1>9, <1>10, <1>11, <1>12 DEF ReplNext, Worker, Turn

\* An interrupt that was accepted.
LEMMA StopKept ==
  ASSUME QueueTypes, TurnInv, StopInv, ReplNext
  PROVE  StopInv'
<1> USE DEF QueueTypes, StopInv, Nothing
<1>1. CASE RequestInterrupt
  <2>1. worker.step = "wait" => handle # 0
    BY TaskTyped DEF TurnInv, Waits
  <2>. QED  BY <1>1, <2>1 DEF RequestInterrupt
<1>2. CASE SendInterrupt
  <2>1. hostTurn'.state = hostTurn.state /\ (hostTurn.interrupted => hostTurn'.interrupted)
    BY <1>2, Interrupted DEF SendInterrupt
  <2>2. Interruptible(ui.arg) => hostTurn'.interrupted
    BY <1>2, Interrupted DEF SendInterrupt
  <2>3. ~Interruptible(ui.arg) => ui'.step = "refused"
    BY <1>2 DEF SendInterrupt
  <2>. QED  BY <1>2, <2>1, <2>2, <2>3 DEF SendInterrupt
<1>3. CASE InterruptRefused
  BY <1>3 DEF InterruptRefused
<1>7. CASE Enter \/ Put \/ RequestInjection \/ ClearOne \/ Cleared \/ Close
  <2>1. UNCHANGED <<requested, worker, hostTurn>>
    BY <1>7 DEF Enter, Put, RequestInjection, ClearOne, Cleared, Close
  <2>2. ui.step \notin {"interrupt", "refused"}
    BY <1>7 DEF Enter, Put, RequestInjection, ClearOne, Cleared, Close
  <2>. QED  BY <2>1, <2>2
<1>4. CASE CheckInterrupt
  <2>1. CASE requested
    <3>1. hostTurn.state # "none" /\ hostTurn.id = worker.task.id
      BY <1>4 DEF TurnInv, Waits, CheckInterrupt, Works
    <3>2. hostTurn'.state = hostTurn.state /\ (hostTurn.interrupted => hostTurn'.interrupted)
          /\ (Interruptible(worker.task.id) => hostTurn'.interrupted)
      BY <1>4, <2>1, Interrupted DEF CheckInterrupt
    <3>. QED  BY <3>1, <3>2 DEF Interruptible
  <2>2. CASE ~requested
    BY <1>4, <2>2 DEF CheckInterrupt
  <2>. QED  BY <2>1, <2>2
<1>5. CASE Get \/ Begin \/ HostStart \/ SetHandle \/ Finished \/ Finish
  <2>1. worker'.step # "wait"
    BY <1>5 DEF Get, Begin, HostStart, SetHandle, Finished, Finish
  <2>. QED  BY <2>1
<1>6. CASE Turn
  <2>1. hostTurn'.interrupted = hostTurn.interrupted /\ (hostTurn.state = "done" => hostTurn'.state = "done")
    BY <1>6 DEF Turn, PopPrompt, Prepared, TakePrompt, HostEnd
  <2>. QED  BY <1>6, <2>1 DEF Turn, PopPrompt, Prepared, TakePrompt, HostEnd
<1>. QED
  BY <1>1, <1>2, <1>3, <1>4, <1>5, <1>6, <1>7 DEF ReplNext, Ui, Worker

\* What is in front of the queue, and the queue, after a step.
LEMMA OrderKept ==
  ASSUME QueueTypes, TurnInv, OrderInv, ReplNext
  PROVE  OrderInv'
<1>0. /\ \A t \in TaskRecords : t.id \in Nat /\ (t.kind = "turn" => t.id # 0)
      /\ entered \in Nat /\ worker.task \in TaskRecords /\ hostTurn.popped \in Nat
      /\ reached \in Seq(Nat) /\ ready \in Seq(Nat) /\ taskQueue \in Seq(TaskRecords)
  BY TaskTyped DEF QueueTypes
<1>1. CASE UNCHANGED <<taskQueue, reached, ready>> /\ hostTurn'.popped = hostTurn.popped
           /\ (Holding' => Holding /\ worker'.task = worker.task)
           /\ entered' = entered /\ (ui'.step = "put" => ui.step = "put")
  BY <1>1 DEF OrderInv, InFront
<1>2. CASE Enter
  <2>1. UNCHANGED <<taskQueue, reached, ready, hostTurn, worker>> /\ entered' = entered + 1 /\ Holding' = Holding
    BY <1>2 DEF Enter, Holding
  <2>2. UpTo(taskQueue, entered + 1) /\ (entered + 1) - 1 = entered
    <3>1. ASSUME NEW i \in DOMAIN taskQueue, taskQueue[i].kind = "turn" PROVE taskQueue[i].id <= entered + 1
      <4>1. taskQueue[i].id <= entered /\ taskQueue[i] \in TaskRecords
        BY <1>0, <3>1 DEF OrderInv, UpTo
      <4>2. taskQueue[i].id \in Nat
        BY <1>0, <4>1
      <4>. QED  BY <1>0, <4>1, <4>2
    <3>. QED  BY <1>0, <3>1 DEF UpTo
  <2>3. ASSUME NEW n, InFront(n) PROVE n \in Nat /\ n <= entered
    BY <1>0, <2>3 DEF OrderInv, InFront, HasItem
  <2>4. ASSUME NEW n, InFront(n) PROVE n <= entered + 1 /\ n < entered + 1
    BY <1>0, <2>3, <2>4
  <2>5. \A n : InFront(n)' <=> InFront(n)
    BY <2>1 DEF InFront
  <2>. QED  BY <2>1, <2>2, <2>4, <2>5 DEF OrderInv
<1>3. CASE Put
  <2>1. PICK t \in TaskRecords : t = Task(ui.arg, ui.kind) /\ t.id = entered
    <3>1. ui.arg \in Nat \ {0} /\ ui.kind \in {"turn", "compact"} /\ ui.arg = entered
      BY <1>0, <1>3 DEF Put, TurnInv
    <3>2. Task(ui.arg, ui.kind) \in TaskRecords
      BY <3>1, TaskTyped
    <3>3. Task(ui.arg, ui.kind).id = entered
      BY <3>1 DEF Task
    <3>. QED  BY <3>2, <3>3
  <2>2. /\ UNCHANGED <<reached, ready, hostTurn, worker, entered>> /\ Holding' = Holding
        /\ taskQueue' = Append(taskQueue, t) /\ ui.step = "put" /\ ui'.step = "none"
    BY <1>3, <2>1 DEF Put, Holding, Nothing
  <2>3. \A n : InFront(n)' <=> InFront(n)
    BY <2>2 DEF InFront
  <2>4. Ordered(taskQueue') /\ UpTo(taskQueue', entered)
    BY <1>0, <2>1, <2>2, TasksAppend DEF OrderInv
  <2>5. ASSUME NEW n, InFront(n) PROVE Behind(taskQueue', n)
    BY <1>0, <2>1, <2>2, <2>5, TasksAppend DEF OrderInv
  <2>. QED  BY <2>2, <2>3, <2>4, <2>5 DEF OrderInv
<1>4. CASE RequestInterrupt \/ SendInterrupt \/ InterruptRefused \/ RequestInjection
  <2>1. hostTurn'.popped = hostTurn.popped
    BY <1>4, Interrupted DEF RequestInterrupt, SendInterrupt, InterruptRefused, RequestInjection
  <2>2. UNCHANGED <<taskQueue, reached, ready, entered, worker>> /\ Holding' = Holding /\ ui'.step # "put"
    BY <1>4 DEF RequestInterrupt, SendInterrupt, InterruptRefused, RequestInjection, Holding, Nothing, QueueTypes
  <2>. QED  BY <1>1, <2>1, <2>2
<1>5. CASE ClearOne
  <2>1. taskQueue # <<>> /\ taskQueue' = Tail(taskQueue) /\ UNCHANGED <<reached, ready, hostTurn, worker, entered>>
        /\ Holding' = Holding /\ ui'.step = "clear"
    BY <1>5 DEF ClearOne, Holding
  <2>2. \A n : InFront(n)' <=> InFront(n)
    BY <2>1 DEF InFront
  <2>3. PICK r : r = Tail(taskQueue)
    OBVIOUS
  <2>4. Without(r, taskQueue, 1) /\ 1 \in DOMAIN taskQueue /\ \A i \in DOMAIN taskQueue : ~(i < 1)
    BY <1>0, <2>1, <2>3, TailWithout
  <2>5. Ordered(r) /\ (\A n : Behind(taskQueue, n) => Behind(r, n)) /\ (\A n : UpTo(taskQueue, n) => UpTo(r, n))
    BY <1>0, <2>4, TasksWithout DEF OrderInv
  <2>. QED  BY <2>1, <2>2, <2>3, <2>5 DEF OrderInv
<1>6. CASE Cleared
  <2>1. UNCHANGED <<taskQueue, reached, hostTurn, worker, entered>> /\ ready' = <<>> /\ Holding' = Holding
        /\ ui'.step = "close"
    BY <1>6 DEF Cleared, Holding
  <2>2. \A n : InFront(n)' => InFront(n)
    BY <2>1, HasEmpty DEF InFront
  <2>3. Increasing(ready') /\ \A n : ~HasItem(ready', n)
    BY <2>1, HasEmpty
  <2>. QED  BY <2>1, <2>2, <2>3 DEF OrderInv
<1>7. CASE Close
  <2>1. UNCHANGED <<reached, ready, hostTurn, worker, entered>> /\ Holding' = Holding
        /\ taskQueue' = Append(taskQueue, Closing) /\ ui'.step = "closed"
    BY <1>7 DEF Close, Holding
  <2>2. \A n : InFront(n)' <=> InFront(n)
    BY <2>1 DEF InFront
  <2>3. Ordered(taskQueue') /\ UpTo(taskQueue', entered) /\ \A n : Behind(taskQueue, n) => Behind(taskQueue', n)
    BY <1>0, <2>1, TaskTyped, TasksAppend DEF OrderInv
  <2>. QED  BY <2>1, <2>2, <2>3 DEF OrderInv
<1>8. CASE Get
  <2>1. PICK t, r : t = Head(taskQueue) /\ r = Tail(taskQueue)
    OBVIOUS
  <2>2. /\ taskQueue # <<>> /\ taskQueue' = r /\ worker'.task = t /\ worker.step = "get"
        /\ UNCHANGED <<reached, ready, hostTurn, ui, entered>>
    BY <1>8, <2>1 DEF Get, Works
  <2>3. /\ Without(r, taskQueue, 1) /\ 1 \in DOMAIN taskQueue /\ t = taskQueue[1] /\ t \in TaskRecords
        /\ \A i \in DOMAIN taskQueue : ~(i < 1)
    BY <1>0, <2>1, <2>2, TailWithout
  <2>4. /\ Ordered(r) /\ (\A n : Behind(taskQueue, n) => Behind(r, n)) /\ (\A n : UpTo(taskQueue, n) => UpTo(r, n))
        /\ (t.kind = "turn" => Behind(r, t.id))
    BY <1>0, <2>3, TasksWithout DEF OrderInv
  <2>5. ASSUME t.kind = "turn"
        PROVE  t.id <= entered /\ (ui.step = "put" => t.id < entered) /\ \A n : InFront(n) => n < t.id
    <3>1. t.id <= entered /\ (ui.step = "put" => t.id <= entered - 1)
      BY <2>3, <2>5 DEF OrderInv, UpTo
    <3>2. t.id \in Nat
      BY <1>0, <2>3
    <3>3. ui.step = "put" => t.id < entered
      BY <1>0, <3>1, <3>2
    <3>. QED  BY <2>3, <2>5, <3>1, <3>3 DEF OrderInv, Behind
  <2>6. Holding' => t.kind = "turn"
    BY <2>2 DEF Holding
  <2>7. ASSUME NEW n, InFront(n)' PROVE InFront(n) \/ (t.kind = "turn" /\ n = t.id)
    BY <2>2, <2>6, <2>7 DEF InFront
  <2>8. Holding' => \A n : HasItem(reached', n) => n < worker'.task.id
    BY <2>2, <2>5, <2>6 DEF InFront
  <2>9. ASSUME NEW n, InFront(n)'
        PROVE  Behind(taskQueue', n) /\ n <= entered' /\ (ui'.step = "put" => n < entered')
    BY <2>2, <2>4, <2>5, <2>7, <2>9 DEF OrderInv
  <2>. QED  BY <2>2, <2>4, <2>8, <2>9 DEF OrderInv
<1>9. CASE Begin \/ SetHandle \/ CheckInterrupt
  <2>1. hostTurn'.popped = hostTurn.popped
    BY <1>9, Interrupted DEF Begin, SetHandle, CheckInterrupt
  <2>2. UNCHANGED <<taskQueue, reached, ready, entered, ui>> /\ worker'.task = worker.task
    BY <1>9 DEF Begin, SetHandle, CheckInterrupt, QueueTypes
  <2>3. Holding' => Holding
    BY <1>9 DEF Begin, SetHandle, CheckInterrupt, Holding, Works, QueueTypes
  <2>. QED  BY <1>1, <2>1, <2>2, <2>3
<1>10. CASE HostStart
  <2>1. Holding /\ ~Holding' /\ ready = <<>> /\ hostTurn.popped = 0
    BY <1>10 DEF HostStart, Works, Holding, TurnInv, Waits, QueueTypes
  <2>2. UNCHANGED <<taskQueue, ready, entered, ui>> /\ hostTurn'.popped = 0
    BY <1>10, <2>1 DEF HostStart
  <2>3. CASE reached' = reached
    BY <1>1, <2>1, <2>2, <2>3
  <2>4. CASE reached' = Append(reached, worker.task.id)
    <3>1. PICK k \in Nat : k = worker.task.id
      BY <1>0
    <3>2. \A n : HasItem(reached, n) => n < k
      BY <2>1, <3>1 DEF OrderInv
    <3>3. Increasing(reached') /\ \A n : HasItem(reached', n) <=> HasItem(reached, n) \/ n = k
      BY <1>0, <2>4, <3>1, <3>2, ItemAppended DEF OrderInv
    <3>4. ASSUME NEW n, InFront(n)' PROVE InFront(n)
      BY <2>1, <2>2, <3>1, <3>3, <3>4 DEF InFront
    <3>5. \A n : ~HasItem(ready', n)
      BY <2>1, <2>2, HasEmpty
    <3>. QED  BY <2>1, <2>2, <3>3, <3>4, <3>5 DEF OrderInv
  <2>. QED  BY <1>10, <2>3, <2>4 DEF HostStart
<1>11. CASE Finished
  <2>1. UNCHANGED <<taskQueue, reached, ready, entered, ui>> /\ hostTurn'.popped = 0 /\ ~Holding'
    BY <1>11 DEF Finished, NoTurn, Holding, QueueTypes
  <2>2. hostTurn.popped = 0
    BY <1>11 DEF Finished, Works, TurnInv, Waits
  <2>. QED  BY <1>1, <2>1, <2>2
<1>12. CASE Finish
  <2>1. UNCHANGED <<taskQueue, reached, hostTurn, entered, ui>> /\ ready' = <<>> /\ ~Holding'
    BY <1>12 DEF Finish, Holding
  <2>2. \A n : InFront(n)' => InFront(n)
    BY <2>1, HasEmpty DEF InFront
  <2>3. Increasing(ready') /\ \A n : ~HasItem(ready', n)
    BY <2>1, HasEmpty
  <2>. QED  BY <2>1, <2>2, <2>3 DEF OrderInv
<1>13. CASE PopPrompt
  <2>1. PICK k : k = NextPrompt
    OBVIOUS
  <2>2. /\ k \in DOMAIN taskQueue /\ taskQueue[k] \in TaskRecords /\ taskQueue[k].kind = "turn"
        /\ \A i \in DOMAIN taskQueue : i < k => taskQueue[i].kind # "turn"
    BY <1>13, <2>1, NextFound DEF PopPrompt
  <2>3. PICK r, c : r = RemoveAt(taskQueue, k) /\ c = taskQueue[k].id
    OBVIOUS
  <2>4. /\ taskQueue' = r /\ hostTurn'.popped = c /\ hostTurn.popped = 0 /\ Holding' = Holding /\ ~Holding
        /\ UNCHANGED <<reached, ready, worker, entered, ui>>
    <3>1. hostTurn.state = "running" /\ hostTurn.popped = 0 /\ taskQueue' = r /\ hostTurn' = [hostTurn EXCEPT !.popped = c]
          /\ UNCHANGED <<reached, ready, worker, entered, ui>>
      BY <1>13, <2>1, <2>3 DEF PopPrompt, Running
    <3>2. hostTurn'.popped = c
      BY <3>1 DEF QueueTypes
    <3>3. ~Holding
      BY <3>1 DEF Holding, TurnInv, Waits
    <3>. QED  BY <3>1, <3>2, <3>3 DEF Holding
  <2>5. Without(r, taskQueue, k) /\ c \in Nat /\ c # 0
    BY <1>0, <2>2, <2>3, RemovedWithout
  <2>6. /\ Ordered(r) /\ (\A n : Behind(taskQueue, n) => Behind(r, n)) /\ (\A n : UpTo(taskQueue, n) => UpTo(r, n))
        /\ Behind(r, c)
    BY <1>0, <2>2, <2>3, <2>5, TasksWithout DEF OrderInv
  <2>7. c <= entered /\ (ui.step = "put" => c < entered)
    <3>1. c <= entered /\ (ui.step = "put" => c <= entered - 1)
      BY <2>2, <2>3 DEF OrderInv, UpTo
    <3>. QED  BY <1>0, <2>5, <3>1
  <2>8. \A n : InFront(n) => n < c
    BY <2>2, <2>3 DEF OrderInv, Behind
  <2>9. ASSUME NEW n, InFront(n)' PROVE InFront(n) \/ n = c
    BY <2>4, <2>9 DEF InFront
  <2>10. \A n : HasItem(reached', n) \/ HasItem(ready', n) => n < hostTurn'.popped
    BY <2>4, <2>8 DEF InFront
  <2>11. ASSUME NEW n, InFront(n)'
         PROVE  Behind(taskQueue', n) /\ n <= entered' /\ (ui'.step = "put" => n < entered')
    BY <2>4, <2>6, <2>7, <2>9, <2>11 DEF OrderInv
  <2>. QED  BY <2>4, <2>6, <2>10, <2>11 DEF OrderInv
<1>14. CASE Prepared
  <2>1. PICK c \in Nat : c = hostTurn.popped /\ c # 0
    BY <1>0, <1>14 DEF Prepared
  <2>2. /\ UNCHANGED <<taskQueue, reached, worker, entered, ui>> /\ Holding' = Holding
        /\ ready' = Append(ready, c) /\ hostTurn'.popped = 0
    BY <1>14, <2>1 DEF Prepared, Holding, QueueTypes
  <2>3. \A n : HasItem(reached, n) \/ HasItem(ready, n) => n < c
    BY <2>1 DEF OrderInv
  <2>4. Increasing(ready') /\ \A n : HasItem(ready', n) <=> HasItem(ready, n) \/ n = c
    BY <1>0, <2>2, <2>3, ItemAppended DEF OrderInv
  <2>5. ASSUME NEW n, InFront(n)' PROVE InFront(n) \/ n = 0
    BY <2>1, <2>2, <2>4, <2>5 DEF InFront
  <2>6. Behind(taskQueue, 0)
    <3>1. \A i \in DOMAIN taskQueue : taskQueue[i] \in TaskRecords
      BY <1>0
    <3>2. ASSUME NEW i \in DOMAIN taskQueue, taskQueue[i].kind = "turn" PROVE 0 < taskQueue[i].id
      <4>1. taskQueue[i].id \in Nat /\ taskQueue[i].id # 0
        BY <1>0, <3>1, <3>2
      <4>. QED  BY <4>1
    <3>. QED  BY <3>2 DEF Behind
  <2>7. 0 <= entered /\ (ui.step = "put" => 0 < entered)
    BY <1>0 DEF TurnInv
  <2>8. ASSUME NEW n, InFront(n)'
        PROVE  Behind(taskQueue', n) /\ n <= entered' /\ (ui'.step = "put" => n < entered')
    BY <2>2, <2>5, <2>6, <2>7, <2>8 DEF OrderInv
  <2>9. \A m, n : HasItem(reached', m) /\ HasItem(ready', n) => m < n
    BY <2>2, <2>3, <2>4 DEF OrderInv
  <2>. QED  BY <2>2, <2>4, <2>8, <2>9 DEF OrderInv
<1>15. CASE TakePrompt
  <2>1. PICK c, r : c = Head(ready) /\ r = Tail(ready)
    OBVIOUS
  <2>2. /\ ready # <<>> /\ reached' = Append(reached, c) /\ ready' = r /\ hostTurn.popped = 0 /\ hostTurn.state = "running"
        /\ UNCHANGED <<taskQueue, entered, ui, worker, hostTurn>>
    BY <1>15, <2>1 DEF TakePrompt, Running
  <2>3. /\ r \in Seq(Nat) /\ c \in Nat /\ (\A n : HasItem(ready, n) <=> HasItem(r, n) \/ n = c)
        /\ Increasing(r) /\ \A n : HasItem(r, n) => c < n
    BY <1>0, <2>1, <2>2, ItemOfTail DEF OrderInv
  <2>4. \A n : HasItem(reached, n) => n < c
    BY <2>3 DEF OrderInv
  <2>5. Increasing(reached') /\ \A n : HasItem(reached', n) <=> HasItem(reached, n) \/ n = c
    BY <1>0, <2>2, <2>3, <2>4, ItemAppended DEF OrderInv
  <2>6. ~Holding /\ ~Holding'
    BY <2>2 DEF Holding, TurnInv, Waits
  <2>7. ASSUME NEW n, InFront(n)' PROVE InFront(n)
    BY <2>2, <2>3, <2>5, <2>6, <2>7 DEF InFront
  <2>8. \A m, n : HasItem(reached', m) /\ HasItem(ready', n) => m < n
    BY <2>2, <2>3, <2>5 DEF OrderInv
  <2>. QED  BY <2>2, <2>3, <2>5, <2>6, <2>7, <2>8 DEF OrderInv
<1>16. CASE HostEnd
  <2>1. UNCHANGED <<taskQueue, reached, ready, entered, ui, worker>> /\ hostTurn'.popped = hostTurn.popped /\ Holding' = Holding
    BY <1>16 DEF HostEnd, QueueTypes, Holding
  <2>. QED  BY <1>1, <2>1
<1>. QED
  BY <1>2, <1>3, <1>4, <1>5, <1>6, <1>7, <1>8, <1>9, <1>10, <1>11, <1>12, <1>13, <1>14, <1>15, <1>16
     DEF ReplNext, Ui, Worker, Turn

LEMMA ReplStep ==
  ASSUME ReplInv, [ReplNext]_replVars
  PROVE  ReplInv'
<1>1. CASE ReplNext
  BY <1>1, TypesKept, HostKeeps, StopKept, OrderKept DEF ReplInv
<1>2. CASE UNCHANGED replVars
  BY <1>2 DEF replVars, ReplInv, QueueTypes, TurnInv, Waits, StopInv, OrderInv, InFront, Holding
<1>. QED  BY <1>1, <1>2

\* Prompts reach the model in the order they were entered and none twice, whether they are
\* turns of their own or taken out of the queue for the running turn (TurnQueueRunner).
THEOREM Order == ReplSpec => []PromptsInOrder
<1>1. ReplInv => PromptsInOrder
  <2> SUFFICES ASSUME ReplInv, NEW i \in 1..(Len(reached) - 1) PROVE reached[i] < reached[i + 1]
    BY DEF PromptsInOrder
  <2>1. reached \in Seq(Nat) /\ Increasing(reached)
    BY DEF ReplInv, QueueTypes, OrderInv
  <2>2. i \in DOMAIN reached /\ i + 1 \in DOMAIN reached /\ i < i + 1
    BY <2>1
  <2>. QED  BY <2>1, <2>2 DEF Increasing
<1>. QED  BY <1>1, InitRepl, ReplStep, PTL DEF ReplSpec

\* An interrupt that request_interrupt has accepted reaches the turn, also one that was
\* requested before the turn was known to the terminal.
THEOREM Interrupts == ReplSpec => []InterruptReachesTurn
<1>1. ReplInv => InterruptReachesTurn
  BY DEF ReplInv, StopInv, InterruptReachesTurn, Works, Nothing
<1>. QED  BY <1>1, InitRepl, ReplStep, PTL DEF ReplSpec
=============================================================================
