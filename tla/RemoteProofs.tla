---------------------------- MODULE RemoteProofs ----------------------------
(* Theorems about the remote connection: first about the events a browser  *)
(* is sent (RemoteStream), then about the commands it gives                *)
(* (RemoteCommands).                                                       *)
EXTENDS RemoteStream, RemoteCommands, FiniteSetTheorems, SequenceTheorems, WellFoundedInduction, TLAPS

-----------------------------------------------------------------------------
(* Theorems about RemoteStream, for every size of the ring and every bound. *)

-----------------------------------------------------------------------------
(* Numbers.                                                                *)

LEMMA LeastNumber ==
  ASSUME NEW S \in SUBSET Nat, S # {}
  PROVE  \E x \in S : \A y \in S : x <= y
<1> DEFINE R == OpToRel(<, Nat)
<1>1. IsWellFoundedOn(R, Nat)
  BY NatLessThanWellFounded
<1>2. \A x, y \in Nat : x < y => <<x, y>> \in R
  BY DEF OpToRel
<1> HIDE DEF R
<1>3. PICK x \in S : \A y \in S : ~ (<<y, x>> \in R)
  BY <1>1, WFMin
<1>4. ASSUME NEW y \in S PROVE x <= y
  <2>1. x \in Nat /\ y \in Nat /\ ~(y < x)
    BY <1>2, <1>3
  <2>. QED  BY <2>1
<1>. QED  BY <1>4

\* Induction from a, of a property given by the set of numbers that have it.
LEMMA FromNumber ==
  ASSUME NEW S, NEW a \in Nat, a \in S, \A n \in Nat : n >= a /\ n \in S => n + 1 \in S
  PROVE  \A n \in Nat : n >= a => n \in S
<1> SUFFICES ASSUME NEW n \in Nat, n >= a, n \notin S PROVE FALSE
  OBVIOUS
<1> DEFINE T == {k \in Nat : k >= a /\ k \notin S}
<1>1. T \in SUBSET Nat /\ T # {}
  OBVIOUS
<1>2. PICK x \in T : \A y \in T : x <= y
  BY <1>1, LeastNumber
<1>3. x - 1 \in Nat /\ x - 1 >= a /\ x - 1 \notin T
  BY <1>2
<1>. QED  BY <1>2, <1>3
-----------------------------------------------------------------------------
(* The browser.                                                            *)

Buffered == [epoch : Epochs, seq : Numbers]
View == [epoch : 0..MaxEpochs, seq : Numbers, whole : BOOLEAN, synced : BOOLEAN, skipped : BOOLEAN]

\* The connection while it handles a message, with what it sends and has shown.
Connection == [open : BOOLEAN, epoch : 0..MaxEpochs, applied : Numbers, acked : Numbers,
               buffer : SUBSET Buffered, inFlight : BOOLEAN, out : Seq(Request), view : View]

\* What is buffered is of the browser's epoch and not yet applied, and what is applied
\* is what was shown last, with nothing left out.
Sound(b) ==
  /\ b \in Connection
  /\ b.epoch = 0 => b.applied = 0 /\ b.buffer = {}
  /\ \A m \in b.buffer : m.epoch = b.epoch /\ m.seq > b.applied
  /\ b.applied # 0 => b.view.epoch = b.epoch /\ b.view.seq = b.applied
  /\ ~b.view.skipped

\* And it is acknowledged.
Acked(b) == b.acked = b.applied

Bounds == MaxEvents \in Nat /\ MaxEpochs \in Nat /\ RingLimit \in Nat

LEMMA BoundsAreNumbers == Bounds
BY StreamAssumption DEF Bounds

LEMMA LastOfBuffer ==
  ASSUME NEW buffer \in SUBSET Buffered, NEW n \in Numbers
  PROVE  /\ LastContiguous(buffer, n) \in Numbers /\ LastContiguous(buffer, n) >= n
         /\ \A i \in n+1..LastContiguous(buffer, n) : \E m \in buffer : m.seq = i
<1>1. MaxEvents \in Nat /\ n \in 0..MaxEvents /\ \A m \in buffer : m.seq \in 0..MaxEvents
  BY BoundsAreNumbers DEF Bounds, Numbers, Buffered
<1> DEFINE S == {k \in Nat : k >= n /\ ~ \E m \in buffer : m.seq = k + 1}
           Good(k) == /\ \A i \in n+1..k : \E m \in buffer : m.seq = i
                      /\ ~ \E m \in buffer : m.seq = k + 1
<1>2. MaxEvents \in S /\ S \in SUBSET Nat
  BY <1>1
<1>3. PICK x \in S : \A y \in S : x <= y
  BY <1>2, LeastNumber
<1>4. x \in n..n+MaxEvents
  BY <1>1, <1>2, <1>3
<1>5. ASSUME NEW i \in n+1..x PROVE \E m \in buffer : m.seq = i
  <2>1. i - 1 \in Nat /\ i - 1 >= n /\ i - 1 < x /\ i - 1 + 1 = i
    BY <1>1, <1>4
  <2>2. i - 1 \notin S
    BY <1>3, <2>1
  <2>. QED  BY <2>1, <2>2
<1>6. \E k \in n..n+MaxEvents : Good(k)
  BY <1>3, <1>4, <1>5
<1>7. PICK k : k = LastContiguous(buffer, n) /\ k \in n..n+MaxEvents /\ Good(k)
  BY <1>6 DEF LastContiguous
<1>8. k \in Numbers
  <2>1. CASE k = n
    BY <2>1
  <2>2. CASE k # n
    <3>1. k \in n+1..k
      BY <1>1, <1>7, <2>2
    <3>. QED  BY <1>1, <1>7, <3>1 DEF Numbers
  <2>. QED  BY <2>1, <2>2
<1>. QED  BY <1>1, <1>7, <1>8

LEMMA ResumeSound ==
  ASSUME NEW b, Sound(b)
  PROVE  /\ Sound(SendStreamResume(b))
         /\ SendStreamResume(b).acked = b.acked /\ SendStreamResume(b).applied = b.applied
<1>1. [kind |-> "resume", epoch |-> b.epoch, seq |-> b.applied] \in Request
  BY DEF Sound, Connection, Request
<1>2. PICK r \in Request : r = [kind |-> "resume", epoch |-> b.epoch, seq |-> b.applied]
  BY <1>1
<1>3. b.out \in Seq(Request) /\ Append(b.out, r) \in Seq(Request)
  BY <1>2 DEF Sound, Connection
<1>4. SendStreamResume(b) = [b EXCEPT !.inFlight = TRUE, !.out = Append(b.out, r)]
  BY <1>2 DEF SendStreamResume
<1>. QED  BY <1>3, <1>4 DEF Sound, Connection

LEMMA AckSound ==
  ASSUME NEW b, Sound(b), b.acked <= b.applied
  PROVE  Sound(SendStreamAck(b)) /\ Acked(SendStreamAck(b))
<1>1. [kind |-> "ack", epoch |-> b.epoch, seq |-> b.applied] \in Request
  BY DEF Sound, Connection, Request
<1>2. b.acked \in 0..MaxEvents /\ b.applied \in 0..MaxEvents /\ MaxEvents \in Nat
  BY BoundsAreNumbers DEF Sound, Connection, Numbers, Bounds
<1>3. CASE b.epoch = 0 \/ b.applied <= b.acked
  BY <1>2, <1>3 DEF SendStreamAck, Acked, Sound
<1>4. CASE ~(b.epoch = 0 \/ b.applied <= b.acked)
  <2>1. PICK r \in Request : r = [kind |-> "ack", epoch |-> b.epoch, seq |-> b.applied]
    BY <1>1
  <2>2. b.out \in Seq(Request) /\ Append(b.out, r) \in Seq(Request)
    BY <2>1 DEF Sound, Connection
  <2>3. SendStreamAck(b) = [b EXCEPT !.acked = b.applied, !.out = Append(b.out, r)]
    BY <1>4, <2>1 DEF SendStreamAck
  <2>. QED  BY <2>2, <2>3 DEF Sound, Connection, Acked
<1>. QED  BY <1>3, <1>4

LEMMA RequestSnapshotSound ==
  ASSUME NEW b, Sound(b)
  PROVE  Sound(RequestSnapshotResume(b)) /\ Acked(RequestSnapshotResume(b))
<1> DEFINE c == [b EXCEPT !.epoch = 0, !.applied = 0, !.acked = 0, !.buffer = {}]
<1>1. 0 \in Numbers /\ 0 \in 0..MaxEpochs
  BY BoundsAreNumbers DEF Bounds, Numbers
<1>2. Sound(c) /\ c.acked = 0 /\ c.applied = 0
  BY <1>1 DEF Sound, Connection
<1> HIDE DEF c
<1>3. RequestSnapshotResume(b) = SendStreamResume(c)
  BY DEF RequestSnapshotResume, c
<1>. QED  BY <1>2, <1>3, ResumeSound DEF Acked

\* What is shown follows what is applied.
LEMMA ShowFollows ==
  ASSUME NEW v \in View, NEW messages \in SUBSET Buffered, NEW e \in Epochs,
         NEW n \in Numbers, NEW last \in Numbers, ~v.skipped,
         \A m \in messages : m.epoch = e /\ m.seq > n,
         n # 0 => v.epoch = e /\ v.seq = n,
         messages # {} => \E m \in messages : m.seq = n + 1
  PROVE  /\ Show(v, messages, last) \in View /\ ~Show(v, messages, last).skipped
         /\ messages # {} => Show(v, messages, last).epoch = e /\ Show(v, messages, last).seq = last
         /\ messages = {} => Show(v, messages, last) = v
<1>1. CASE messages = {}
  BY <1>1 DEF Show
<1>2. CASE messages # {}
  <2>1. \A m \in messages : m.seq \in Nat /\ n \in Nat
    BY BoundsAreNumbers DEF Buffered, Numbers, Bounds
  <2>2. PICK m \in messages : m.seq = n + 1
    BY <1>2
  <2>3. \A o \in messages : m.seq <= o.seq
    BY <2>1, <2>2
  <2>4. PICK first : /\ first = CHOOSE x \in messages : \A o \in messages : x.seq <= o.seq
                     /\ first \in messages /\ \A o \in messages : first.seq <= o.seq
    BY <2>3
  <2>5. first.seq = n + 1 /\ first.epoch = e
    BY <2>1, <2>2, <2>4
  <2>6. ~ \E x \in messages : x.epoch # first.epoch
    BY <2>5
  <2>7. (v.epoch = first.epoch /\ v.seq = first.seq - 1) \/ first.seq = 1
    BY <2>1, <2>2, <2>5
  <2>8. PICK w \in BOOLEAN :
          Show(v, messages, last) =
            [epoch |-> e, seq |-> last, synced |-> v.synced, whole |-> w, skipped |-> FALSE]
    <3>1. Show(v, messages, last) =
            [epoch |-> first.epoch, seq |-> last, synced |-> v.synced,
             whole |-> v.whole /\ (v.epoch = first.epoch /\ v.seq = first.seq - 1)
                       /\ ~(\E x \in messages : x.epoch # first.epoch),
             skipped |-> v.skipped \/ (\E x \in messages : x.epoch # first.epoch)
                         \/ ~((v.epoch = first.epoch /\ v.seq = first.seq - 1) \/ first.seq = 1)]
      BY <1>2, <2>4 DEF Show
    <3>2. PICK w \in BOOLEAN : w = (v.whole /\ (v.epoch = first.epoch /\ v.seq = first.seq - 1)
                                    /\ ~(\E x \in messages : x.epoch # first.epoch))
      OBVIOUS
    <3>3. (v.skipped \/ (\E x \in messages : x.epoch # first.epoch)
             \/ ~((v.epoch = first.epoch /\ v.seq = first.seq - 1) \/ first.seq = 1)) = FALSE
      BY <2>6, <2>7
    <3>. QED  BY <2>5, <3>1, <3>2, <3>3
  <2>9. e \in 0..MaxEpochs /\ v.synced \in BOOLEAN
    BY BoundsAreNumbers DEF Epochs, View, Bounds
  <2>. QED  BY <1>2, <2>8, <2>9 DEF View
<1>. QED  BY <1>1, <1>2

LEMMA SequencedSound ==
  ASSUME NEW b, NEW e \in Epochs, NEW n \in Numbers, Sound(b), Acked(b)
  PROVE  LET c == HandleSequencedEvent(b, e, n)
         IN Sound(c) /\ Acked(c)
<1>1. CASE b.epoch \notin {0, e}
  BY <1>1, RequestSnapshotSound DEF HandleSequencedEvent
<1>2. CASE b.epoch \in {0, e} /\ n <= b.applied
  <2>1. e \in 0..MaxEpochs
    BY BoundsAreNumbers DEF Epochs, Bounds
  <2>2. HandleSequencedEvent(b, e, n) = [b EXCEPT !.epoch = e]
    BY <1>2 DEF HandleSequencedEvent
  <2>. QED  BY <1>2, <2>1, <2>2 DEF Sound, Acked, Connection
<1>3. CASE b.epoch \in {0, e} /\ ~(n <= b.applied)
  <2>1. PICK buffer :
          buffer = b.buffer \cup {m \in {[epoch |-> e, seq |-> n]} : ~\E o \in b.buffer : o.seq = n}
    OBVIOUS
  <2>2. PICK last : last = LastContiguous(buffer, b.applied)
    OBVIOUS
  <2>3. PICK rest : rest = {m \in buffer : m.seq > last}
    OBVIOUS
  <2>4. PICK seen : seen = Show(b.view, buffer \ rest, last)
    OBVIOUS
  <2>5. PICK shown : shown = [b EXCEPT !.epoch = e, !.buffer = rest, !.applied = last, !.view = seen]
    OBVIOUS
  <2>6. PICK acked : acked = IF last > b.applied THEN SendStreamAck(shown) ELSE shown
    OBVIOUS
  <2>7. HandleSequencedEvent(b, e, n) = IF rest # {} /\ ~b.inFlight THEN SendStreamResume(acked) ELSE acked
    BY <1>3, <2>1, <2>2, <2>3, <2>4, <2>5, <2>6 DEF HandleSequencedEvent
  <2>8. /\ b \in Connection /\ b.applied \in Numbers /\ b.buffer \subseteq Buffered /\ b.view \in View
        /\ ~b.view.skipped /\ b.acked = b.applied
        /\ b.epoch = 0 => b.applied = 0 /\ b.buffer = {}
        /\ \A m \in b.buffer : m.epoch = b.epoch /\ m.seq > b.applied
        /\ b.applied # 0 => b.view.epoch = b.epoch /\ b.view.seq = b.applied
    BY DEF Sound, Connection, Acked
  <2>9. e \in 0..MaxEpochs /\ b.applied \in Nat /\ n \in Nat
    BY <2>8, BoundsAreNumbers DEF Epochs, Numbers, Bounds
  <2>10. buffer \in SUBSET Buffered /\ \A m \in buffer : m.epoch = e /\ m.seq > b.applied
    BY <1>3, <2>1, <2>8, <2>9 DEF Buffered
  <2>11. /\ last \in Numbers /\ last >= b.applied /\ last \in Nat
         /\ \A i \in b.applied+1..last : \E m \in buffer : m.seq = i
    <3>1. /\ last \in Numbers /\ last >= b.applied
          /\ \A i \in b.applied+1..last : \E m \in buffer : m.seq = i
      BY <2>2, <2>8, <2>10, LastOfBuffer
    <3>. QED  BY <3>1, BoundsAreNumbers DEF Numbers, Bounds
  <2>12. last > b.applied => \E m \in buffer \ rest : m.seq = b.applied + 1
    <3>1. SUFFICES ASSUME last > b.applied PROVE \E m \in buffer \ rest : m.seq = b.applied + 1
      OBVIOUS
    <3>2. b.applied + 1 \in b.applied+1..last
      BY <2>9, <2>11, <3>1
    <3>3. PICK m \in buffer : m.seq = b.applied + 1
      BY <2>11, <3>2
    <3>. QED  BY <2>3, <2>9, <2>11, <3>1, <3>3
  <2>13. buffer \ rest # {} => last > b.applied
    <3>1. SUFFICES ASSUME NEW m \in buffer \ rest PROVE last > b.applied
      OBVIOUS
    <3>2. m.seq \in Nat /\ m.seq > b.applied /\ ~(m.seq > last)
      BY <2>3, <2>10, BoundsAreNumbers DEF Buffered, Numbers, Bounds
    <3>. QED  BY <2>9, <2>11, <3>2
  <2>14. /\ seen \in View /\ ~seen.skipped
         /\ buffer \ rest # {} => seen.epoch = e /\ seen.seq = last
         /\ buffer \ rest = {} => seen = b.view
    <3>1. b.applied # 0 => b.view.epoch = e /\ b.view.seq = b.applied
      BY <1>3, <2>8
    <3>2. buffer \ rest # {} => \E m \in buffer \ rest : m.seq = b.applied + 1
      BY <2>12, <2>13
    <3>3. buffer \ rest \in SUBSET Buffered /\ \A m \in buffer \ rest : m.epoch = e /\ m.seq > b.applied
      BY <2>10
    <3>4. PICK messages, v, k : messages = buffer \ rest /\ v = b.view /\ k = b.applied
      OBVIOUS
    <3>5. /\ v \in View /\ messages \in SUBSET Buffered /\ k \in Numbers /\ last \in Numbers /\ ~v.skipped
          /\ \A m \in messages : m.epoch = e /\ m.seq > k
          /\ k # 0 => v.epoch = e /\ v.seq = k
          /\ messages # {} => \E m \in messages : m.seq = k + 1
      BY <2>8, <2>11, <3>1, <3>2, <3>3, <3>4
    <3>6. /\ Show(v, messages, last) \in View /\ ~Show(v, messages, last).skipped
          /\ messages # {} => Show(v, messages, last).epoch = e /\ Show(v, messages, last).seq = last
          /\ messages = {} => Show(v, messages, last) = v
      BY <3>5, ShowFollows
    <3>. QED  BY <2>4, <3>4, <3>6
  <2>15. last # 0 => seen.epoch = e /\ seen.seq = last
    <3>1. CASE last > b.applied
      BY <2>12, <2>14, <3>1
    <3>2. CASE ~(last > b.applied)
      BY <1>3, <2>8, <2>9, <2>11, <2>13, <2>14, <3>2
    <3>. QED  BY <3>1, <3>2
  <2>16. Sound(shown) /\ shown.acked = b.applied /\ shown.applied = last
    <3>1. rest \in SUBSET Buffered /\ \A m \in rest : m.epoch = e /\ m.seq > last
      BY <2>3, <2>10
    <3>2. e # 0
      BY BoundsAreNumbers DEF Epochs, Bounds
    <3>3. shown \in Connection
      BY <2>5, <2>8, <2>9, <2>11, <2>14, <3>1 DEF Connection
    <3>4. /\ shown.epoch = e /\ shown.buffer = rest /\ shown.applied = last /\ shown.view = seen
          /\ shown.acked = b.acked
      BY <2>5, <2>8 DEF Connection
    <3>. QED  BY <2>8, <2>14, <2>15, <3>1, <3>2, <3>3, <3>4 DEF Sound
  <2>17. Sound(acked) /\ Acked(acked)
    <3>1. CASE last > b.applied
      BY <2>6, <2>9, <2>11, <2>16, <3>1, AckSound
    <3>2. CASE ~(last > b.applied)
      BY <2>6, <2>9, <2>11, <2>16, <3>2 DEF Acked
    <3>. QED  BY <3>1, <3>2
  <2>. QED  BY <2>7, <2>17, ResumeSound DEF Acked
<1>. QED  BY <1>1, <1>2, <1>3

\* g[n] is the connection after the events a + 1 to n of the epoch e.
ReplayedBy(g, base, e, a, k) ==
  g = [n \in a..k |-> IF n = a THEN base ELSE HandleSequencedEvent(g[n-1], e, n)]

\* A replay is handled one event after the other.
LEMMA ReplayDefined ==
  ASSUME NEW base, NEW e, NEW a \in Nat
  PROVE  \A k \in Nat : k >= a => \E g : ReplayedBy(g, base, e, a, k)
<1> USE DEF ReplayedBy
<1> DEFINE Is(g, k) == ReplayedBy(g, base, e, a, k)
           S == {k \in Nat : \E g : Is(g, k)}
<1>1. a \in S
  <2>1. PICK g : g = [n \in a..a |-> base]
    OBVIOUS
  <2>2. Is(g, a)
    BY <2>1
  <2>. QED  BY <2>2
<1>2. ASSUME NEW k \in Nat, k >= a, k \in S PROVE k + 1 \in S
  <2>1. PICK g : Is(g, k)
    BY <1>2
  <2>2. \A n \in a..k : g[n] = IF n = a THEN base ELSE HandleSequencedEvent(g[n-1], e, n)
    BY <2>1
  <2>3. PICK h : h = [n \in a..k+1 |-> IF n = k + 1 THEN HandleSequencedEvent(g[k], e, k + 1) ELSE g[n]]
    OBVIOUS
  <2>4. ASSUME NEW n \in a..k+1
        PROVE  h[n] = IF n = a THEN base ELSE HandleSequencedEvent(h[n-1], e, n)
    <3>1. CASE n = k + 1
      <4>1. n # a /\ n - 1 = k /\ k \in a..k+1 /\ k # k + 1
        BY <1>2, <3>1
      <4>2. h[k] = g[k]
        BY <2>3, <4>1
      <4>. QED  BY <2>3, <3>1, <4>1, <4>2
    <3>2. CASE n # k + 1
      <4>1. n \in a..k /\ h[n] = g[n]
        BY <1>2, <2>3, <3>2
      <4>2. n # a => n - 1 \in a..k+1 /\ n - 1 # k + 1
        BY <4>1
      <4>3. n # a => h[n-1] = g[n-1]
        BY <2>3, <4>2
      <4>. QED  BY <2>2, <4>1, <4>3
    <3>. QED  BY <3>1, <3>2
  <2>5. Is(h, k + 1)
    <3> DEFINE other == [n \in a..k+1 |-> IF n = a THEN base ELSE HandleSequencedEvent(h[n-1], e, n)]
    <3>1. DOMAIN h = a..k+1 /\ h = [n \in a..k+1 |-> h[n]]
      BY <2>3
    <3>2. h = other
      BY <2>4, <3>1
    <3>. QED  BY <3>2
  <2>. QED  BY <2>5
<1>3. \A k \in Nat : k >= a => k \in S
  <2> HIDE DEF S
  <2>. QED  BY <1>1, <1>2, FromNumber
<1>. QED  BY <1>3
LEMMA ReplaySound ==
  ASSUME NEW b, NEW m \in Message, Sound(b), Acked(b), m.after <= m.seq
  PROVE  Sound(HandleReplay(b, m)) /\ Acked(HandleReplay(b, m))
<1>1. PICK ready, e, low, high :
        ready = [b EXCEPT !.inFlight = FALSE] /\ e = m.epoch /\ low = m.after /\ high = m.seq
  OBVIOUS
<1>2. Sound(ready) /\ Acked(ready) /\ ready.epoch = b.epoch
  BY <1>1 DEF Sound, Acked, Connection
<1>3. /\ e \in Epochs /\ e \in 0..MaxEpochs /\ low \in Nat /\ high \in Nat /\ low <= high
      /\ high \in Numbers /\ \A n \in low..high : n \in Numbers
  BY <1>1, BoundsAreNumbers DEF Message, Epochs, Numbers, Bounds
<1>4. CASE b.epoch \notin {0, e}
  BY <1>1, <1>2, <1>4, RequestSnapshotSound DEF HandleReplay
<1>5. CASE b.epoch \in {0, e}
  <2>1. PICK base : base = [ready EXCEPT !.epoch = e]
    OBVIOUS
  <2>2. Sound(base) /\ Acked(base)
    BY <1>2, <1>3, <1>5, <2>1 DEF Sound, Acked, Connection
  <2>3. PICK after : /\ after = CHOOSE g : ReplayedBy(g, base, e, low, high)
                     /\ ReplayedBy(after, base, e, low, high)
    <3>1. \E g : ReplayedBy(g, base, e, low, high)
      BY <1>3, ReplayDefined
    <3>. QED  BY <3>1
  <2>4. \A n \in low..high : after[n] = IF n = low THEN base ELSE HandleSequencedEvent(after[n-1], e, n)
    BY <2>3 DEF ReplayedBy
  <2>5. HandleReplay(b, m) = after[high]
    BY <1>1, <1>5, <2>1, <2>3 DEF HandleReplay, ReplayedBy
  <2> DEFINE S == {n \in Nat : n <= high => Sound(after[n]) /\ Acked(after[n])}
  <2>6. low \in S
    BY <1>3, <2>2, <2>4
  <2>7. ASSUME NEW n \in Nat, n >= low, n \in S PROVE n + 1 \in S
    <3>1. SUFFICES ASSUME n + 1 <= high PROVE Sound(after[n+1]) /\ Acked(after[n+1])
      OBVIOUS
    <3>2. /\ n + 1 \in low..high /\ n + 1 # low /\ n + 1 - 1 = n /\ n <= high
      BY <1>3, <2>7, <3>1
    <3>3. after[n+1] = HandleSequencedEvent(after[n], e, n + 1)
      BY <2>4, <3>2
    <3>. QED  BY <1>3, <2>7, <3>2, <3>3, SequencedSound
  <2>8. high \in S
    <3> HIDE DEF S
    <3>. QED  BY <1>3, <2>6, <2>7, FromNumber
  <2>. QED  BY <1>3, <2>5, <2>8
<1>. QED  BY <1>4, <1>5

LEMMA SnapshotSound ==
  ASSUME NEW b, NEW m \in Message, Sound(b), Acked(b)
  PROVE  Sound(HandleSnapshot(b, m)) /\ Acked(HandleSnapshot(b, m))
<1>1. CASE b.epoch = m.epoch /\ m.seq <= b.applied
  BY <1>1 DEF HandleSnapshot, Sound, Acked, Connection
<1>2. CASE ~(b.epoch = m.epoch /\ m.seq <= b.applied)
  <2>1. PICK acked, seen : /\ acked = IF b.epoch = m.epoch THEN b.acked ELSE 0
                           /\ seen = [b.view EXCEPT !.epoch = m.epoch, !.seq = m.seq,
                                                    !.whole = TRUE, !.synced = TRUE]
    OBVIOUS
  <2>2. PICK c : c = [b EXCEPT !.inFlight = FALSE, !.epoch = m.epoch, !.buffer = {}, !.acked = acked,
                               !.applied = m.seq, !.view = seen]
    OBVIOUS
  <2>3. HandleSnapshot(b, m) = SendStreamAck(c)
    BY <1>2, <2>1, <2>2 DEF HandleSnapshot
  <2>4. /\ m.seq \in Numbers /\ m.seq \in Nat /\ m.epoch \in 0..MaxEpochs /\ m.epoch # 0
        /\ acked \in Numbers /\ acked \in Nat /\ acked <= m.seq
    BY <1>2, <2>1, BoundsAreNumbers DEF Message, Epochs, Numbers, Bounds, Sound, Acked, Connection
  <2>5. seen \in View /\ seen.epoch = m.epoch /\ seen.seq = m.seq /\ ~seen.skipped
    BY <2>1, <2>4 DEF Sound, Connection, View
  <2>6. c \in Connection
    BY <2>2, <2>4, <2>5 DEF Sound, Connection
  <2>7. /\ c.epoch = m.epoch /\ c.applied = m.seq /\ c.acked = acked /\ c.buffer = {} /\ c.view = seen
    BY <2>2 DEF Sound, Connection
  <2>8. Sound(c) /\ c.acked <= c.applied
    BY <2>4, <2>5, <2>6, <2>7 DEF Sound
  <2>. QED  BY <2>3, <2>8, AckSound
<1>. QED  BY <1>1, <1>2

LEMMA MessageSound ==
  ASSUME NEW b, NEW m \in Message, Sound(b), Acked(b), m.after <= m.seq
  PROVE  Sound(HandleMessage(b, m)) /\ Acked(HandleMessage(b, m))
<1>1. CASE m.kind = "event"
  BY <1>1, SequencedSound DEF HandleMessage, Message
<1>2. CASE m.kind = "replay"
  BY <1>2, ReplaySound DEF HandleMessage
<1>3. CASE m.kind = "snapshot"
  BY <1>3, SnapshotSound DEF HandleMessage
<1>4. CASE m.kind \notin {"event", "replay", "snapshot"}
  <2>1. HandleMessage(b, m) = [b EXCEPT !.inFlight = FALSE]
    BY <1>4 DEF HandleMessage
  <2>. QED  BY <2>1 DEF Sound, Acked, Connection
<1>. QED  BY <1>1, <1>2, <1>3, <1>4
-----------------------------------------------------------------------------
(* The stream.                                                             *)

\* A message's events are those after `after`, up to seq.
Carried == {m \in Message : m.after <= m.seq}

ConnectorInv ==
  /\ connector \in [up : BOOLEAN, epoch : 0..MaxEpochs, next : Numbers, acked : Numbers,
                    event : Seq(Carried), reply : Seq(Carried)]
  /\ connector.up => connector.epoch # 0

PathsInv == wire \in [Epochs -> Seq(Carried)] /\ down \in Seq(Carried) /\ requests \in Seq(Request)

BrowserInv ==
  /\ browser \in [open : BOOLEAN, epoch : 0..MaxEpochs, applied : Numbers, acked : Numbers,
                  buffer : SUBSET Buffered, inFlight : BOOLEAN]
  /\ Sound(Current) /\ Acked(Current)

StreamInv == ConnectorInv /\ PathsInv /\ BrowserInv

\* A stretch of a sequence.
LEMMA Stretch ==
  ASSUME NEW S, NEW q \in Seq(S), NEW m \in 1..Len(q)+1, NEW n \in 0..Len(q)
  PROVE  SubSeq(q, m, n) \in Seq(S)
<1>1. \A i \in m..n : q[i] \in S
  BY ElementOfSeq
<1>2. m \in Int /\ n \in Int
  OBVIOUS
<1>. QED  BY <1>1, <1>2, SubSeqProperties

\* What the browser becomes is sound again, and so is what it sends.
LEMMA BecomeInv ==
  ASSUME PathsInv, NEW b, Sound(b), Acked(b), Become(b)
  PROVE  BrowserInv' /\ requests' \in Seq(Request)
<1>1. /\ browser' = [open |-> b.open, epoch |-> b.epoch, applied |-> b.applied,
                     acked |-> b.acked, buffer |-> b.buffer, inFlight |-> b.inFlight]
      /\ view' = b.view /\ requests' = requests \o b.out
  BY DEF Become
<1>2. requests' \in Seq(Request)
  BY <1>1 DEF PathsInv, Sound, Connection
<1>3. browser' \in [open : BOOLEAN, epoch : 0..MaxEpochs, applied : Numbers, acked : Numbers,
                    buffer : SUBSET Buffered, inFlight : BOOLEAN]
  BY <1>1 DEF Sound, Connection
<1>4. PICK c : c = [open |-> b.open, epoch |-> b.epoch, applied |-> b.applied, acked |-> b.acked,
                    buffer |-> b.buffer, inFlight |-> b.inFlight, out |-> <<>>, view |-> b.view]
  OBVIOUS
<1>5. Current' = c
  BY <1>1, <1>4 DEF Current
<1>6. Sound(c) /\ Acked(c)
  <2>1. <<>> \in Seq(Request)
    OBVIOUS
  <2>. QED  BY <1>4, <2>1 DEF Sound, Acked, Connection
<1>7. Sound(Current)' /\ Acked(Current)'
  BY <1>5, <1>6 DEF Sound, Acked
<1>. QED  BY <1>2, <1>3, <1>7 DEF BrowserInv

\* Steps that the browser takes no part in.
LEMMA BrowserStays ==
  ASSUME BrowserInv, UNCHANGED <<browser, view>>
  PROVE  BrowserInv'
<1>1. Current' = Current
  BY DEF Current
<1>. QED  BY <1>1 DEF BrowserInv, Sound, Acked

LEMMA SendInv ==
  ASSUME PathsInv, NEW m \in Carried, Send(m)
  PROVE  wire' \in [Epochs -> Seq(Carried)]
<1>1. m.epoch \in Epochs
  BY DEF Carried, Message
<1>2. wire[m.epoch] \in Seq(Carried) /\ Append(wire[m.epoch], m) \in Seq(Carried)
  BY <1>1 DEF PathsInv
<1>. QED  BY <1>1, <1>2 DEF PathsInv, Send

\* The empty sequence is a sequence over every set.
LEMMA NoElements ==
  ASSUME NEW S
  PROVE  \E none \in Seq(S) : none = <<>>
<1>1. <<>> \in Seq(S)
  BY EmptySeq
<1>. QED  BY <1>1

\* A slot of the connector that is emptied is a slot again, whether it stops or has sent.
LEMMA Emptied ==
  ASSUME ConnectorInv,
         \/ connector' = [connector EXCEPT !.up = FALSE, !.event = <<>>, !.reply = <<>>]
         \/ connector' = [connector EXCEPT !.event = <<>>]
         \/ connector' = [connector EXCEPT !.reply = <<>>]
  PROVE  ConnectorInv'
<1>1. PICK none \in Seq(Carried) : none = <<>>
  BY NoElements
<1>2. CASE connector' = [connector EXCEPT !.up = FALSE, !.event = <<>>, !.reply = <<>>]
  <2>1. connector' = [connector EXCEPT !.up = FALSE, !.event = none, !.reply = none]
    BY <1>1, <1>2
  <2>. QED  BY <2>1 DEF ConnectorInv
<1>3. CASE connector' = [connector EXCEPT !.event = <<>>]
  <2>1. connector' = [connector EXCEPT !.event = none]
    BY <1>1, <1>3
  <2>. QED  BY <2>1 DEF ConnectorInv
<1>4. CASE connector' = [connector EXCEPT !.reply = <<>>]
  <2>1. connector' = [connector EXCEPT !.reply = none]
    BY <1>1, <1>4
  <2>. QED  BY <2>1 DEF ConnectorInv
<1>. QED  BY <1>2, <1>3, <1>4

LEMMA ConnectorStep ==
  ASSUME StreamInv,
         StartConnector \/ StopConnector \/ RecordEvent \/ SendEvent \/ SendReply
  PROVE  StreamInv'
<1>1. BrowserInv'
  BY BrowserStays DEF StreamInv, StartConnector, StopConnector, RecordEvent, SendEvent, SendReply
<1>2. CASE StartConnector
  <2>1. connector.epoch + 1 \in 0..MaxEpochs /\ connector.epoch + 1 # 0 /\ 0 \in Numbers
    BY <1>2, BoundsAreNumbers DEF StartConnector, StreamInv, ConnectorInv, Bounds, Numbers
  <2>2. ConnectorInv'
    BY <1>2, <2>1 DEF StartConnector, ConnectorInv
  <2>3. wire' \in [Epochs -> Seq(Carried)]
    <3>1. \A e \in Epochs : wire[e] \in Seq(Carried)
      BY DEF StreamInv, PathsInv
    <3>2. \A e \in Epochs : wire[e] # <<>> => <<Head(wire[e])>> \in Seq(Carried)
      BY <3>1
    <3>. QED  BY <1>2, <3>2 DEF StartConnector
  <2>. QED  BY <1>1, <1>2, <2>2, <2>3 DEF StartConnector, StreamInv, PathsInv
<1>3. CASE StopConnector
  <2>1. ConnectorInv'
    <3>1. connector' = [connector EXCEPT !.up = FALSE, !.event = <<>>, !.reply = <<>>]
      BY <1>3 DEF StopConnector
    <3>. QED  BY <3>1, Emptied DEF StreamInv
  <2>2. wire' \in [Epochs -> Seq(Carried)]
    <3>1. PICK n \in 0..Len(wire[connector.epoch]) :
             wire' = [wire EXCEPT ![connector.epoch] = SubSeq(@, 1, n)]
      BY <1>3 DEF StopConnector
    <3>2. connector.epoch \in Epochs
      BY <1>3, BoundsAreNumbers DEF StopConnector, StreamInv, ConnectorInv, Epochs, Bounds
    <3>3. wire[connector.epoch] \in Seq(Carried)
      BY <3>2 DEF StreamInv, PathsInv
    <3>4. SubSeq(wire[connector.epoch], 1, n) \in Seq(Carried)
      BY <3>3, Stretch
    <3>. QED  BY <3>1, <3>2, <3>4 DEF StreamInv, PathsInv
  <2>3. requests' \in Seq(Request)
    <3>1. PICK n \in 1..Len(requests) + 1 : requests' = SubSeq(requests, n, Len(requests))
      BY <1>3 DEF StopConnector
    <3>2. requests \in Seq(Request) /\ Len(requests) \in 0..Len(requests)
      BY DEF StreamInv, PathsInv
    <3>. QED  BY <3>1, <3>2, Stretch
  <2>. QED  BY <1>1, <1>3, <2>1, <2>2, <2>3 DEF StopConnector, StreamInv, PathsInv
<1>4. CASE RecordEvent
  <2>1. PICK n : n = connector.next + 1
    OBVIOUS
  <2>2. n \in Numbers /\ n - 1 \in Numbers /\ n - 1 <= n /\ connector.epoch \in Epochs
    BY <1>4, <2>1, BoundsAreNumbers DEF RecordEvent, StreamInv, ConnectorInv, Numbers, Epochs, Bounds
  <2>3. PICK m : m = [kind |-> "event", epoch |-> connector.epoch, after |-> n - 1, seq |-> n]
    OBVIOUS
  <2>4. m \in Carried /\ <<m>> \in Seq(Carried)
    BY <2>2, <2>3 DEF Carried, Message
  <2>5. connector' = [connector EXCEPT !.next = n, !.event = <<m>>]
    BY <1>4, <2>1, <2>3 DEF RecordEvent
  <2>6. ConnectorInv'
    BY <2>2, <2>4, <2>5 DEF StreamInv, ConnectorInv
  <2>. QED  BY <1>1, <1>4, <2>6 DEF RecordEvent, StreamInv, PathsInv
<1>5. CASE SendEvent
  <2>1. Head(connector.event) \in Carried /\ connector' = [connector EXCEPT !.event = <<>>]
    BY <1>5 DEF SendEvent, StreamInv, ConnectorInv
  <2>2. ConnectorInv'
    BY <2>1, Emptied DEF StreamInv
  <2>3. wire' \in [Epochs -> Seq(Carried)]
    BY <1>5, <2>1, SendInv DEF SendEvent, StreamInv
  <2>. QED  BY <1>1, <1>5, <2>2, <2>3 DEF SendEvent, StreamInv, PathsInv
<1>6. CASE SendReply
  <2>1. Head(connector.reply) \in Carried /\ connector' = [connector EXCEPT !.reply = <<>>]
    BY <1>6 DEF SendReply, StreamInv, ConnectorInv
  <2>2. ConnectorInv'
    BY <2>1, Emptied DEF StreamInv
  <2>3. wire' \in [Epochs -> Seq(Carried)]
    BY <1>6, <2>1, SendInv DEF SendReply, StreamInv
  <2>. QED  BY <1>1, <1>6, <2>2, <2>3 DEF SendReply, StreamInv, PathsInv
<1>. QED  BY <1>2, <1>3, <1>4, <1>5, <1>6

LEMMA RequestStep ==
  ASSUME StreamInv, HandleStreamAck \/ Replay \/ GiveSnapshot \/ SnapshotFails
  PROVE  StreamInv'
<1>1. BrowserInv'
  BY BrowserStays DEF StreamInv, HandleStreamAck, Replay, GiveSnapshot, SnapshotFails, Snapshot
<1>2. \E kind : Serving(kind)
  BY DEF HandleStreamAck, Replay, GiveSnapshot, SnapshotFails, Snapshot
<1>3. /\ connector.up /\ Head(requests) \in Request /\ requests' \in Seq(Request) /\ down' = down
  BY <1>2 DEF Serving, StreamInv, PathsInv, HandleStreamAck, Replay, GiveSnapshot, SnapshotFails, Snapshot
<1>4. connector.epoch \in Epochs /\ connector.next \in Numbers
  BY <1>3, BoundsAreNumbers DEF StreamInv, ConnectorInv, Epochs, Bounds
<1>5. CASE HandleStreamAck
  <2>1. wire' = wire
    BY <1>5 DEF HandleStreamAck
  <2>2. \/ connector' = connector
        \/ \E n \in Numbers : connector' = [connector EXCEPT !.acked = n]
    BY <1>3, <1>4, <1>5 DEF HandleStreamAck, Request
  <2>3. ConnectorInv'
    BY <2>2 DEF StreamInv, ConnectorInv
  <2>. QED  BY <1>1, <1>3, <2>1, <2>3 DEF StreamInv, PathsInv
<1>6. CASE Replay
  <2>1. PICK m : m = [kind |-> "replay", epoch |-> connector.epoch, after |-> Head(requests).seq,
                      seq |-> connector.next]
    OBVIOUS
  <2>2. m \in Carried /\ <<m>> \in Seq(Carried)
    BY <1>3, <1>4, <1>6, <2>1 DEF Replay, ReplayAvailable, Carried, Message, Request
  <2>3. connector' = [connector EXCEPT !.reply = <<m>>] /\ wire' = wire
    BY <1>6, <2>1 DEF Replay
  <2>4. ConnectorInv'
    BY <2>2, <2>3 DEF StreamInv, ConnectorInv
  <2>. QED  BY <1>1, <1>3, <2>3, <2>4 DEF StreamInv, PathsInv
<1>7. CASE GiveSnapshot \/ SnapshotFails
  <2>1. PICK kind \in {"snapshot", "snapshot_required"} : Snapshot(kind)
    BY <1>7 DEF GiveSnapshot, SnapshotFails
  <2>2. PICK m : m = [kind |-> kind, epoch |-> connector.epoch, after |-> connector.next,
                      seq |-> connector.next]
    OBVIOUS
  <2>3. m \in Carried
    BY <1>4, <2>2, BoundsAreNumbers DEF Carried, Message, Numbers, Bounds
  <2>4. wire' \in [Epochs -> Seq(Carried)] /\ connector' = connector
    BY <2>1, <2>2, <2>3, SendInv DEF Snapshot, StreamInv
  <2>. QED  BY <1>1, <1>3, <2>4 DEF StreamInv, PathsInv, ConnectorInv
<1>. QED  BY <1>5, <1>6, <1>7

LEMMA RelayStep ==
  ASSUME StreamInv,
         Refuse \/ (\E e \in Epochs : Broadcast(e))
           \/ OtherBrowser(0, 0) \/ \E n \in 0..connector.next : OtherBrowser(connector.epoch, n)
  PROVE  StreamInv'
<1>1. BrowserInv' /\ connector' = connector
  BY BrowserStays DEF StreamInv, Refuse, Broadcast, OtherBrowser
<1>2. CASE Refuse
  <2>1. requests' \in Seq(Request) /\ wire' = wire /\ down' = down
    BY <1>2 DEF Refuse, StreamInv, PathsInv
  <2>. QED  BY <1>1, <2>1 DEF StreamInv, PathsInv, ConnectorInv
<1>3. CASE \E e \in Epochs : Broadcast(e)
  <2>1. PICK e \in Epochs : Broadcast(e)
    BY <1>3
  <2>2. wire[e] \in Seq(Carried) /\ wire[e] # <<>> /\ down \in Seq(Carried)
    BY <2>1 DEF Broadcast, StreamInv, PathsInv
  <2>3. Head(wire[e]) \in Carried /\ Tail(wire[e]) \in Seq(Carried)
    BY <2>2
  <2>4. Append(down, Head(wire[e])) \in Seq(Carried)
    BY <2>2, <2>3
  <2>5. down' \in Seq(Carried) /\ wire' \in [Epochs -> Seq(Carried)] /\ requests' = requests
    BY <2>1, <2>2, <2>3, <2>4 DEF Broadcast, StreamInv, PathsInv
  <2>. QED  BY <1>1, <2>5 DEF StreamInv, PathsInv, ConnectorInv
<1>4. CASE OtherBrowser(0, 0) \/ \E n \in 0..connector.next : OtherBrowser(connector.epoch, n)
  <2>1. PICK e \in 0..MaxEpochs, n \in Numbers : OtherBrowser(e, n)
    <3>1. 0 \in 0..MaxEpochs /\ 0 \in Numbers /\ connector.epoch \in 0..MaxEpochs
          /\ \A n \in 0..connector.next : n \in Numbers
      BY BoundsAreNumbers DEF StreamInv, ConnectorInv, Bounds, Numbers
    <3>. QED  BY <1>4, <3>1
  <2>2. [kind |-> "resume", epoch |-> e, seq |-> n] \in Request
    BY DEF Request
  <2>3. requests' \in Seq(Request) /\ wire' = wire /\ down' = down
    BY <2>1, <2>2 DEF OtherBrowser, StreamInv, PathsInv
  <2>. QED  BY <1>1, <2>3 DEF StreamInv, PathsInv, ConnectorInv
<1>. QED  BY <1>2, <1>3, <1>4

LEMMA BrowserStep ==
  ASSUME StreamInv, Receive \/ Open \/ Disconnect
  PROVE  StreamInv'
<1>1. wire' = wire /\ connector' = connector /\ Sound(Current) /\ Acked(Current)
  BY DEF StreamInv, BrowserInv, Receive, Open, Disconnect
<1>2. CASE Receive
  <2>1. Head(down) \in Carried /\ down' \in Seq(Carried)
    BY <1>2 DEF Receive, StreamInv, PathsInv
  <2>2. PICK b : b = HandleMessage(Current, Head(down)) /\ Become(b)
    BY <1>2 DEF Receive
  <2>3. Sound(b) /\ Acked(b)
    BY <1>1, <2>1, <2>2, MessageSound DEF Carried
  <2>4. BrowserInv' /\ requests' \in Seq(Request)
    BY <2>2, <2>3, BecomeInv DEF StreamInv
  <2>. QED  BY <1>1, <2>1, <2>4 DEF StreamInv, PathsInv, ConnectorInv
<1>3. CASE Open
  <2>1. PICK c : c = [Current EXCEPT !.open = TRUE]
    OBVIOUS
  <2>2. Sound(c) /\ Acked(c)
    BY <1>1, <2>1 DEF Sound, Acked, Connection
  <2>3. Become(SendStreamResume(c)) /\ down' = down
    BY <1>3, <2>1 DEF Open
  <2>4. BrowserInv' /\ requests' \in Seq(Request)
    BY <2>2, <2>3, ResumeSound, BecomeInv DEF StreamInv, Acked
  <2>. QED  BY <1>1, <2>3, <2>4 DEF StreamInv, PathsInv, ConnectorInv
<1>4. CASE Disconnect
  <2>1. down' = <<>> /\ down' \in Seq(Carried) /\ browser' = [browser EXCEPT !.open = FALSE] /\ view' = view
    BY <1>4 DEF Disconnect
  <2>2. requests' \in Seq(Request)
    <3>1. PICK n \in 0..Len(requests) : requests' = SubSeq(requests, 1, n)
      BY <1>4 DEF Disconnect
    <3>2. requests \in Seq(Request) /\ 1 \in 1..Len(requests)+1
      BY DEF StreamInv, PathsInv
    <3>. QED  BY <3>1, <3>2, Stretch
  <2>3. PICK c : c = [Current EXCEPT !.open = FALSE]
    OBVIOUS
  <2>4. Sound(c) /\ Acked(c)
    BY <1>1, <2>3 DEF Sound, Acked, Connection
  <2>5. Current' = c /\ browser' \in [open : BOOLEAN, epoch : 0..MaxEpochs, applied : Numbers, acked : Numbers,
                                      buffer : SUBSET Buffered, inFlight : BOOLEAN]
    BY <2>1, <2>3 DEF Current, StreamInv, BrowserInv
  <2>6. BrowserInv'
    <3>1. Sound(Current)' /\ Acked(Current)'
      BY <2>4, <2>5 DEF Sound, Acked
    <3>. QED  BY <2>5, <3>1 DEF BrowserInv
  <2>. QED  BY <1>1, <2>1, <2>2, <2>6 DEF StreamInv, PathsInv, ConnectorInv
<1>. QED  BY <1>2, <1>3, <1>4

LEMMA InitStream == Init => StreamInv
<1> SUFFICES ASSUME Init PROVE StreamInv
  OBVIOUS
<1>1. 0 \in Numbers /\ 0 \in 0..MaxEpochs
  BY BoundsAreNumbers DEF Bounds, Numbers
<1>2. ConnectorInv /\ PathsInv
  BY <1>1 DEF Init, ConnectorInv, PathsInv
<1>3. Current = [open |-> FALSE, epoch |-> 0, applied |-> 0, acked |-> 0, buffer |-> {},
                 inFlight |-> FALSE, out |-> <<>>,
                 view |-> [epoch |-> 0, seq |-> 0, whole |-> FALSE, synced |-> FALSE, skipped |-> FALSE]]
  BY DEF Init, Current
<1>4. Sound(Current) /\ Acked(Current)
  BY <1>1, <1>3 DEF Sound, Acked, Connection, View
<1>5. BrowserInv
  BY <1>1, <1>4 DEF Init, BrowserInv
<1>. QED  BY <1>2, <1>5 DEF StreamInv

LEMMA NextStream ==
  ASSUME StreamInv, [Next]_vars
  PROVE  StreamInv'
<1>1. CASE UNCHANGED vars
  BY <1>1, BrowserStays DEF vars, StreamInv, ConnectorInv, PathsInv
<1>. QED  BY <1>1, ConnectorStep, RequestStep, RelayStep, BrowserStep
          DEF Next, RelayThread, Relay, Browser, Disturbance

\* Whatever connections are lost, whatever the Connector forgets or restarts, and
\* whatever replies to other browsers come in between, the listeners of a browser
\* never miss an event between two they are shown, unless a snapshot stands for it.
THEOREM Shown == Spec => []NothingSkipped
<1>1. StreamInv => NothingSkipped
  BY DEF StreamInv, BrowserInv, Sound, Current, NothingSkipped
<1>2. StreamInv /\ [Next]_vars => StreamInv'
  BY NextStream
<1>. QED  BY <1>1, <1>2, InitStream, PTL DEF Spec

\* After each message the browser has acknowledged everything it has applied, of the
\* epoch it is in, however epochs, replays and snapshots follow each other.
THEOREM Acknowledged == Spec => []AppliedIsAcknowledged
<1>1. StreamInv => AppliedIsAcknowledged
  BY DEF StreamInv, BrowserInv, Acked, Current, AppliedIsAcknowledged
<1>2. StreamInv /\ [Next]_vars => StreamInv'
  BY NextStream
<1>. QED  BY <1>1, <1>2, InitStream, PTL DEF Spec

-----------------------------------------------------------------------------
(***************************************************************************)
(* RemoteCommands implements CommandService, for any clients, any number   *)
(* of requests, lost connections and restarts, and any size of the cache.  *)
(*                                                                         *)
(* The cache of the Connector holds the requests that were served last, in *)
(* the order of their last service, each with the outcome of that service: *)
(* so what it holds is what CommandService remembers.                      *)
(***************************************************************************)

Entries == [request : Requests, ok : BOOLEAN]

Outcomes == [ok : BOOLEAN, told : {"nothing", "refused", "outcome"}]

Messages == [request : Requests, outcome : Outcomes]

Logged == [command : Requests, ok : BOOLEAN, runs : BOOLEAN]

Types ==
  /\ pending \in [Clients -> Seq(Requests)] /\ up \in [Clients -> Seq(Requests)]
  /\ responses \in [Clients -> Seq(Messages)]
  /\ line \in Seq(Requests) /\ cache \in Seq(Entries)
  /\ running = Idle \/ \E e \in Entries : running = <<e>>
  /\ log \in Seq(Logged) /\ since \in Nat /\ since <= Len(log)
  /\ answer \in [Requests -> Outcomes]
  /\ count \in [requests : [Clients -> Nat], drops : Int, restarts : Int]

\* A request of c that has been sent and has no answer.
Waiting(c, r) ==
  /\ r \in Requests /\ r[1] = c /\ r[2] <= count.requests[c]
  /\ answer[r] = Service!None

PendingInv ==
  /\ \A c \in Clients : \A i \in DOMAIN pending[c] :
       /\ Waiting(c, pending[c][i])
       /\ \A j \in DOMAIN pending[c] : pending[c][j] = pending[c][i] => j = i
  /\ \A r \in Requests : answer[r] # Service!None => r[2] <= count.requests[r[1]]

\* A response tells what a service of the request came to, if anything.
Known(m) ==
  \/ m.outcome = Service!Refused
  \/ \E i \in DOMAIN log : log[i].command = m.request /\ m.outcome = Service!Outcome(log[i].ok)

ResponsesInv == \A c \in Clients : \A i \in DOMAIN responses[c] : Known(responses[c][i])

Latest(r, l) == Service!LastService(r, l)

\* The cache is in the order of last services, and holds what these came to.
OrderInv ==
  /\ \A i \in DOMAIN cache : \E l \in DOMAIN log : Latest(cache[i].request, l) /\ log[l].ok = cache[i].ok
  /\ \A i, j \in DOMAIN cache : i < j =>
       \A l, m \in DOMAIN log : Latest(cache[i].request, l) /\ Latest(cache[j].request, m) => l < m

\* What is being executed was served last of all.
RunningInv ==
  running # Idle => /\ Cached(running[1].request) = {}
                    /\ Latest(running[1].request, Len(log)) /\ log[Len(log)].ok = running[1].ok

\* What is not in the cache was served before everything there, which leaves no room.
Older(r) ==
  \A s \in Service!Services(r) :
    Len(cache) = Window /\ \A i \in DOMAIN cache : \A l \in DOMAIN log : Latest(cache[i].request, l) => s < l

RoomInv ==
  /\ Len(cache) <= Window
  /\ \A r \in Requests : Cached(r) = {} /\ (running = Idle \/ running[1].request # r) => Older(r)

CommandsInv == Types /\ PendingInv /\ ResponsesInv /\ OrderInv /\ RunningInv /\ RoomInv
-----------------------------------------------------------------------------
LEMMA SeqFacts ==
  ASSUME NEW S, NEW seq \in Seq(S)
  PROVE  Len(seq) \in Nat /\ DOMAIN seq = 1..Len(seq) /\ \A i \in DOMAIN seq : seq[i] \in S
  OBVIOUS

LEMMA OneMore ==
  ASSUME NEW S, NEW seq \in Seq(S), NEW e \in S
  PROVE  LET new == Append(seq, e)
         IN  /\ new \in Seq(S) /\ Len(new) = Len(seq) + 1 /\ DOMAIN new = 1..(Len(seq) + 1)
             /\ new[Len(seq) + 1] = e /\ \A j \in DOMAIN seq : new[j] = seq[j]
  OBVIOUS

LEMMA OneLess ==
  ASSUME NEW S, NEW seq \in Seq(S), seq # <<>>
  PROVE  /\ Head(seq) \in S /\ Head(seq) = seq[1] /\ 1 \in DOMAIN seq /\ Tail(seq) \in Seq(S)
         /\ \A j \in DOMAIN Tail(seq) : j + 1 \in DOMAIN seq /\ Tail(seq)[j] = seq[j + 1]
  OBVIOUS

\* The elements that are left keep their order.
LEMMA OneOut ==
  ASSUME NEW S, NEW seq \in Seq(S), NEW i \in DOMAIN seq
  PROVE  LET new == RemoveAt(seq, i)
         IN  /\ new \in Seq(S) /\ Len(new) = Len(seq) - 1 /\ DOMAIN new = 1..(Len(seq) - 1)
             /\ \A j \in DOMAIN new : \/ j < i /\ j \in DOMAIN seq /\ new[j] = seq[j]
                                      \/ j >= i /\ j + 1 \in DOMAIN seq /\ new[j] = seq[j + 1]
             /\ \A k \in DOMAIN seq : k # i => \E j \in DOMAIN new : new[j] = seq[k]
  <1> DEFINE front == SubSeq(seq, 1, i - 1)
             back == SubSeq(seq, i + 1, Len(seq))
             new == front \o back
  <1>1. Len(seq) \in Nat /\ i \in 1..Len(seq) /\ \A j \in 1..Len(seq) : seq[j] \in S
    BY SeqFacts
  <1>2. front \in Seq(S) /\ Len(front) = i - 1 /\ \A j \in 1..(i - 1) : front[j] = seq[j]
    BY <1>1
  <1>3. back \in Seq(S) /\ Len(back) = Len(seq) - i /\ \A j \in 1..(Len(seq) - i) : back[j] = seq[j + i]
    BY <1>1
  <1> HIDE DEF front, back
  <1>4. /\ new \in Seq(S) /\ Len(new) = Len(seq) - 1 /\ DOMAIN new = 1..(Len(seq) - 1)
        /\ \A j \in 1..(i - 1) : new[j] = seq[j]
        /\ \A j \in i..(Len(seq) - 1) : new[j] = seq[j + 1]
    <2>1. new \in Seq(S) /\ Len(new) = Len(seq) - 1 /\ DOMAIN new = 1..(Len(seq) - 1)
      BY <1>1, <1>2, <1>3
    <2>2. \A j \in 1..(i - 1) : new[j] = front[j]
      BY <1>1, <1>2, <1>3
    <2>3. \A j \in i..(Len(seq) - 1) : new[j] = back[j - (i - 1)] /\ j - (i - 1) \in 1..(Len(seq) - i)
      BY <1>1, <1>2, <1>3
    <2>4. ASSUME NEW j \in i..(Len(seq) - 1) PROVE new[j] = seq[j + 1]
      <3>1. (j - (i - 1)) + i = j + 1
        BY <1>1
      <3> QED
        BY <1>3, <2>3, <3>1
    <2> QED
      BY <1>2, <2>1, <2>2, <2>4
  <1> HIDE DEF new
  <1>5. \A k \in DOMAIN seq : k # i => \E j \in DOMAIN new : new[j] = seq[k]
    <2> SUFFICES ASSUME NEW k \in 1..Len(seq), k # i PROVE \E j \in DOMAIN new : new[j] = seq[k]
      BY <1>1
    <2>1. CASE k < i
      BY <1>1, <1>4, <2>1
    <2>2. CASE k > i
      <3>1. k - 1 \in i..(Len(seq) - 1) /\ k - 1 \in DOMAIN new /\ (k - 1) + 1 = k
        BY <1>1, <1>4, <2>2
      <3> QED
        BY <1>4, <3>1
    <2> QED
      BY <1>1, <2>1, <2>2
  <1>6. ASSUME NEW j \in DOMAIN new
        PROVE  \/ j < i /\ j \in DOMAIN seq /\ new[j] = seq[j]
               \/ j >= i /\ j + 1 \in DOMAIN seq /\ new[j] = seq[j + 1]
    <2>1. j \in 1..(Len(seq) - 1) /\ j \in Int /\ i \in Int
      BY <1>1, <1>4
    <2>2. CASE j < i
      <3>1. j \in 1..(i - 1) /\ j \in DOMAIN seq
        BY <1>1, <2>1, <2>2
      <3> QED
        BY <1>4, <2>2, <3>1
    <2>3. CASE ~(j < i)
      <3>1. j \in i..(Len(seq) - 1) /\ j + 1 \in DOMAIN seq /\ j >= i
        BY <1>1, <2>1, <2>3
      <3> QED
        BY <1>4, <3>1
    <2> QED
      BY <2>2, <2>3
  <1>7. RemoveAt(seq, i) = new
    BY DEF RemoveAt, new, front, back
  <1> QED
    BY <1>4, <1>5, <1>6, <1>7
-----------------------------------------------------------------------------
(* The log.                                                                *)

LEMMA LastFacts ==
  ASSUME Types
  PROVE  /\ \A r, l : Latest(r, l) => l \in DOMAIN log /\ l \in Nat /\ l > since /\ l <= Len(log) /\ log[l].command = r
         /\ \A r, l, m : Latest(r, l) /\ Latest(r, m) => l = m
         /\ \A r, l : \A s \in Service!Services(r) : Latest(r, l) => s <= l
         /\ \A r : \A s \in Service!Services(r) : s \in Nat /\ s <= Len(log)
  <1>1. Len(log) \in Nat /\ DOMAIN log = 1..Len(log) /\ since \in Nat
    BY SeqFacts DEF Types
  <1> QED
    BY <1>1 DEF Latest, Service!LastService, Service!Services

\* One more service, of which the command is s.command.
LEMMA LogGrows ==
  ASSUME Types, NEW s \in Logged, log' = Append(log, s), since' = since
  PROVE  /\ log' \in Seq(Logged) /\ Len(log') = Len(log) + 1 /\ log'[Len(log) + 1] = s
         /\ \A i \in DOMAIN log : i \in DOMAIN log' /\ log'[i] = log[i]
         /\ Latest(s.command, Len(log))'
         /\ \A l : Latest(s.command, l)' => l = Len(log) + 1
         /\ \A q : q # s.command => /\ \A l : Latest(q, l)' <=> Latest(q, l)
                                    /\ Service!Services(q)' = Service!Services(q)
  <1>1. /\ log \in Seq(Logged) /\ Len(log) \in Nat /\ DOMAIN log = 1..Len(log) /\ since \in Nat /\ since <= Len(log)
    BY SeqFacts DEF Types
  <1>2. /\ log' \in Seq(Logged) /\ Len(log') = Len(log) + 1 /\ DOMAIN log' = 1..(Len(log) + 1)
        /\ log'[Len(log) + 1] = s /\ \A i \in DOMAIN log : log'[i] = log[i]
    BY <1>1, OneMore
  <1>3. \A q : q # s.command => Service!Services(q)' = Service!Services(q)
    BY <1>1, <1>2 DEF Service!Services
  <1>4. \A q : q # s.command => \A l : Latest(q, l)' <=> Latest(q, l)
    BY <1>3 DEF Latest, Service!LastService
  <1>5. Latest(s.command, Len(log))' /\ \A l : Latest(s.command, l)' => l = Len(log')
    <2>1. /\ Len(log') \in Service!Services(s.command)'
          /\ \A j \in Service!Services(s.command)' : j \in Int /\ j <= Len(log')
      BY <1>1, <1>2 DEF Service!Services
    <2>2. Latest(s.command, Len(log))'
      BY <2>1 DEF Latest, Service!LastService
    <2>3. ASSUME NEW l, Latest(s.command, l)' PROVE l = Len(log')
      <3>1. l \in Service!Services(s.command)' /\ Len(log') <= l
        BY <2>1, <2>3 DEF Latest, Service!LastService
      <3> QED
        BY <1>1, <1>2, <2>1, <3>1
    <2> QED
      BY <2>2, <2>3
  <1> QED
    BY <1>1, <1>2, <1>3, <1>4, <1>5
-----------------------------------------------------------------------------
(* What is in the cache is what CommandService remembers.                  *)

LEMMA CacheFacts ==
  ASSUME Types, OrderInv
  PROVE  /\ Len(cache) \in Nat /\ DOMAIN cache = 1..Len(cache)
         /\ \A i \in DOMAIN cache : cache[i] \in Entries /\ cache[i].request \in Requests /\ cache[i].ok \in BOOLEAN
         /\ \A i, j \in DOMAIN cache : cache[i].request = cache[j].request => i = j
  <1>1. /\ Len(cache) \in Nat /\ DOMAIN cache = 1..Len(cache)
        /\ \A i \in DOMAIN cache : cache[i] \in Entries /\ cache[i].request \in Requests /\ cache[i].ok \in BOOLEAN
    <2>1. Len(cache) \in Nat /\ DOMAIN cache = 1..Len(cache) /\ \A i \in DOMAIN cache : cache[i] \in Entries
      BY SeqFacts DEF Types
    <2> QED
      BY <2>1 DEF Entries
  <1>2. ASSUME NEW i \in DOMAIN cache, NEW j \in DOMAIN cache, i < j, cache[i].request = cache[j].request PROVE FALSE
    <2>1. PICK l \in DOMAIN log : Latest(cache[i].request, l)
      BY DEF OrderInv
    <2>2. l < l /\ l \in Nat
      BY <1>2, <2>1, LastFacts DEF OrderInv
    <2> QED
      BY <2>2
  <1>3. ASSUME NEW i \in DOMAIN cache, NEW j \in DOMAIN cache, cache[i].request = cache[j].request PROVE i = j
    <2>1. ~(i < j) /\ ~(j < i)
      BY <1>2, <1>3
    <2> QED
      BY <1>1, <2>1
  <1> QED
    BY <1>1, <1>3

LEMMA LogFacts ==
  ASSUME Types
  PROVE  /\ Len(log) \in Nat /\ DOMAIN log = 1..Len(log) /\ since \in Nat /\ since <= Len(log)
         /\ \A j \in DOMAIN log : log[j].command \in Requests /\ log[j].ok \in BOOLEAN
  <1>1. Len(log) \in Nat /\ DOMAIN log = 1..Len(log) /\ \A j \in DOMAIN log : log[j] \in Logged
    BY SeqFacts DEF Types
  <1> QED
    BY <1>1 DEF Types, Logged

\* CommandService and RemoteCommands count alike.
LEMMA SameCount ==
  ASSUME NEW S
  PROVE  Service!Cardinality(S) = Cardinality(S)
  BY DEF Service!Cardinality, Cardinality

LEMMA OthersFinite ==
  ASSUME Types, NEW l \in DOMAIN log
  PROVE  IsFiniteSet(Service!Others(l))
  <1> DEFINE later == l+1..Len(log)
             commands == {log[j].command : j \in later}
             f == [j \in later |-> log[j].command]
  <1>1. l \in Int /\ Len(log) \in Int
    BY SeqFacts DEF Types
  <1>2. IsFiniteSet(later)
    BY <1>1, FS_Interval
  <1>3. f \in Surjection(later, commands)
    BY DEF Surjection
  <1>4. IsFiniteSet(commands)
    <2> HIDE DEF f, commands, later
    <2> QED
      BY <1>2, <1>3, FS_Surjection
  <1>5. Service!Others(l) \in SUBSET commands
    BY DEF Service!Others
  <1> HIDE DEF commands
  <1> QED
    BY <1>4, <1>5, FS_Subset

\* What is not in the cache has been forgotten.
LEMMA Forgotten ==
  ASSUME Window \in Nat, Types, OrderInv, NEW r \in Requests, Older(r), Cached(r) = {}
  PROVE  ~Service!Remembered(r)
  <1> SUFFICES ASSUME NEW l \in Service!Services(r), Latest(r, l), Cardinality(Service!Others(l)) < Window PROVE FALSE
    BY SameCount DEF Service!Remembered, Latest
  <1> DEFINE others == Service!Others(l)
             f == [p \in 1..Window |-> cache[p].request]
  <1>1. l \in DOMAIN log /\ l \in Nat /\ log[l].command = r
    BY LastFacts
  <1>2. DOMAIN cache = 1..Window
    BY CacheFacts DEF Older
  <1>3. ASSUME NEW p \in 1..Window PROVE cache[p].request \in others
    <2>1. PICK m \in DOMAIN log : Latest(cache[p].request, m)
      BY <1>2 DEF OrderInv
    <2>2. l < m /\ m \in Nat /\ m <= Len(log) /\ log[m].command = cache[p].request
      BY <1>2, <2>1, LastFacts DEF Older
    <2>3. cache[p].request # r
      BY <1>2 DEF Cached
    <2>4. m \in l+1..Len(log)
      BY <1>1, <2>2, SeqFacts DEF Types
    <2> QED
      BY <1>1, <2>2, <2>3, <2>4 DEF Service!Others
  <1>4. f \in Injection(1..Window, others)
    <2>1. f \in [1..Window -> others]
      BY <1>3
    <2>2. \A p, q \in 1..Window : f[p] = f[q] => p = q
      BY <1>2, CacheFacts
    <2> QED
      BY <2>1, <2>2 DEF Injection, IsInjective
  <1>5. IsFiniteSet(others)
    BY <1>1, OthersFinite
  <1>6. Cardinality(1..Window) = Window
    BY FS_Interval
  <1> HIDE DEF f, others
  <1>7. Cardinality(1..Window) <= Cardinality(others) /\ Cardinality(others) \in Nat
    BY <1>4, <1>5, FS_Injection, FS_CardinalityType
  <1> QED
    BY <1>6, <1>7 DEF others

\* What is in the cache has not, and the cache has what it came to.
LEMMA StillThere ==
  ASSUME Window \in Nat, CommandsInv, running = Idle, NEW i \in DOMAIN cache
  PROVE  /\ Service!Remembered(cache[i].request)
         /\ \E l \in DOMAIN log : Latest(cache[i].request, l) /\ log[l].ok = cache[i].ok
  <1> DEFINE r == cache[i].request
             kept == i+1..Len(cache)
             commands == {cache[p].request : p \in kept}
             f == [p \in kept |-> cache[p].request]
  <1>1. PICK l \in DOMAIN log : Latest(r, l) /\ log[l].ok = cache[i].ok
    BY DEF CommandsInv, OrderInv
  <1>2. /\ l \in Nat /\ l > since /\ log[l].command = r /\ since \in Nat
        /\ Len(log) \in Nat /\ DOMAIN log = 1..Len(log) /\ \A j \in DOMAIN log : log[j].command \in Requests
    BY <1>1, LastFacts, LogFacts DEF CommandsInv
  <1>3. i \in Nat /\ Len(cache) \in Nat /\ Len(cache) <= Window /\ i <= Len(cache) /\ i >= 1 /\ DOMAIN cache = 1..Len(cache)
    BY CacheFacts DEF CommandsInv, RoomInv
  <1>4. ASSUME NEW c \in Service!Others(l) PROVE c \in commands
    <2>1. PICK j \in l+1..Len(log) : c = log[j].command
      BY DEF Service!Others
    <2>2. j \in DOMAIN log /\ j > l /\ j \in Nat /\ j \in Service!Services(c) /\ c \in Requests /\ c # r
      BY <1>2, <2>1 DEF Service!Others, Service!Services
    <2>3. Cached(c) # {}
      <3>1. SUFFICES ASSUME Cached(c) = {} PROVE FALSE
        OBVIOUS
      <3>2. Older(c)
        BY <2>2, <3>1 DEF CommandsInv, RoomInv
      <3>3. j < l
        BY <1>1, <2>2, <3>2 DEF Older
      <3> QED
        BY <1>2, <2>2, <3>3
    <2>4. PICK p \in DOMAIN cache : cache[p].request = c
      BY <2>3 DEF Cached
    <2>5. PICK m \in DOMAIN log : Latest(c, m)
      BY <2>4 DEF CommandsInv, OrderInv
    <2>6. j <= m /\ m \in Nat
      BY <2>2, <2>5, LastFacts DEF CommandsInv
    <2>7. ~(p < i)
      <3>1. SUFFICES ASSUME p < i PROVE FALSE
        OBVIOUS
      <3>2. m < l
        BY <1>1, <2>4, <2>5, <3>1 DEF CommandsInv, OrderInv
      <3> QED
        BY <1>2, <2>2, <2>6, <3>2
    <2>8. p # i
      BY <2>2, <2>4
    <2>9. p \in kept
      BY <1>3, <2>7, <2>8
    <2> QED
      BY <2>4, <2>9
  <1>5. IsFiniteSet(kept) /\ Cardinality(kept) < Window
    <2>0. i + 1 \in Int /\ Len(cache) \in Int
      BY <1>3
    <2>1. PICK a \in Int, b \in Int : a = i + 1 /\ b = Len(cache)
      BY <2>0, Zenon
    <2>2. IsFiniteSet(a..b) /\ Cardinality(a..b) = IF a > b THEN 0 ELSE b - a + 1
      BY FS_Interval
    <2>3. kept = a..b
      BY <2>1
    <2> HIDE DEF kept
    <2> QED
      BY <1>3, <2>1, <2>2, <2>3
  <1>6. f \in Surjection(kept, commands)
    BY DEF Surjection
  <1>7. Service!Others(l) \in SUBSET commands
    BY <1>4
  <1> HIDE DEF kept, commands, f
  <1>8. IsFiniteSet(commands) /\ Cardinality(commands) <= Cardinality(kept)
    BY <1>5, <1>6, FS_Surjection
  <1>9. Cardinality(Service!Others(l)) <= Cardinality(commands) /\ IsFiniteSet(Service!Others(l))
    BY <1>7, <1>8, FS_Subset
  <1>10. Cardinality(Service!Others(l)) < Window
    <2>1. /\ Cardinality(kept) \in Nat /\ Cardinality(commands) \in Nat /\ Cardinality(Service!Others(l)) \in Nat
      BY <1>5, <1>8, <1>9, FS_CardinalityType
    <2> QED
      BY <1>5, <1>8, <1>9, <2>1
  <1>11. Service!Remembered(r)
    <2>1. l \in Service!Services(r) /\ Service!LastService(r, l)
      BY <1>1 DEF Latest, Service!LastService
    <2> QED
      BY <1>10, <2>1, SameCount DEF Service!Remembered
  <1> QED
    BY <1>1, <1>11
-----------------------------------------------------------------------------
(* The steps of the clients and of the relay.                              *)

LEMMA Unserved ==
  ASSUME OrderInv, RunningInv, RoomInv, UNCHANGED <<cache, running, log, since>>
  PROVE  OrderInv' /\ RunningInv' /\ RoomInv'
  <1>1. OrderInv'
    BY DEF OrderInv, Latest, Service!LastService, Service!Services
  <1>2. RunningInv'
    BY DEF RunningInv, Latest, Service!LastService, Service!Services, Cached
  <1>3. RoomInv'
    BY DEF RoomInv, Older, Latest, Service!LastService, Service!Services, Cached
  <1> QED
    BY <1>1, <1>2, <1>3

LEMMA KnownStays ==
  ASSUME NEW m, Known(m), \A i \in DOMAIN log : i \in DOMAIN log' /\ log'[i] = log[i]
  PROVE  Known(m)'
  BY DEF Known

\* A response is put into queues of clients.
LEMMA Told ==
  ASSUME Types, ResponsesInv, \A i \in DOMAIN log : i \in DOMAIN log' /\ log'[i] = log[i],
         NEW m \in Messages, Known(m)', NEW S \in SUBSET Clients,
         responses' = [c \in Clients |-> IF c \in S THEN Append(responses[c], m) ELSE responses[c]]
  PROVE  responses' \in [Clients -> Seq(Messages)] /\ ResponsesInv'
  <1> SUFFICES ASSUME NEW c \in Clients
               PROVE  responses'[c] \in Seq(Messages) /\ \A i \in DOMAIN responses'[c] : \A told : told = responses'[c][i] => Known(told)'
    <2>1. DOMAIN responses' = Clients
      OBVIOUS
    <2> QED
      BY <2>1 DEF ResponsesInv
  <1>1. /\ responses[c] \in Seq(Messages) /\ Len(responses[c]) \in Nat /\ DOMAIN responses[c] = 1..Len(responses[c])
        /\ \A i \in DOMAIN responses[c] : \A told : told = responses[c][i] => Known(told)'
    <2>1. responses[c] \in Seq(Messages)
      BY DEF Types
    <2> QED
      BY <2>1, SeqFacts, KnownStays DEF ResponsesInv
  <1>2. CASE c \in S
    <2>1. /\ responses'[c] = Append(responses[c], m) /\ responses'[c] \in Seq(Messages)
          /\ DOMAIN responses'[c] = 1..(Len(responses[c]) + 1) /\ responses'[c][Len(responses[c]) + 1] = m
          /\ \A i \in DOMAIN responses[c] : responses'[c][i] = responses[c][i]
      BY <1>1, <1>2, OneMore
    <2> QED
      BY <1>1, <2>1
  <1>3. CASE c \notin S
    BY <1>1, <1>3
  <1> QED
    BY <1>2, <1>3

LEMMA SendKeeps ==
  ASSUME MaxRequests \in Nat, CommandsInv, NEW c \in Clients, SendRequest(c)
  PROVE  CommandsInv' /\ UNCHANGED <<log, since, answer>>
  <1>0. PICK n, r : n = count.requests[c] + 1 /\ r = <<c, n>>
    OBVIOUS
  <1>1. /\ UNCHANGED <<cache, running, log, since, answer, responses, line>> /\ count' = [count EXCEPT !.requests[c] = @ + 1]
    BY DEF SendRequest, connectorVars
  <1>2. count \in [requests : [Clients -> Nat], drops : Int, restarts : Int] /\ count.requests[c] < MaxRequests
    BY DEF SendRequest, CommandsInv, Types
  <1>3. /\ count' \in [requests : [Clients -> Nat], drops : Int, restarts : Int] /\ n \in 1..MaxRequests /\ n \in Nat
        /\ count'.requests[c] = n /\ count.requests[c] < n /\ \A d \in Clients : d # c => count'.requests[d] = count.requests[d]
        /\ \A d \in Clients : count.requests[d] \in Nat /\ count.requests[d] <= count'.requests[d]
    BY <1>0, <1>1, <1>2
  <1>4. r \in Requests /\ r[1] = c /\ r[2] = n
    BY <1>0, <1>3 DEF Requests
  <1>5. pending' = [pending EXCEPT ![c] = Append(@, r)] /\ up' = [up EXCEPT ![c] = Append(@, r)]
    BY <1>0, <1>3 DEF SendRequest
  <1>6. Types'
    <2>1. pending \in [Clients -> Seq(Requests)] /\ up \in [Clients -> Seq(Requests)]
      BY DEF CommandsInv, Types
    <2>2. Append(pending[c], r) \in Seq(Requests) /\ Append(up[c], r) \in Seq(Requests)
      BY <1>4, <2>1
    <2>3. pending' \in [Clients -> Seq(Requests)] /\ up' \in [Clients -> Seq(Requests)]
      BY <1>5, <2>1, <2>2
    <2> QED
      BY <1>1, <1>3, <2>3 DEF CommandsInv, Types
  <1>7. answer[r] = Service!None
    BY <1>3, <1>4 DEF CommandsInv, PendingInv
  <1>8. \A d \in Clients : \A q : Waiting(d, q) => Waiting(d, q)'
    BY <1>1, <1>3 DEF Waiting, Requests
  <1>9. PendingInv'
    <2>1. ASSUME NEW d \in Clients, NEW i \in DOMAIN pending'[d]
          PROVE  /\ \A q : q = pending'[d][i] => Waiting(d, q)'
                 /\ \A j \in DOMAIN pending'[d] : pending'[d][j] = pending'[d][i] => j = i
      <3>1. CASE d = c
        <4>1. pending[c] \in Seq(Requests)
          BY DEF CommandsInv, Types
        <4>2. /\ Len(pending[c]) \in Nat /\ DOMAIN pending[c] = 1..Len(pending[c])
              /\ DOMAIN pending'[c] = 1..(Len(pending[c]) + 1) /\ pending'[c][Len(pending[c]) + 1] = r
              /\ \A j \in DOMAIN pending[c] : pending'[c][j] = pending[c][j]
          <5>1. pending'[c] = Append(pending[c], r)
            BY <1>5 DEF CommandsInv, Types
          <5> QED
            BY <1>4, <4>1, <5>1, OneMore, SeqFacts
        <4>3. \A j \in DOMAIN pending[c] : pending[c][j] # r
          BY <1>3, <1>4 DEF CommandsInv, PendingInv, Waiting
        <4>4. Waiting(c, r)'
          BY <1>1, <1>3, <1>4, <1>7 DEF Waiting
        <4>5. \A j \in DOMAIN pending[c] :
                /\ \A q : q = pending[c][j] => Waiting(c, q)'
                /\ \A k \in DOMAIN pending[c] : pending[c][k] = pending[c][j] => k = j
          BY <1>8 DEF CommandsInv, PendingInv
        <4> QED
          BY <3>1, <4>2, <4>3, <4>4, <4>5
      <3>2. CASE d # c
        <4>1. pending'[d] = pending[d]
          BY <1>5, <3>2 DEF CommandsInv, Types
        <4> QED
          BY <1>8, <4>1 DEF CommandsInv, PendingInv
      <3> QED
        BY <3>1, <3>2
    <2>2. ASSUME NEW q \in Requests, answer'[q] # Service!None PROVE q[2] <= count'.requests[q[1]]
      <3>1. q[2] <= count.requests[q[1]] /\ q[1] \in Clients /\ q[2] \in Nat
        BY <1>1, <2>2 DEF CommandsInv, PendingInv, Requests
      <3> QED
        BY <1>3, <3>1
    <2> QED
      BY <2>1, <2>2 DEF PendingInv, Service!None
  <1>10. ResponsesInv'
    BY <1>1 DEF CommandsInv, ResponsesInv, Known
  <1> QED
    BY <1>1, <1>6, <1>9, <1>10, Unserved DEF CommandsInv

LEMMA NetKeeps ==
  ASSUME CommandsInv, NEW c \in Clients, Drop(c) \/ Reconnect(c) \/ Forward(c) \/ ForwardFails(c)
  PROVE  CommandsInv' /\ UNCHANGED <<log, since, answer>>
  <1>1. /\ UNCHANGED <<cache, running, log, since, answer, pending>> /\ count'.requests = count.requests
        /\ count' \in [requests : [Clients -> Nat], drops : Int, restarts : Int]
    BY SMTT(20) DEF Drop, Reconnect, Forward, ForwardFails, connectorVars, CommandsInv, Types
  <1>2. up[c] \in Seq(Requests) /\ up \in [Clients -> Seq(Requests)] /\ line \in Seq(Requests) /\ pending[c] \in Seq(Requests)
    BY DEF CommandsInv, Types
  <1>3. \A r \in Requests : Response(r, Service!Refused) \in Messages /\ Known(Response(r, Service!Refused))'
    BY DEF Messages, Outcomes, Response, Service!Refused, Known
  <1>4. up' \in [Clients -> Seq(Requests)] /\ line' \in Seq(Requests) /\ responses' \in [Clients -> Seq(Messages)] /\ ResponsesInv'
    <2>1. CASE Drop(c)
      <3>1. up' \in [Clients -> Seq(Requests)]
        <4>1. PICK read \in 0..Len(up[c]) : up' = [up EXCEPT ![c] = SubSeq(@, 1, read)]
          BY <2>1 DEF Drop
        <4>2. SubSeq(up[c], 1, read) \in Seq(Requests)
          BY <1>2
        <4> QED
          BY <1>2, <4>1, <4>2
      <3>2. line' = line /\ responses' = [responses EXCEPT ![c] = <<>>]
        BY <2>1 DEF Drop, connectorVars
      <3>3. responses' \in [Clients -> Seq(Messages)]
        BY <3>2 DEF CommandsInv, Types
      <3>4. ResponsesInv'
        <4>1. \A d \in Clients : responses'[d] = responses[d] \/ responses'[d] = <<>>
          BY <3>2 DEF CommandsInv, Types
        <4>2. \A m : Known(m) => Known(m)'
          BY <1>1 DEF Known
        <4> QED
          BY <4>1, <4>2 DEF CommandsInv, ResponsesInv
      <3> QED
        BY <1>2, <3>1, <3>2, <3>3, <3>4
    <2>2. CASE Reconnect(c)
      <3>1. up[c] \o pending[c] \in Seq(Requests)
        BY <1>2
      <3>2. up' = [up EXCEPT ![c] = @ \o pending[c]] /\ UNCHANGED <<line, responses>>
        BY <2>2 DEF Reconnect, Repeated, connectorVars
      <3>3. ResponsesInv'
        BY <1>1, <3>2 DEF CommandsInv, ResponsesInv, Known
      <3> QED
        BY <1>2, <3>1, <3>2, <3>3 DEF CommandsInv, Types
    <2>3. CASE Forward(c)
      <3>1. Head(up[c]) \in Requests /\ Tail(up[c]) \in Seq(Requests)
        BY <1>2, <2>3, OneLess DEF Forward
      <3>2. Append(line, Head(up[c])) \in Seq(Requests)
        BY <1>2, <3>1
      <3>3. up' = [up EXCEPT ![c] = Tail(@)] /\ line' = Append(line, Head(up[c])) /\ responses' = responses
        BY <2>3 DEF Forward
      <3>4. ResponsesInv'
        BY <1>1, <3>3 DEF CommandsInv, ResponsesInv, Known
      <3> QED
        BY <1>2, <3>1, <3>2, <3>3, <3>4 DEF CommandsInv, Types
    <2>4. CASE ForwardFails(c)
      <3>1. Head(up[c]) \in Requests /\ Tail(up[c]) \in Seq(Requests)
        BY <1>2, <2>4, OneLess DEF ForwardFails
      <3>2. Append(line, Head(up[c])) \in Seq(Requests)
        BY <1>2, <3>1
      <3>3. up' = [up EXCEPT ![c] = Tail(@)] /\ line' \in {line, Append(line, Head(up[c]))}
        BY <2>4 DEF ForwardFails
      <3>0. PICK m, S : m = Response(Head(up[c]), Service!Refused) /\ S = IF c \in open THEN {c} ELSE {}
        OBVIOUS
      <3>4. m \in Messages /\ Known(m)'
        BY <1>3, <3>0, <3>1
      <3>5. responses' = [d \in Clients |-> IF d \in S THEN Append(responses[d], m) ELSE responses[d]]
        <4>1. responses' = IF c \in open THEN [responses EXCEPT ![c] = Append(@, m)] ELSE responses
          BY <2>4, <3>0 DEF ForwardFails, ToClient
        <4> QED
          BY <3>0, <4>1 DEF CommandsInv, Types
      <3>6. S \in SUBSET Clients
        BY <3>0
      <3>7. responses' \in [Clients -> Seq(Messages)] /\ ResponsesInv'
        BY <1>1, <3>4, <3>5, <3>6, Told DEF CommandsInv
      <3> QED
        BY <1>2, <3>1, <3>2, <3>3, <3>7
    <2> QED
      BY <2>1, <2>2, <2>3, <2>4
  <1>5. Types'
    BY <1>1, <1>4 DEF CommandsInv, Types
  <1>6. PendingInv'
    BY <1>1 DEF CommandsInv, PendingInv, Waiting, Service!None
  <1> QED
    BY <1>1, <1>4, <1>5, <1>6, Unserved DEF CommandsInv

LEMMA ReceiveKeeps ==
  ASSUME CommandsInv, NEW c \in Clients, ReceiveResponse(c)
  PROVE  /\ CommandsInv'
         /\ \/ UNCHANGED <<log, since, answer>>
            \/ \E r \in Requests : Service!Answer(r) \/ Service!Refuse(r)
  <1>1. UNCHANGED <<open, up, line, alive, cache, running, log, since, count>>
    BY DEF ReceiveResponse, connectorVars
  <1>2. pending \in [Clients -> Seq(Requests)] /\ responses \in [Clients -> Seq(Messages)] /\ answer \in [Requests -> Outcomes]
    BY DEF CommandsInv, Types
  <1>3. responses' = [responses EXCEPT ![c] = Tail(@)] /\ responses[c] # <<>>
    BY DEF ReceiveResponse
  <1>4. PICK m : m = Head(responses[c])
    OBVIOUS
  <1>5. /\ m \in Messages /\ Known(m) /\ Tail(responses[c]) \in Seq(Messages)
        /\ \A j \in DOMAIN Tail(responses[c]) : Known(Tail(responses[c])[j])
    <2>1. responses[c] \in Seq(Messages)
      BY <1>2
    <2>2. /\ m \in Messages /\ m = responses[c][1] /\ 1 \in DOMAIN responses[c] /\ Tail(responses[c]) \in Seq(Messages)
          /\ \A j \in DOMAIN Tail(responses[c]) : j + 1 \in DOMAIN responses[c] /\ Tail(responses[c])[j] = responses[c][j + 1]
      BY <1>3, <1>4, <2>1, OneLess
    <2> QED
      BY <2>2 DEF CommandsInv, ResponsesInv
  <1>6. m.request \in Requests /\ m.outcome \in Outcomes
    BY <1>5 DEF Messages
  <1>7. responses' \in [Clients -> Seq(Messages)] /\ ResponsesInv'
    <2>1. responses' \in [Clients -> Seq(Messages)]
      BY <1>2, <1>3, <1>5
    <2>2. \A d \in Clients : IF d = c THEN responses'[d] = Tail(responses[d]) ELSE responses'[d] = responses[d]
      BY <1>2, <1>3
    <2>3. \A told : Known(told) => Known(told)'
      BY <1>1 DEF Known
    <2>4. ASSUME NEW d \in Clients, NEW j \in DOMAIN responses'[d] PROVE \A told : told = responses'[d][j] => Known(told)'
      <3>1. CASE d = c
        BY <1>5, <2>2, <2>3, <3>1
      <3>2. CASE d # c
        BY <2>2, <2>3, <3>2 DEF CommandsInv, ResponsesInv
      <3> QED
        BY <3>1, <3>2
    <2> QED
      BY <2>1, <2>4 DEF ResponsesInv
  <1>8. CASE Contains(pending[c], m.request)
    <2>1. PICK i \in DOMAIN pending[c] : pending[c][i] = m.request /\ pending' = [pending EXCEPT ![c] = RemoveAt(@, i)]
      BY <1>4, <1>8 DEF ReceiveResponse
    <2>2. answer' = [answer EXCEPT ![m.request] = m.outcome]
      BY <1>4, <1>8 DEF ReceiveResponse
    <2>3. pending[c] \in Seq(Requests)
      BY <1>2
    <2>4. PICK new : new = RemoveAt(pending[c], i)
      OBVIOUS
    <2>5. /\ new \in Seq(Requests)
          /\ \A j \in DOMAIN new : \E k \in DOMAIN pending[c] : k # i /\ new[j] = pending[c][k]
          /\ \A j, k \in DOMAIN new : new[j] = new[k] => j = k
      <3>1. \A j, k \in DOMAIN pending[c] : pending[c][j] = pending[c][k] => j = k
        BY DEF CommandsInv, PendingInv
      <3>2. /\ new \in Seq(Requests) /\ DOMAIN new \in SUBSET Int /\ i \in Int
            /\ \A j \in DOMAIN new : \/ j < i /\ j \in DOMAIN pending[c] /\ new[j] = pending[c][j]
                                     \/ j >= i /\ j + 1 \in DOMAIN pending[c] /\ new[j] = pending[c][j + 1]
        <4>1. LET less == RemoveAt(pending[c], i)
              IN  /\ less \in Seq(Requests)
                  /\ \A j \in DOMAIN less : \/ j < i /\ j \in DOMAIN pending[c] /\ less[j] = pending[c][j]
                                            \/ j >= i /\ j + 1 \in DOMAIN pending[c] /\ less[j] = pending[c][j + 1]
          BY <2>3, OneOut
        <4>2. new \in Seq(Requests) /\ DOMAIN new = 1..Len(new) /\ DOMAIN pending[c] = 1..Len(pending[c])
          BY <2>3, <2>4, <4>1, SeqFacts
        <4> QED
          BY <2>4, <4>1, <4>2
      <3>3. ASSUME NEW j \in DOMAIN new PROVE \E k \in DOMAIN pending[c] : k # i /\ new[j] = pending[c][k]
        <4>1. CASE j < i
          BY <3>2, <4>1
        <4>2. CASE ~(j < i)
          <5>1. j + 1 \in DOMAIN pending[c] /\ j + 1 # i /\ new[j] = pending[c][j + 1]
            BY <3>2, <4>2
          <5> QED
            BY <5>1
        <4> QED
          BY <4>1, <4>2
      <3>4. ASSUME NEW j \in DOMAIN new, NEW k \in DOMAIN new, new[j] = new[k] PROVE j = k
        <4>1. PICK a \in DOMAIN pending[c] : new[j] = pending[c][a] /\ a = IF j < i THEN j ELSE j + 1
          BY <3>2
        <4>2. PICK b \in DOMAIN pending[c] : new[k] = pending[c][b] /\ b = IF k < i THEN k ELSE k + 1
          BY <3>2
        <4>3. a = b /\ j \in Int /\ k \in Int
          BY <3>1, <3>2, <3>4, <4>1, <4>2
        <4> QED
          BY <3>2, <4>1, <4>2, <4>3
      <3> QED
        BY <3>2, <3>3, <3>4
    <2>6. pending' = [pending EXCEPT ![c] = new] /\ pending' \in [Clients -> Seq(Requests)]
      BY <1>2, <2>1, <2>4, <2>5
    <2>7. answer' \in [Requests -> Outcomes] /\ \A q \in Requests : q # m.request => answer'[q] = answer[q]
      BY <1>2, <1>6, <2>2
    <2>8. Waiting(c, m.request)
      BY <2>1 DEF CommandsInv, PendingInv
    <2>9. PendingInv'
      <3>1. \A q \in Requests : answer'[q] # Service!None => q[2] <= count'.requests[q[1]]
        BY <1>1, <1>6, <2>7, <2>8 DEF CommandsInv, PendingInv, Waiting
      <3>2. ASSUME NEW d \in Clients, NEW q, Waiting(d, q), q # m.request PROVE Waiting(d, q)'
        BY <1>1, <2>7, <3>2 DEF Waiting, Service!None
      <3>3. ASSUME NEW d \in Clients, NEW j \in DOMAIN pending'[d]
            PROVE  /\ \A q : q = pending'[d][j] => Waiting(d, q)'
                   /\ \A k \in DOMAIN pending'[d] : pending'[d][k] = pending'[d][j] => k = j
        <4>1. CASE d = c
          <5>1. pending'[d] = new
            BY <2>6, <1>2, <4>1
          <5>2. PICK k \in DOMAIN pending[c] : k # i /\ new[j] = pending[c][k]
            BY <2>5, <5>1
          <5>3. Waiting(c, new[j]) /\ new[j] # m.request
            BY <2>1, <5>2 DEF CommandsInv, PendingInv
          <5> QED
            BY <2>5, <3>2, <4>1, <5>1, <5>3
        <4>2. CASE d # c
          <5>1. pending'[d] = pending[d]
            BY <2>6, <1>2, <4>2
          <5>2. Waiting(d, pending[d][j]) /\ pending[d][j] # m.request
            BY <2>8, <4>2, <5>1 DEF CommandsInv, PendingInv, Waiting
          <5> QED
            BY <3>2, <5>1, <5>2 DEF CommandsInv, PendingInv
        <4> QED
          BY <4>1, <4>2
      <3> QED
        BY <3>1, <3>3 DEF PendingInv, Service!None
    <2>10. Types'
      BY <1>1, <1>7, <2>6, <2>7 DEF CommandsInv, Types
    <2>11. Service!Answer(m.request) \/ Service!Refuse(m.request)
      <3>1. answer[m.request] = Service!None
        BY <2>8 DEF Waiting
      <3>2. CASE m.outcome = Service!Refused
        BY <1>1, <2>2, <3>1, <3>2 DEF Service!Refuse
      <3>3. CASE \E k \in DOMAIN log : log[k].command = m.request /\ m.outcome = Service!Outcome(log[k].ok)
        <4>1. PICK k \in DOMAIN log : log[k].command = m.request /\ m.outcome = Service!Outcome(log[k].ok)
          BY <3>3
        <4>2. answer' = [answer EXCEPT ![m.request] = Service!Outcome(log[k].ok)]
          BY <2>2, <4>1
        <4> QED
          BY <1>1, <3>1, <4>1, <4>2 DEF Service!Answer
      <3> QED
        BY <1>5, <3>2, <3>3 DEF Known
    <2> QED
      BY <1>1, <1>6, <1>7, <2>9, <2>10, <2>11, Unserved DEF CommandsInv
  <1>9. CASE ~Contains(pending[c], m.request)
    <2>1. UNCHANGED <<pending, answer>>
      BY <1>4, <1>9 DEF ReceiveResponse
    <2>2. Types'
      BY <1>1, <1>7, <2>1 DEF CommandsInv, Types
    <2>3. PendingInv'
      BY <1>1, <2>1 DEF CommandsInv, PendingInv, Waiting, Service!None
    <2> QED
      BY <1>1, <1>7, <2>1, <2>2, <2>3, Unserved DEF CommandsInv
  <1> QED
    BY <1>8, <1>9
-----------------------------------------------------------------------------
(* The steps of the Connector.                                             *)

\* A response of the Connector, of a service that is in the log.
LEMMA Answered ==
  ASSUME Types, ResponsesInv, \A i \in DOMAIN log : i \in DOMAIN log' /\ log'[i] = log[i],
         NEW r \in Requests, NEW ok \in BOOLEAN,
         \E i \in DOMAIN log' : log'[i].command = r /\ log'[i].ok = ok,
         ToClients(Response(r, Service!Outcome(ok)))
  PROVE  responses' \in [Clients -> Seq(Messages)] /\ ResponsesInv'
  <1>1. PICK m, S : m = Response(r, Service!Outcome(ok)) /\ S = Clients \cap open
    OBVIOUS
  <1>0. S \in SUBSET Clients
    BY <1>1
  <1>2. m \in Messages /\ Known(m)'
    BY <1>1 DEF Messages, Outcomes, Response, Service!Outcome, Known
  <1>3. responses' = [c \in Clients |-> IF c \in S THEN Append(responses[c], m) ELSE responses[c]]
    BY <1>1 DEF ToClients
  <1> QED
    BY <1>0, <1>2, <1>3, Told

LEMMA LineFacts ==
  ASSUME Types, line # <<>>
  PROVE  Head(line) \in Requests /\ Tail(line) \in Seq(Requests)
  <1>1. line \in Seq(Requests)
    BY DEF Types
  <1> QED
    BY <1>1, OneLess

LEMMA ExecuteKeeps ==
  ASSUME Window \in Nat, CommandsInv, Execute
  PROVE  CommandsInv' /\ \E r \in Requests : Service!Run(r)
  <1>1. UNCHANGED <<pending, open, up, responses, answer, alive, cache, since, count>> /\ line # <<>> /\ running = Idle
    BY DEF Execute, net
  <1>0. PICK r : r = Head(line)
    OBVIOUS
  <1>2. PICK ok \in BOOLEAN : running' = <<Entry(r, ok)>> /\ log' = Append(log, Service!Served(r, ok, TRUE))
    BY <1>0 DEF Execute
  <1>3. r \in Requests /\ Cached(r) = {} /\ line' = Tail(line) /\ line' \in Seq(Requests)
    BY <1>0, <1>1, LineFacts DEF Execute, CommandsInv
  <1>4. PICK s : s = Service!Served(r, ok, TRUE)
    OBVIOUS
  <1>5. s \in Logged /\ s.command = r /\ s.ok = ok /\ log' = Append(log, s)
    BY <1>2, <1>3, <1>4 DEF Service!Served, Logged
  <1>6. /\ log' \in Seq(Logged) /\ Len(log') = Len(log) + 1 /\ log'[Len(log) + 1] = s
        /\ \A i \in DOMAIN log : i \in DOMAIN log' /\ log'[i] = log[i]
        /\ Latest(r, Len(log))'
        /\ \A q : q # r => (\A l : Latest(q, l)' <=> Latest(q, l)) /\ Service!Services(q)' = Service!Services(q)
    BY <1>1, <1>5, LogGrows DEF CommandsInv
  <1>7. Types'
    <2>1. Entry(r, ok) \in Entries
      BY <1>3 DEF Entry, Entries
    <2>2. since' <= Len(log') /\ since' \in Nat
      BY <1>1, <1>6, LogFacts DEF CommandsInv
    <2> QED
      BY <1>1, <1>2, <1>3, <1>6, <2>1, <2>2 DEF CommandsInv, Types
  <1>8. PendingInv'
    BY <1>1 DEF CommandsInv, PendingInv, Waiting, Service!None
  <1>9. ResponsesInv'
    BY <1>1, <1>6 DEF CommandsInv, ResponsesInv, Known
  <1>10. \A i \in DOMAIN cache : \A q : q = cache[i].request => q # r /\ \A l : Latest(q, l)' <=> Latest(q, l)
    BY <1>3, <1>6 DEF Cached
  <1>11. \A q, l : Latest(q, l) => l \in DOMAIN log
    BY LastFacts DEF CommandsInv
  <1>12. OrderInv'
    <2>1. ASSUME NEW i \in DOMAIN cache
          PROVE  \E l \in DOMAIN log' : (\A q : q = cache[i].request => Latest(q, l)') /\ log'[l].ok = cache[i].ok
      <3>1. PICK l \in DOMAIN log : Latest(cache[i].request, l) /\ log[l].ok = cache[i].ok
        BY DEF CommandsInv, OrderInv
      <3> QED
        BY <1>6, <1>10, <3>1
    <2>2. ASSUME NEW i \in DOMAIN cache, NEW j \in DOMAIN cache, i < j, NEW l, NEW k,
                 \A q : q = cache[i].request => Latest(q, l)', \A q : q = cache[j].request => Latest(q, k)'
          PROVE  l < k
      <3>1. Latest(cache[i].request, l) /\ Latest(cache[j].request, k)
        BY <1>10, <2>2
      <3> QED
        BY <1>11, <2>2, <3>1 DEF CommandsInv, OrderInv
    <2> QED
      BY <1>1, <2>1, <2>2 DEF OrderInv
  <1>13. RunningInv'
    <2>1. running'[1].request = r /\ running'[1].ok = ok
      BY <1>2 DEF Entry
    <2>2. Cached(r)' = {}
      BY <1>1, <1>3 DEF Cached
    <2>3. log'[Len(log')].ok = ok
      BY <1>5, <1>6
    <2> QED
      BY <1>6, <2>1, <2>2, <2>3 DEF RunningInv
  <1>14. RoomInv'
    <2>1. ASSUME NEW q \in Requests, Cached(q)' = {}, running'[1].request # q PROVE Older(q)'
      <3>1. q # r
        BY <1>2, <2>1 DEF Entry
      <3>2. Older(q)
        BY <1>1, <2>1 DEF CommandsInv, RoomInv, Cached
      <3> QED
        BY <1>1, <1>6, <1>10, <1>11, <3>1, <3>2 DEF Older
    <2>2. running' # Idle
      BY <1>2 DEF Idle
    <2> QED
      BY <1>1, <2>1, <2>2 DEF CommandsInv, RoomInv
  <1>15. Service!Run(r)
    <2>1. ~Service!Remembered(r)
      BY <1>1, <1>3, Forgotten DEF CommandsInv, RoomInv
    <2> QED
      BY <1>1, <1>2, <2>1 DEF Service!Run
  <1> QED
    BY <1>3, <1>7, <1>8, <1>9, <1>12, <1>13, <1>14, <1>15 DEF CommandsInv

LEMMA AliveKeeps ==
  ASSUME Window \in Nat, CommandsInv, ConnectorLost \/ ConnectorStarts
  PROVE  CommandsInv' /\ (UNCHANGED <<log, since, answer>> \/ Service!Restart)
  <1>1. /\ UNCHANGED <<pending, open, up, responses, answer, log>> /\ count'.requests = count.requests
        /\ count' \in [requests : [Clients -> Nat], drops : Int, restarts : Int]
    BY DEF ConnectorLost, ConnectorStarts, net, CommandsInv, Types
  <1>2. PendingInv' /\ ResponsesInv'
    BY <1>1 DEF CommandsInv, PendingInv, Waiting, Service!None, ResponsesInv, Known
  <1>3. CASE ConnectorLost
    <2>1. line' = <<>> /\ running' = Idle /\ cache' = <<>> /\ since' = Len(log)
      BY <1>3 DEF ConnectorLost
    <2>2. Len(log) \in Nat
      BY LogFacts DEF CommandsInv
    <2>3. Types'
      BY <1>1, <2>1, <2>2 DEF CommandsInv, Types
    <2>4. OrderInv' /\ RunningInv'
      BY <2>1 DEF OrderInv, RunningInv
    <2>5. \A q : Service!Services(q)' = {}
      BY <1>1, <2>1, LogFacts DEF Service!Services, CommandsInv
    <2>6. RoomInv'
      <3>1. Len(cache') <= Window
        BY <2>1, <2>2 DEF CommandsInv, RoomInv
      <3> QED
        BY <2>5, <3>1 DEF RoomInv, Older
    <2>7. Service!Restart
      BY <1>1, <2>1 DEF Service!Restart
    <2> QED
      BY <1>2, <2>3, <2>4, <2>6, <2>7 DEF CommandsInv
  <1>4. CASE ConnectorStarts
    <2>1. UNCHANGED <<line, cache, running, since>>
      BY <1>4 DEF ConnectorStarts
    <2>2. Types'
      BY <1>1, <2>1 DEF CommandsInv, Types
    <2> QED
      BY <1>1, <1>2, <2>1, <2>2, Unserved DEF CommandsInv
  <1> QED
    BY <1>3, <1>4

LEMMA AnswerAgainKeeps ==
  ASSUME Window \in Nat, CommandsInv, AnswerAgain
  PROVE  CommandsInv' /\ \E r \in Requests : Service!Repeat(r)
  <1>1. UNCHANGED <<pending, open, up, answer, alive, running, since, count>> /\ line # <<>> /\ running = Idle
    BY DEF AnswerAgain
  <1>2. PICK i \in Cached(Head(line)) :
          /\ cache' = Append(RemoveAt(cache, i), cache[i])
          /\ ToClients(Response(cache[i].request, Service!Outcome(cache[i].ok)))
          /\ log' = Append(log, Service!Served(cache[i].request, cache[i].ok, FALSE))
    BY DEF AnswerAgain
  <1>3. i \in DOMAIN cache /\ line' = Tail(line) /\ line' \in Seq(Requests)
    BY <1>1, LineFacts DEF AnswerAgain, Cached, CommandsInv
  <1>4. PICK e, r, ok, s, n : /\ e = cache[i] /\ r = e.request /\ ok = e.ok /\ n = Len(cache)
                              /\ s = Service!Served(r, ok, FALSE)
    OBVIOUS
  <1>5. /\ e \in Entries /\ r \in Requests /\ ok \in BOOLEAN /\ n \in Nat /\ DOMAIN cache = 1..n
        /\ \A j, k \in DOMAIN cache : cache[j].request = cache[k].request => j = k
    BY <1>3, <1>4, CacheFacts DEF CommandsInv
  <1>6. s \in Logged /\ s.command = r /\ s.ok = ok /\ log' = Append(log, s)
    BY <1>2, <1>4, <1>5 DEF Service!Served, Logged
  <1>7. /\ log' \in Seq(Logged) /\ Len(log') = Len(log) + 1 /\ log'[Len(log) + 1] = s
        /\ \A j \in DOMAIN log : j \in DOMAIN log' /\ log'[j] = log[j]
        /\ Latest(r, Len(log))' /\ \A l : Latest(r, l)' => l = Len(log) + 1
        /\ \A q : q # r => (\A l : Latest(q, l)' <=> Latest(q, l)) /\ Service!Services(q)' = Service!Services(q)
    BY <1>1, <1>6, LogGrows DEF CommandsInv
  <1>8. /\ cache' \in Seq(Entries) /\ Len(cache') = n /\ DOMAIN cache' = 1..n /\ cache'[n] = e
        /\ \A j \in 1..(n - 1) : \/ j < i /\ j \in DOMAIN cache /\ cache'[j] = cache[j]
                                 \/ j >= i /\ j + 1 \in DOMAIN cache /\ cache'[j] = cache[j + 1]
        /\ \A k \in DOMAIN cache : k # i => \E j \in DOMAIN cache' : cache'[j] = cache[k]
    <2>1. PICK less : less = RemoveAt(cache, i)
      OBVIOUS
    <2>2. cache \in Seq(Entries)
      BY DEF CommandsInv, Types
    <2>3. /\ less \in Seq(Entries) /\ Len(less) = n - 1 /\ DOMAIN less = 1..(n - 1)
          /\ \A j \in DOMAIN less : \/ j < i /\ j \in DOMAIN cache /\ less[j] = cache[j]
                                    \/ j >= i /\ j + 1 \in DOMAIN cache /\ less[j] = cache[j + 1]
          /\ \A k \in DOMAIN cache : k # i => \E j \in DOMAIN less : less[j] = cache[k]
      BY <1>3, <1>4, <2>1, <2>2, OneOut, ZenonT(30)
    <2>4. cache' = Append(less, e)
      BY <1>2, <1>4, <2>1
    <2>5. /\ cache' \in Seq(Entries) /\ Len(cache') = Len(less) + 1 /\ DOMAIN cache' = 1..(Len(less) + 1)
          /\ cache'[Len(less) + 1] = e /\ \A j \in DOMAIN less : cache'[j] = less[j]
      BY <1>5, <2>3, <2>4, OneMore
    <2>6. (n - 1) + 1 = n
      BY <1>5
    <2>7. DOMAIN less \in SUBSET DOMAIN cache'
      BY <1>5, <2>3, <2>5, <2>6
    <2> QED
      BY <2>3, <2>5, <2>6, <2>7
  <1>9. i \in 1..n /\ i \in Int
    BY <1>3, <1>5
  \* What was there keeps its last service and its place.
  <1>10. ASSUME NEW j \in DOMAIN cache', j # n
         PROVE  \E k \in DOMAIN cache : /\ k = IF j < i THEN j ELSE j + 1
                                        /\ cache'[j] = cache[k] /\ k # i /\ cache[k].request # r
    <2>1. j \in 1..(n - 1)
      BY <1>5, <1>8, <1>10
    <2>2. CASE j < i
      BY <1>3, <1>4, <1>5, <1>8, <1>9, <2>1, <2>2
    <2>3. CASE ~(j < i)
      <3>1. j + 1 \in DOMAIN cache /\ cache'[j] = cache[j + 1] /\ j + 1 # i
        BY <1>8, <1>9, <2>1, <2>3
      <3> QED
        BY <1>3, <1>4, <1>5, <2>3, <3>1
    <2> QED
      BY <2>2, <2>3
  <1>11. \A q, l : Latest(q, l) => l \in DOMAIN log /\ l \in Nat /\ l <= Len(log)
    BY LastFacts DEF CommandsInv
  <1>12. Len(log) \in Nat /\ DOMAIN log = 1..Len(log) /\ DOMAIN log' = 1..(Len(log) + 1)
    BY <1>7, LogFacts DEF CommandsInv
  <1>13. OrderInv'
    <2>1. ASSUME NEW j \in DOMAIN cache'
          PROVE  \E l \in DOMAIN log' : (\A q : q = cache'[j].request => Latest(q, l)') /\ log'[l].ok = cache'[j].ok
      <3>1. CASE j = n
        <4>1. cache'[j].request = r /\ cache'[j].ok = ok
          BY <1>4, <1>8, <3>1
        <4>2. Len(log) + 1 \in DOMAIN log' /\ log'[Len(log) + 1].ok = ok
          BY <1>6, <1>7, <1>12
        <4>3. PICK l : l = Len(log) + 1
          OBVIOUS
        <4>4. \A q : q = r => Latest(q, l)'
          BY <1>7, <4>3
        <4> QED
          BY <4>1, <4>2, <4>3, <4>4
      <3>2. CASE j # n
        <4>1. PICK k \in DOMAIN cache : cache'[j] = cache[k] /\ cache[k].request # r
          BY <1>10, <3>2
        <4>2. PICK l \in DOMAIN log : Latest(cache[k].request, l) /\ log[l].ok = cache[k].ok
          BY DEF CommandsInv, OrderInv
        <4>3. \A q : q = cache[k].request => Latest(q, l)'
          BY <1>7, <4>1, <4>2
        <4> QED
          BY <1>7, <4>1, <4>2, <4>3
      <3> QED
        BY <3>1, <3>2
    <2>2. ASSUME NEW j \in DOMAIN cache', NEW k \in DOMAIN cache', j < k, NEW l, NEW m,
                 \A q : q = cache'[j].request => Latest(q, l)', \A q : q = cache'[k].request => Latest(q, m)'
          PROVE  l < m
      <3>1. j # n
        BY <1>5, <1>8, <2>2
      <3>2. PICK a \in DOMAIN cache : cache'[j] = cache[a] /\ cache[a].request # r /\ a = IF j < i THEN j ELSE j + 1
        BY <1>10, <3>1
      <3>3. Latest(cache[a].request, l)
        BY <1>7, <2>2, <3>2
      <3>4. CASE k = n
        <4>1. cache'[k].request = r
          BY <1>4, <1>8, <3>4
        <4>2. m = Len(log) + 1
          BY <1>7, <2>2, <4>1
        <4> QED
          BY <1>11, <1>12, <3>3, <4>2
      <3>5. CASE k # n
        <4>1. PICK b \in DOMAIN cache : cache'[k] = cache[b] /\ cache[b].request # r /\ b = IF k < i THEN k ELSE k + 1
          BY <1>10, <3>5
        <4>2. Latest(cache[b].request, m)
          BY <1>7, <2>2, <4>1
        <4>3. a < b
          BY <1>8, <1>9, <2>2, <3>2, <4>1
        <4> QED
          BY <1>11, <3>3, <4>2, <4>3 DEF CommandsInv, OrderInv
      <3> QED
        BY <3>4, <3>5
    <2> QED
      BY <2>1, <2>2 DEF OrderInv
  <1>14. RunningInv'
    BY <1>1 DEF RunningInv
  <1>15. RoomInv'
    <2>1. ASSUME NEW q \in Requests, Cached(q)' = {} PROVE Older(q)'
      <3>1. q # r /\ Cached(q) = {}
        <4>1. q # r
          <5>1. n \in DOMAIN cache' /\ cache'[n].request = r
            BY <1>4, <1>8, <1>9
          <5> QED
            BY <2>1, <5>1 DEF Cached
        <4>2. ASSUME NEW k \in DOMAIN cache, cache[k].request = q PROVE FALSE
          <5>1. k # i
            BY <1>4, <4>1, <4>2
          <5>2. PICK j \in DOMAIN cache' : cache'[j] = cache[k]
            BY <1>8, <5>1
          <5> QED
            BY <2>1, <4>2, <5>2 DEF Cached
        <4> QED
          BY <4>1, <4>2 DEF Cached
      <3>2. Older(q)
        BY <1>1, <3>1 DEF CommandsInv, RoomInv
      <3>3. ASSUME NEW t \in Service!Services(q) PROVE t \in Nat /\ t <= Len(log)
        BY <3>3, LastFacts DEF CommandsInv
      <3>4. ASSUME NEW t \in Service!Services(q), NEW j \in DOMAIN cache', NEW l,
                   \A z : z = cache'[j].request => Latest(z, l)'
            PROVE  t < l
        <4>1. CASE j = n
          <5>1. l = Len(log) + 1
            BY <1>4, <1>7, <1>8, <3>4, <4>1
          <5> QED
            BY <1>12, <3>3, <5>1
        <4>2. CASE j # n
          <5>1. PICK k \in DOMAIN cache : cache'[j] = cache[k] /\ cache[k].request # r
            BY <1>10, <4>2
          <5>2. Latest(cache[k].request, l)
            BY <1>7, <3>4, <5>1
          <5> QED
            BY <1>11, <3>2, <5>2 DEF Older
        <4> QED
          BY <4>1, <4>2
      <3>5. Service!Services(q)' = Service!Services(q)
        BY <1>7, <3>1
      <3>6. \A t \in Service!Services(q) : Len(cache') = Window
        BY <1>4, <1>8, <3>2 DEF Older
      <3> QED
        BY <3>4, <3>5, <3>6 DEF Older
    <2>2. Len(cache') <= Window
      BY <1>4, <1>8 DEF CommandsInv, RoomInv
    <2> QED
      BY <2>1, <2>2 DEF RoomInv
  <1>16. responses' \in [Clients -> Seq(Messages)] /\ ResponsesInv'
    <2>1. ToClients(Response(r, Service!Outcome(ok)))
      BY <1>2, <1>4
    <2>2. \E j \in DOMAIN log' : log'[j].command = r /\ log'[j].ok = ok
      <3>1. Len(log) + 1 \in DOMAIN log'
        BY <1>12
      <3> QED
        BY <1>6, <1>7, <3>1
    <2> QED
      BY <1>5, <1>7, <2>1, <2>2, Answered DEF CommandsInv
  <1>17. Types'
    <2>1. since' <= Len(log') /\ since' \in Nat
      BY <1>1, <1>7, LogFacts DEF CommandsInv
    <2> QED
      BY <1>1, <1>3, <1>7, <1>8, <1>16, <2>1 DEF CommandsInv, Types
  <1>18. PendingInv'
    BY <1>1 DEF CommandsInv, PendingInv, Waiting, Service!None
  <1>19. Service!Repeat(r)
    <2>1. /\ Service!Remembered(r)
          /\ \E l \in DOMAIN log : Latest(r, l) /\ log[l].ok = ok
      BY <1>1, <1>3, <1>4, StillThere
    <2> QED
      BY <1>1, <1>4, <1>6, <2>1 DEF Service!Repeat, Latest
  <1> QED
    BY <1>5, <1>13, <1>14, <1>15, <1>16, <1>17, <1>18, <1>19 DEF CommandsInv

\* The cache after Remember: the entry is put at the end, and the first one leaves when there is no room.
LEMMA Remembering ==
  ASSUME Window \in Nat, Types, Len(cache) <= Window, NEW e \in Entries
  PROVE  LET new == Remember(e)
             gone == IF Len(cache) < Window THEN 0 ELSE 1
         IN  /\ new \in Seq(Entries) /\ Len(new) = Len(cache) + 1 - gone
             /\ DOMAIN new = 1..(Len(cache) + 1 - gone)
             /\ \A j \in DOMAIN new : \/ j + gone \in DOMAIN cache /\ new[j] = cache[j + gone]
                                      \/ j = Len(new) /\ j + gone = Len(cache) + 1 /\ new[j] = e
  <1> DEFINE gone == IF Len(cache) < Window THEN 0 ELSE 1
  <1>1. PICK longer, n : longer = Append(cache, e) /\ n = Len(cache)
    OBVIOUS
  <1>2. cache \in Seq(Entries)
    BY DEF Types
  <1>3. /\ longer \in Seq(Entries) /\ Len(longer) = n + 1 /\ longer[n + 1] = e /\ \A j \in 1..n : longer[j] = cache[j]
        /\ n \in Nat /\ DOMAIN cache = 1..n
    BY <1>1, <1>2, OneMore, SeqFacts
  <1>4. Remember(e) = SubSeq(longer, 1 + gone, n + 1)
    <2>1. Len(longer) > Window <=> gone = 1
      BY <1>1, <1>3
    <2> QED
      BY <1>1, <1>3, <2>1, SMTT(20) DEF Remember
  <1>5. gone \in {0, 1} /\ gone = IF n < Window THEN 0 ELSE 1
    BY <1>1
  <1> HIDE DEF gone
  <1>6. PICK g, new : g = gone /\ new = SubSeq(longer, 1 + g, n + 1)
    OBVIOUS
  <1>7. /\ new \in Seq(Entries) /\ Len(new) = n + 1 - g /\ DOMAIN new = 1..(n + 1 - g)
        /\ \A j \in 1..(n + 1 - g) : new[j] = longer[j + g]
    <2>1. CASE g = 0
      BY <1>3, <1>6, <2>1
    <2>2. CASE g = 1
      BY <1>3, <1>6, <2>2
    <2> QED
      BY <1>5, <1>6, <2>1, <2>2
  <1>8. ASSUME NEW j \in DOMAIN new
        PROVE  \/ j + g \in DOMAIN cache /\ new[j] = cache[j + g]
               \/ j = Len(new) /\ j + g = n + 1 /\ new[j] = e
    <2>1. j + g \in 1..(n + 1) /\ j \in 1..(n + 1 - g)
      BY <1>3, <1>5, <1>6, <1>7
    <2>2. CASE j + g = n + 1
      BY <1>3, <1>5, <1>6, <1>7, <2>1, <2>2
    <2>3. CASE j + g # n + 1
      <3>1. j + g \in 1..n
        BY <1>3, <2>1, <2>3
      <3> QED
        BY <1>3, <1>7, <2>1, <3>1
    <2> QED
      BY <2>2, <2>3
  <1>9. new = Remember(e)
    BY <1>4, <1>6
  <1> QED
    BY <1>1, <1>5, <1>6, <1>7, <1>8, <1>9

LEMMA RespondKeeps ==
  ASSUME Window \in Nat, CommandsInv, Respond
  PROVE  CommandsInv' /\ UNCHANGED <<log, since, answer>>
  <1>1. UNCHANGED <<pending, open, up, answer, line, alive, log, since, count>> /\ running # Idle /\ running' = Idle
    BY DEF Respond
  <1>2. PICK e \in Entries : running = <<e>>
    BY <1>1 DEF CommandsInv, Types
  <1>3. PICK r, ok, n, g : r = e.request /\ ok = e.ok /\ n = Len(cache) /\ g = IF Len(cache) < Window THEN 0 ELSE 1
    OBVIOUS
  <1>4. /\ r \in Requests /\ ok \in BOOLEAN /\ n \in Nat /\ DOMAIN cache = 1..n /\ n <= Window
        /\ g \in {0, 1} /\ (g = 1 => n = Window) /\ (g = 0 => n < Window)
    <2>1. n \in Nat /\ DOMAIN cache = 1..n /\ n <= Window
      BY <1>3, CacheFacts DEF CommandsInv, RoomInv
    <2> QED
      BY <1>2, <1>3, <2>1 DEF Entries
  <1>5. /\ Cached(r) = {} /\ Latest(r, Len(log)) /\ log[Len(log)].ok = ok
    BY <1>1, <1>2, <1>3 DEF CommandsInv, RunningInv
  <1>6. cache' = Remember(e) /\ ToClients(Response(r, Service!Outcome(ok)))
    BY <1>2, <1>3 DEF Respond
  <1>7. /\ cache' \in Seq(Entries) /\ Len(cache') = n + 1 - g /\ DOMAIN cache' = 1..(n + 1 - g)
        /\ \A j \in DOMAIN cache' : \/ j + g \in DOMAIN cache /\ cache'[j] = cache[j + g]
                                    \/ j = Len(cache') /\ j + g = n + 1 /\ cache'[j] = e
    BY <1>2, <1>3, <1>6, Remembering DEF CommandsInv, RoomInv
  <1>8. \A q, l : Latest(q, l)' <=> Latest(q, l)
    BY <1>1 DEF Latest, Service!LastService, Service!Services
  <1>9. \A q, l : Latest(q, l) => l \in DOMAIN log /\ l \in Nat /\ l <= Len(log) /\ log[l].command = q
    BY LastFacts DEF CommandsInv
  <1>10. Len(log) \in Nat /\ DOMAIN log = 1..Len(log)
    BY LogFacts DEF CommandsInv
  <1>11. \A k \in DOMAIN cache : cache[k].request # r
    BY <1>5 DEF Cached
  <1>12. OrderInv'
    <2>1. ASSUME NEW j \in DOMAIN cache'
          PROVE  \E l \in DOMAIN log : Latest(cache'[j].request, l) /\ log[l].ok = cache'[j].ok
      <3>1. CASE j + g \in DOMAIN cache /\ cache'[j] = cache[j + g]
        BY <3>1 DEF CommandsInv, OrderInv
      <3>2. CASE cache'[j] = e
        BY <1>3, <1>5, <1>9, <3>2
      <3> QED
        BY <1>7, <3>1, <3>2
    <2>2. ASSUME NEW j \in DOMAIN cache', NEW k \in DOMAIN cache', j < k,
                 NEW l, NEW m, Latest(cache'[j].request, l), Latest(cache'[k].request, m)
          PROVE  l < m
      <3>1. j + g \in DOMAIN cache /\ cache'[j] = cache[j + g]
        BY <1>4, <1>7, <2>2
      <3>2. CASE k + g \in DOMAIN cache /\ cache'[k] = cache[k + g]
        <4>1. j + g < k + g
          BY <1>4, <1>7, <2>2
        <4> QED
          BY <1>9, <2>2, <3>1, <3>2, <4>1 DEF CommandsInv, OrderInv
      <3>3. CASE cache'[k] = e
        <4>1. m = Len(log)
          BY <1>3, <1>5, <2>2, <3>3, LastFacts DEF CommandsInv
        <4>2. l <= Len(log) /\ l \in Nat /\ log[l].command # r
          BY <1>9, <1>11, <2>2, <3>1
        <4>3. l # Len(log)
          BY <1>5, <1>9, <4>2
        <4>4. \A a, b \in Nat : a <= b /\ a # b => a < b
          OBVIOUS
        <4>5. l < Len(log)
          BY <1>10, <4>2, <4>3, <4>4
        <4> QED
          BY <4>1, <4>5
      <3> QED
        BY <1>7, <3>2, <3>3
    <2>3. /\ \A j \in DOMAIN cache' : \A q, l : q = cache'[j].request => (Latest(q, l)' <=> Latest(q, l))
      BY <1>8
    <2>4. ASSUME NEW j \in DOMAIN cache'
          PROVE  \E l \in DOMAIN log' : (\A q : q = cache'[j].request => Latest(q, l)') /\ log'[l].ok = cache'[j].ok
      BY <1>1, <2>1, <2>3
    <2>5. ASSUME NEW j \in DOMAIN cache', NEW k \in DOMAIN cache', j < k, NEW l, NEW m,
                 \A q : q = cache'[j].request => Latest(q, l)', \A q : q = cache'[k].request => Latest(q, m)'
          PROVE  l < m
      BY <2>2, <2>3, <2>5
    <2> QED
      BY <2>4, <2>5 DEF OrderInv
  <1>13. RunningInv'
    BY <1>1 DEF RunningInv
  <1>14. RoomInv'
    <2>1. ASSUME NEW q \in Requests, Cached(q)' = {},
                 NEW t \in Service!Services(q), NEW j \in DOMAIN cache', NEW l, Latest(cache'[j].request, l)
          PROVE  t < l
      <3>1. \A k \in DOMAIN cache' : cache'[k].request # q
        BY <2>1 DEF Cached
      <3>2. t \in Nat /\ t <= Len(log) /\ log[t].command = q
        <4>1. t \in Nat /\ t <= Len(log)
          BY LastFacts DEF CommandsInv
        <4> QED
          BY <4>1 DEF Service!Services
      <3>3. q # r
        <4>1. Len(cache') \in DOMAIN cache' /\ Len(cache') + g = n + 1
          BY <1>4, <1>7, <2>1
        <4>2. cache'[Len(cache')] = e
          BY <1>4, <1>7, <4>1
        <4> QED
          BY <1>3, <3>1, <4>1, <4>2
      <3>4. CASE cache'[j] = e
        <4>1. l = Len(log) /\ log[Len(log)].command = r
          BY <1>3, <1>5, <1>9, <2>1, <3>4, LastFacts DEF CommandsInv
        <4>2. t # Len(log)
          BY <3>2, <3>3, <4>1
        <4>3. \A a, b \in Nat : a <= b /\ a # b => a < b
          OBVIOUS
        <4>4. t < Len(log)
          BY <1>10, <3>2, <4>2, <4>3
        <4> QED
          BY <4>1, <4>4
      <3>5. CASE j + g \in DOMAIN cache /\ cache'[j] = cache[j + g]
        <4>1. CASE Cached(q) = {}
          <5>1. Older(q)
            BY <1>2, <1>3, <3>3, <4>1 DEF CommandsInv, RoomInv
          <5> QED
            BY <1>9, <2>1, <3>5, <5>1 DEF Older
        <4>2. CASE Cached(q) # {}
          <5>1. PICK k \in DOMAIN cache : cache[k].request = q
            BY <4>2 DEF Cached
          \* It is the one that leaves.
          <5>2. k = 1 /\ g = 1
            <6>1. SUFFICES ASSUME k - g \in 1..(n - g) PROVE FALSE
              BY <1>4, <5>1
            <6>2. k - g \in DOMAIN cache' /\ (k - g) + g = k /\ k # n + 1
              BY <1>4, <1>7, <5>1, <6>1
            <6>3. cache'[k - g] = cache[k]
              BY <1>7, <6>2
            <6> QED
              BY <3>1, <5>1, <6>2, <6>3
          <5>3. k < j + g
            BY <1>4, <1>7, <5>2
          <5>4. PICK m \in DOMAIN log : Latest(q, m)
            BY <5>1 DEF CommandsInv, OrderInv
          <5>5. m < l
            BY <1>9, <2>1, <3>5, <5>1, <5>3, <5>4 DEF CommandsInv, OrderInv
          <5>6. t <= m
            BY <5>4, LastFacts DEF CommandsInv
          <5> QED
            BY <1>9, <2>1, <3>2, <5>4, <5>5, <5>6
        <4> QED
          BY <4>1, <4>2
      <3> QED
        BY <1>7, <3>4, <3>5
    <2>2. ASSUME NEW q \in Requests, Cached(q)' = {}, NEW t \in Service!Services(q) PROVE Len(cache') = Window
      <3>1. SUFFICES ASSUME g = 0 PROVE FALSE
        BY <1>4, <1>7
      <3>2. n + 1 \in DOMAIN cache' /\ cache'[n + 1] = e
        BY <1>4, <1>7, <3>1
      <3>3. q # r
        BY <1>3, <2>2, <3>2 DEF Cached
      <3>4. \A k \in DOMAIN cache : k \in DOMAIN cache' /\ cache'[k] = cache[k]
        BY <1>4, <1>7, <3>1
      <3>5. Cached(q) = {}
        BY <2>2, <3>4 DEF Cached
      <3>6. Older(q)
        BY <1>2, <1>3, <3>3, <3>5 DEF CommandsInv, RoomInv
      <3> QED
        BY <1>3, <1>4, <2>2, <3>1, <3>6 DEF Older
    <2>3. \A q : Service!Services(q)' = Service!Services(q)
      BY <1>1 DEF Service!Services
    <2>4. ASSUME NEW q \in Requests, Cached(q)' = {} PROVE Older(q)'
      <3>1. ASSUME NEW t \in Service!Services(q), NEW j \in DOMAIN cache', NEW l, \A z : z = cache'[j].request => Latest(z, l)'
            PROVE  t < l
        BY <1>8, <2>1, <2>4, <3>1
      <3> QED
        BY <2>2, <2>3, <2>4, <3>1 DEF Older
    <2>5. Len(cache') <= Window
      BY <1>4, <1>7
    <2> QED
      BY <2>4, <2>5 DEF RoomInv
  <1>15. responses' \in [Clients -> Seq(Messages)] /\ ResponsesInv'
    <2>1. \E i \in DOMAIN log' : log'[i].command = r /\ log'[i].ok = ok
      BY <1>1, <1>5, <1>9
    <2> QED
      BY <1>1, <1>4, <1>6, <2>1, Answered DEF CommandsInv
  <1>16. Types'
    BY <1>1, <1>7, <1>15 DEF CommandsInv, Types
  <1>17. PendingInv'
    BY <1>1 DEF CommandsInv, PendingInv, Waiting, Service!None
  <1> QED
    BY <1>1, <1>12, <1>13, <1>14, <1>15, <1>16, <1>17 DEF CommandsInv
-----------------------------------------------------------------------------
LEMMA InitFacts ==
  ASSUME Window \in Nat, CommandsInit
  PROVE  CommandsInv /\ Service!Init
  <1> USE DEF CommandsInit, Service!Init
  <1>1. Types
    <2>1. Service!None \in Outcomes
      BY DEF Service!None, Outcomes
    <2> QED
      BY <2>1 DEF Types
  <1>2. PendingInv /\ ResponsesInv
    BY DEF PendingInv, ResponsesInv, Service!None
  <1>3. OrderInv /\ RunningInv
    BY DEF OrderInv, RunningInv
  <1>4. RoomInv
    BY DEF RoomInv, Older, Service!Services
  <1> QED
    BY <1>1, <1>2, <1>3, <1>4 DEF CommandsInv

LEMMA StepFacts ==
  ASSUME Window \in Nat, MaxRequests \in Nat, CommandsInv, [CommandsNext]_commandsVars
  PROVE  CommandsInv' /\ [Service!Next]_<<log, since, answer>>
  <1>1. CASE \E c \in Clients : SendRequest(c)
    BY <1>1, SendKeeps
  <1>2. CASE \E c \in Clients : ReceiveResponse(c)
    BY <1>2, ReceiveKeeps DEF Service!Next
  <1>3. CASE \E c \in Clients : Drop(c) \/ Reconnect(c) \/ Forward(c) \/ ForwardFails(c)
    BY <1>3, NetKeeps
  <1>4. CASE AnswerAgain
    BY <1>4, AnswerAgainKeeps DEF Service!Next
  <1>5. CASE Execute
    BY <1>5, ExecuteKeeps DEF Service!Next
  <1>6. CASE Respond
    BY <1>6, RespondKeeps
  <1>7. CASE ConnectorLost \/ ConnectorStarts
    BY <1>7, AliveKeeps DEF Service!Next
  <1>8. CASE UNCHANGED commandsVars
    <2>1. UNCHANGED <<pending, open, up, responses, answer, line, alive, cache, running, log, since, count>>
      BY <1>8 DEF commandsVars, net, connectorVars
    <2>2. Types' /\ PendingInv' /\ ResponsesInv'
      BY <2>1 DEF CommandsInv, Types, PendingInv, Waiting, Service!None, ResponsesInv, Known
    <2> QED
      BY <2>1, <2>2, Unserved DEF CommandsInv
  <1> QED
    BY <1>1, <1>2, <1>3, <1>4, <1>5, <1>6, <1>7, <1>8 DEF CommandsNext

\* Whatever connections are lost and whenever the Connector is restarted, a repeated request
\* runs again only when the Connector was restarted or Window other requests were served since,
\* and what a client is told is what a run of its request came to: the cache of
\* handle_relay_message and _remember_request serves the commands of CommandService.
THEOREM Commands == CommandsSpec => CommandsServed
  <1>1. CommandsInit => CommandsInv /\ Service!Init
    BY CommandsAssumption, InitFacts
  <1>2. CommandsInv /\ [CommandsNext]_commandsVars => CommandsInv' /\ [Service!Next]_<<log, since, answer>>
    BY CommandsAssumption, StepFacts
  <1> QED
    BY <1>1, <1>2, PTL DEF CommandsSpec, CommandsServed, Service!Spec
=============================================================================
