------------------------- MODULE RecvDeliveryProofs -------------------------
(***************************************************************************)
(* Theorems about what the receive queue hands to the application: each    *)
(* reliable frame once, whole payloads, each channel in order, and nothing *)
(* lost that it has taken charge of.                                       *)
(*                                                                         *)
(* A payload is held on its channel, then released: the first part says    *)
(* what adding, flushing and appending do to any channels o and any        *)
(* released payloads R, the second ties that to the windows and the split  *)
(* packets.                                                                *)
(***************************************************************************)
EXTENDS RecvQueueProofs, SequenceTheorems

Same(f, g) == Reliable(f) /\ Reliable(g) /\ f.ridx = g.ridx

OnceIn(x) == \A p, q \in DOMAIN x : Same(x[p], x[q]) => p = q

Apart(x, y) == \A p \in DOMAIN x, q \in DOMAIN y : ~Same(x[p], y[q])

QueuesOK(o) == o = [c \in Channel |-> o[c]] /\ \A c \in Channel : QueueOK(o[c])

\* No reliable frame is in two payloads, or twice in one.
EachOnce(o, R) ==
    /\ \A i \in DOMAIN R : OnceIn(R[i])
    /\ \A i, j \in DOMAIN R : i # j => Apart(R[i], R[j])
    /\ \A c \in Channel : \A k \in DOMAIN o[c].held : OnceIn(o[c].held[k])
    /\ \A c, d \in Channel : \A k \in DOMAIN o[c].held, l \in DOMAIN o[d].held :
           c # d \/ k # l => Apart(o[c].held[k], o[d].held[l])
    /\ \A i \in DOMAIN R, c \in Channel : \A k \in DOMAIN o[c].held :
           Apart(R[i], o[c].held[k])

\* The frames in payloads, held back or released.
Taken(o, R) ==
    (UNION {UNION {PayloadFrames(o[c].held[k]) : k \in DOMAIN o[c].held} : c \in Channel})
    \cup (UNION {PayloadFrames(R[i]) : i \in DOMAIN R})

\* A held payload of frames of its own channel and index, a released one the
\* channel has passed.
Turn(f, c, k) == Ordered(f) /\ f.chan = c /\ f.oidx = k

Passed(o, f) ==
    Ordered(f) => f.chan \in Channel /\ f.oidx \in Nat /\ f.oidx < o[f.chan].next

InTurn(o, R) ==
    /\ \A c \in Channel : \A k \in DOMAIN o[c].held :
           LET x == o[c].held[k]
           IN  x # <<>> /\ Whole(x) /\ \A p \in DOMAIN x : Turn(x[p], c, k)
    /\ \A i \in DOMAIN R : R[i] # <<>> /\ Whole(R[i]) /\ Passed(o, R[i][1])
    /\ \A i, j \in DOMAIN R :
           i < j /\ Ordered(R[i][1]) /\ Ordered(R[j][1]) /\ R[i][1].chan = R[j][1].chan
               => R[i][1].oidx < R[j][1].oidx

----------------------------------------------------------------------------
(* The three ways in which payloads move. *)

\* From o and R to o2 and R2: channel c passes on what it holds up to gap.
Flushes(o, R, o2, R2, c, gap) ==
    /\ c \in Channel
    /\ gap \in Nat /\ gap >= o[c].next /\ o2[c].next = gap
    /\ \A d \in Channel \ {c} : o2[d] = o[d]
    /\ DOMAIN o2[c].held = DOMAIN o[c].held \ (o[c].next .. (gap - 1))
    /\ \A k \in DOMAIN o2[c].held : o2[c].held[k] = o[c].held[k]
    /\ o[c].next .. (gap - 1) \subseteq DOMAIN o[c].held
    /\ DOMAIN R2 = 1 .. Len(R) + (gap - o[c].next)
    /\ \A i \in DOMAIN R : R2[i] = R[i]
    /\ \A i \in DOMAIN R2 \ DOMAIN R : R2[i] = o[c].held[o[c].next + (i - Len(R)) - 1]

\* Payload x is put on channel c at index k.
Holds(o, o2, c, k, x) ==
    /\ c \in Channel
    /\ k \in Nat /\ k >= o[c].next /\ k \notin DOMAIN o[c].held
    /\ \A d \in Channel \ {c} : o2[d] = o[d]
    /\ o2[c].next = o[c].next
    /\ DOMAIN o2[c].held = DOMAIN o[c].held \cup {k}
    /\ \A l \in DOMAIN o[c].held : o2[c].held[l] = o[c].held[l]
    /\ o2[c].held[k] = x

\* Payload x is released at once.
Appends(R, R2, x) ==
    /\ DOMAIN R2 = 1 .. Len(R) + 1
    /\ \A i \in DOMAIN R : R2[i] = R[i]
    /\ R2[Len(R) + 1] = x

LEMMA FlushMoves ==
    ASSUME NEW o, QueuesOK(o), NEW c \in Channel, NEW R \in Seq(Seq(Frame))
    PROVE  /\ Flushes(o, R, [o EXCEPT ![c] = Flushed(o[c])], R \o Run(o[c]), c,
                      Flushed(o[c]).next)
           /\ QueuesOK([o EXCEPT ![c] = Flushed(o[c])])
           /\ R \o Run(o[c]) \in Seq(Seq(Frame))
<1> DEFINE q == o[c]
           gap == FirstGap(DOMAIN q.held, q.next)
           o2 == [o EXCEPT ![c] = Flushed(q)]
           R2 == R \o Run(q)
<1>1. QueueOK(q)
    BY DEF QueuesOK
<1>2. /\ gap \in Nat
      /\ gap >= q.next
      /\ \A j \in q.next .. gap - 1 : j \in DOMAIN q.held
      /\ q.next \in Nat
    BY <1>1, FirstGapProperties DEF QueueOK
<1>3. Flushed(q) = [next |-> gap, held |-> Without(q.held, q.next .. (gap - 1))]
    BY DEF Flushed
<1>4. Run(q) = [k \in 1 .. (gap - q.next) |-> q.held[q.next + k - 1]]
    BY DEF Run
<1>5. QueueOK(Flushed(q)) /\ Run(q) \in Seq(Seq(Frame))
    BY <1>1, FlushProperties
<1> HIDE DEF gap
<1>6. /\ o2 = [d \in Channel |-> IF d = c THEN Flushed(q) ELSE o[d]]
      /\ QueuesOK(o2)
    BY <1>5 DEF QueuesOK
<1>7. Len(Run(q)) = gap - q.next
    BY <1>2, <1>4, <1>5
<1>8. /\ R2 \in Seq(Seq(Frame))
      /\ DOMAIN R2 = 1 .. Len(R) + (gap - q.next)
      /\ \A i \in DOMAIN R : R2[i] = R[i]
      /\ \A i \in DOMAIN R2 \ DOMAIN R : R2[i] = Run(q)[i - Len(R)]
    <2> HIDE DEF q
    <2>1. QED
        BY <1>5, <1>7, ConcatProperties, LenProperties
<1>9. \A i \in DOMAIN R2 \ DOMAIN R : R2[i] = q.held[q.next + (i - Len(R)) - 1]
    <2> SUFFICES ASSUME NEW i \in DOMAIN R2 \ DOMAIN R
                 PROVE  R2[i] = q.held[q.next + (i - Len(R)) - 1]
        OBVIOUS
    <2>1. i - Len(R) \in 1 .. (gap - q.next)
        BY <1>2, <1>8, LenProperties
    <2>2. R2[i] = Run(q)[i - Len(R)]
        BY <1>8
    <2> HIDE DEF q, R2
    <2>3. QED
        BY <1>4, <2>1, <2>2
<1>10. o2[c] = Flushed(q) /\ \A d \in Channel \ {c} : o2[d] = o[d]
    BY <1>6
<1> HIDE DEF o2, R2
<1>11. /\ DOMAIN o2[c].held = DOMAIN q.held \ (q.next .. (gap - 1))
       /\ \A k \in DOMAIN o2[c].held : o2[c].held[k] = q.held[k]
       /\ o2[c].next = gap
    BY <1>3, <1>10 DEF Without
<1>12. Flushes(o, R, o2, R2, c, gap)
    BY <1>2, <1>8, <1>9, <1>10, <1>11 DEF Flushes
<1>13. QED
    BY <1>3, <1>6, <1>8, <1>12 DEF o2, R2

\* What it is to be taken.
LEMMA TakenFrame ==
    ASSUME NEW o, NEW R, NEW f
    PROVE  f \in Taken(o, R) <=>
              \/ \E c \in Channel : \E k \in DOMAIN o[c].held :
                     \E p \in DOMAIN o[c].held[k] : f = o[c].held[k][p]
              \/ \E i \in DOMAIN R : \E p \in DOMAIN R[i] : f = R[i][p]
<1> DEFINE onChannel(c) == UNION {PayloadFrames(o[c].held[k]) : k \in DOMAIN o[c].held}
           held == UNION {onChannel(c) : c \in Channel}
           released == UNION {PayloadFrames(R[i]) : i \in DOMAIN R}
<1>1. f \in Taken(o, R) <=>
          \/ \E c \in Channel : \E k \in DOMAIN o[c].held :
                 f \in PayloadFrames(o[c].held[k])
          \/ \E i \in DOMAIN R : f \in PayloadFrames(R[i])
    <2>1. \A c \in Channel : f \in onChannel(c) <=>
              \E k \in DOMAIN o[c].held : f \in PayloadFrames(o[c].held[k])
        BY SMT
    <2>2. f \in released <=> \E i \in DOMAIN R : f \in PayloadFrames(R[i])
        BY SMT
    <2>3. f \in Taken(o, R) <=> f \in held \/ f \in released
        BY Zenon DEF Taken
    <2> HIDE DEF onChannel, released
    <2>4. f \in held <=> \E c \in Channel : f \in onChannel(c)
        BY SMT
    <2> HIDE DEF held
    <2>5. QED
        BY <2>1, <2>2, <2>3, <2>4
<1>2. ASSUME NEW x
      PROVE  f \in PayloadFrames(x) <=> \E p \in DOMAIN x : f = x[p]
    BY DEF PayloadFrames
<1>3. QED
    BY <1>1, <1>2, Zenon

\* A flush moves payloads, it makes and loses none.
LEMMA FlushOnce ==
    ASSUME NEW o, NEW R, NEW o2, NEW R2, NEW c, NEW gap, Len(R) \in Nat,
           DOMAIN R = 1 .. Len(R), QueuesOK(o), Flushes(o, R, o2, R2, c, gap),
           EachOnce(o, R)
    PROVE  EachOnce(o2, R2) /\ Taken(o2, R2) = Taken(o, R)
<1> DEFINE old == DOMAIN R
           from(i) == o[c].next + (i - Len(R)) - 1
           moved == o[c].next .. (gap - 1)
<1>1. o[c].next \in Nat
    BY DEF Flushes, QueuesOK, QueueOK
<1>2. /\ \A i \in DOMAIN R2 \ old : /\ from(i) \in moved
                                    /\ from(i) \in DOMAIN o[c].held
                                    /\ R2[i] = o[c].held[from(i)]
      /\ \A i, j \in DOMAIN R2 \ old : from(i) = from(j) => i = j
      /\ \A i \in old : i \in DOMAIN R2 /\ R2[i] = R[i]
    <2>1. /\ DOMAIN R2 = 1 .. Len(R) + (gap - o[c].next)
          /\ gap \in Nat /\ gap >= o[c].next
          /\ moved \subseteq DOMAIN o[c].held
          /\ \A i \in old : R2[i] = R[i]
          /\ \A i \in DOMAIN R2 \ old : R2[i] = o[c].held[from(i)]
        BY DEF Flushes
    <2>2. \A i \in DOMAIN R2 \ old : i \in Int /\ from(i) \in moved
        BY <1>1, <2>1
    <2>3. \A i, j \in DOMAIN R2 \ old : from(i) = from(j) => i = j
        BY <1>1, <2>2
    <2>4. \A i \in old : i \in DOMAIN R2
        BY <1>1, <2>1
    <2> HIDE DEF from, moved
    <2>5. QED
        BY <2>1, <2>2, <2>3, <2>4
<1>3. \A d \in Channel : /\ DOMAIN o2[d].held \subseteq DOMAIN o[d].held
                         /\ \A k \in DOMAIN o2[d].held : o2[d].held[k] = o[d].held[k]
    BY DEF Flushes
<1>4. \A k \in DOMAIN o2[c].held : k \notin moved
    BY DEF Flushes
<1>5. c \in Channel
    BY DEF Flushes
<1> HIDE DEF from, moved
<1>6. \A i \in DOMAIN R2 : OnceIn(R2[i])
    BY <1>2, <1>5 DEF EachOnce
<1>7. \A i, j \in DOMAIN R2 : i # j => Apart(R2[i], R2[j])
    <2>1. ASSUME NEW i \in old, NEW j \in DOMAIN R2 \ old
          PROVE  Apart(R2[i], R2[j]) /\ Apart(R2[j], R2[i])
        <3>1. Apart(R[i], o[c].held[from(j)])
            BY <1>2, <1>5 DEF EachOnce
        <3>2. QED
            BY <1>2, <3>1 DEF Apart, Same
    <2>2. ASSUME NEW i \in DOMAIN R2 \ old, NEW j \in DOMAIN R2 \ old, i # j
          PROVE  Apart(R2[i], R2[j])
        BY <1>2, <1>5, <2>2 DEF EachOnce
    <2>3. ASSUME NEW i \in old, NEW j \in old, i # j
          PROVE  Apart(R2[i], R2[j])
        BY <1>2, <2>3 DEF EachOnce
    <2>4. QED
        BY <2>1, <2>2, <2>3
<1>8. \A d \in Channel : \A k \in DOMAIN o2[d].held : OnceIn(o2[d].held[k])
    BY <1>3 DEF EachOnce
<1>9. \A d, e \in Channel : \A k \in DOMAIN o2[d].held, l \in DOMAIN o2[e].held :
          d # e \/ k # l => Apart(o2[d].held[k], o2[e].held[l])
    BY <1>3 DEF EachOnce
<1>10. \A i \in DOMAIN R2, d \in Channel : \A k \in DOMAIN o2[d].held :
           Apart(R2[i], o2[d].held[k])
    <2> SUFFICES ASSUME NEW i \in DOMAIN R2, NEW d \in Channel, NEW k \in DOMAIN o2[d].held
                 PROVE  Apart(R2[i], o2[d].held[k])
        OBVIOUS
    <2>1. k \in DOMAIN o[d].held /\ o2[d].held[k] = o[d].held[k]
        BY <1>3
    <2>2. CASE i \in old
        BY <1>2, <2>1, <2>2 DEF EachOnce
    <2>3. CASE i \notin old
        <3>1. c # d \/ from(i) # k
            BY <1>2, <1>4, <2>3
        <3>2. QED
            BY <1>2, <1>5, <2>1, <2>3, <3>1 DEF EachOnce
    <2>4. QED
        BY <2>2, <2>3
<1>11. EachOnce(o2, R2)
    BY <1>6, <1>7, <1>8, <1>9, <1>10 DEF EachOnce
<1>12. Taken(o2, R2) \subseteq Taken(o, R)
    <2> SUFFICES ASSUME NEW f \in Taken(o2, R2)
                 PROVE  f \in Taken(o, R)
        OBVIOUS
    <2>1. CASE \E d \in Channel : \E k \in DOMAIN o2[d].held :
                   \E p \in DOMAIN o2[d].held[k] : f = o2[d].held[k][p]
        BY <1>3, <2>1, TakenFrame
    <2>2. CASE \E i \in DOMAIN R2 : \E p \in DOMAIN R2[i] : f = R2[i][p]
        BY <1>2, <1>5, <2>2, TakenFrame
    <2>3. QED
        BY <2>1, <2>2, TakenFrame
<1>13. Taken(o, R) \subseteq Taken(o2, R2)
    <2> SUFFICES ASSUME NEW f \in Taken(o, R)
                 PROVE  f \in Taken(o2, R2)
        OBVIOUS
    <2>1. CASE \E d \in Channel : \E k \in DOMAIN o[d].held :
                   \E p \in DOMAIN o[d].held[k] : f = o[d].held[k][p]
        <3> PICK d \in Channel : \E k \in DOMAIN o[d].held :
                   \E p \in DOMAIN o[d].held[k] : f = o[d].held[k][p]
            BY <2>1
        <3> PICK k \in DOMAIN o[d].held : \E p \in DOMAIN o[d].held[k] : f = o[d].held[k][p]
            OBVIOUS
        <3>1. \E p \in DOMAIN o[d].held[k] : f = o[d].held[k][p]
            OBVIOUS
        <3>2. CASE d = c /\ k \in moved
            <4> DEFINE i == Len(R) + (k - o[c].next) + 1
            <4>1. /\ gap \in Nat
                  /\ k \in o[c].next .. (gap - 1)
                  /\ DOMAIN R2 = 1 .. Len(R) + (gap - o[c].next)
                BY <3>2 DEF Flushes, moved
            <4>2. i \in DOMAIN R2 \ old /\ from(i) = k
                <5>1. PICK n \in Nat, s \in Nat : n = Len(R) /\ s = o[c].next
                    BY <1>1
                <5>2. i = n + (k - s) + 1 /\ from(i) = s + (i - n) - 1
                    BY <5>1 DEF from
                <5>3. old = 1 .. n /\ k \in s .. (gap - 1) /\ DOMAIN R2 = 1 .. n + (gap - s)
                    BY <4>1, <5>1
                <5> HIDE DEF i, from
                <5>4. gap \in Nat /\ k \in Int /\ s <= k /\ k < gap
                    BY <4>1, <5>3
                <5>5. i \in Int /\ n < i /\ i <= n + (gap - s) /\ from(i) = k
                    BY <5>2, <5>4
                <5> HIDE DEF old
                <5>6. i \in 1 .. n + (gap - s) /\ i \notin 1 .. n
                    BY <4>1, <5>1, <5>5
                <5>7. QED
                    BY <5>3, <5>5, <5>6
            <4> HIDE DEF i
            <4>3. R2[i] = o[d].held[k]
                BY <1>2, <3>2, <4>2
            <4>4. QED
                BY <3>1, <4>2, <4>3, TakenFrame
        <3>3. CASE ~(d = c /\ k \in moved)
            <4>1. k \in DOMAIN o2[d].held
                BY <3>3 DEF Flushes, moved
            <4>2. QED
                BY <1>3, <3>1, <4>1, TakenFrame
        <3>4. QED
            BY <3>2, <3>3
    <2>2. CASE \E i \in DOMAIN R : \E p \in DOMAIN R[i] : f = R[i][p]
        BY <1>2, <2>2, TakenFrame
    <2>3. QED
        BY <2>1, <2>2, TakenFrame
<1>14. QED
    BY <1>11, <1>12, <1>13

\* A new payload may be put on its channel when it shares no reliable frame
\* with what is there.
Fresh(x, o, R) == \A p \in DOMAIN x : \A g \in Taken(o, R) : ~Same(x[p], g)

LEMMA HoldOnce ==
    ASSUME NEW o, NEW R, NEW o2, NEW c, NEW k, NEW x,
           Holds(o, o2, c, k, x), EachOnce(o, R), OnceIn(x), Fresh(x, o, R)
    PROVE  EachOnce(o2, R) /\ Taken(o2, R) = Taken(o, R) \cup PayloadFrames(x)
<1>1. \A d \in Channel : \A l \in DOMAIN o2[d].held :
          \/ d = c /\ l = k /\ o2[d].held[l] = x
          \/ /\ d # c \/ l # k
             /\ l \in DOMAIN o[d].held
             /\ o2[d].held[l] = o[d].held[l]
    BY DEF Holds
<1>2. \A d \in Channel : \A l \in DOMAIN o[d].held :
          l \in DOMAIN o2[d].held /\ o2[d].held[l] = o[d].held[l]
    BY DEF Holds
<1>3. c \in Channel /\ k \in DOMAIN o2[c].held /\ o2[c].held[k] = x
    BY DEF Holds
<1>4. \A d \in Channel : \A l \in DOMAIN o[d].held :
          Apart(x, o[d].held[l]) /\ Apart(o[d].held[l], x)
    BY TakenFrame DEF Fresh, Apart, Same
<1>5. \A i \in DOMAIN R : Apart(R[i], x)
    BY TakenFrame DEF Fresh, Apart, Same
<1>6. EachOnce(o2, R)
    <2>1. \A d \in Channel : \A l \in DOMAIN o2[d].held : OnceIn(o2[d].held[l])
        BY <1>1 DEF EachOnce
    <2>2. \A d, e \in Channel : \A l \in DOMAIN o2[d].held, m \in DOMAIN o2[e].held :
              d # e \/ l # m => Apart(o2[d].held[l], o2[e].held[m])
        BY <1>1, <1>4 DEF EachOnce
    <2>3. \A i \in DOMAIN R, d \in Channel : \A l \in DOMAIN o2[d].held :
              Apart(R[i], o2[d].held[l])
        BY <1>1, <1>5 DEF EachOnce
    <2>4. QED
        BY <2>1, <2>2, <2>3 DEF EachOnce
<1>7. ASSUME NEW f
      PROVE  f \in Taken(o2, R) <=> f \in Taken(o, R) \/ \E p \in DOMAIN x : f = x[p]
    BY <1>1, <1>2, <1>3, TakenFrame
<1>8. QED
    BY <1>6, <1>7 DEF PayloadFrames

LEMMA AppendOnce ==
    ASSUME NEW o, NEW R, NEW R2, NEW x, Len(R) \in Nat, DOMAIN R = 1 .. Len(R),
           Appends(R, R2, x), EachOnce(o, R), OnceIn(x), Fresh(x, o, R)
    PROVE  EachOnce(o, R2) /\ Taken(o, R2) = Taken(o, R) \cup PayloadFrames(x)
<1> DEFINE last == Len(R) + 1
<1>1. /\ \A i \in DOMAIN R2 : (i \in DOMAIN R /\ R2[i] = R[i]) \/ (i = last /\ R2[i] = x)
      /\ \A i \in DOMAIN R : i \in DOMAIN R2 /\ R2[i] = R[i] /\ i # last
      /\ last \in DOMAIN R2 /\ R2[last] = x
    BY DEF Appends
<1> HIDE DEF last
<1>2. \A d \in Channel : \A l \in DOMAIN o[d].held : Apart(x, o[d].held[l])
    BY TakenFrame DEF Fresh, Apart, Same
<1>3. \A i \in DOMAIN R : Apart(R[i], x) /\ Apart(x, R[i])
    BY TakenFrame DEF Fresh, Apart, Same
<1>4. EachOnce(o, R2)
    BY <1>1, <1>2, <1>3 DEF EachOnce
<1>5. ASSUME NEW f
      PROVE  f \in Taken(o, R2) <=> f \in Taken(o, R) \/ \E p \in DOMAIN x : f = x[p]
    BY <1>1, TakenFrame
<1>6. QED
    BY <1>4, <1>5 DEF PayloadFrames

\* What a flush releases is next in turn: it comes after what the channel has
\* passed, in the order in which it was held.
LEMMA FlushInTurn ==
    ASSUME NEW o, NEW R, NEW o2, NEW R2, NEW c, NEW gap, Len(R) \in Nat,
           DOMAIN R = 1 .. Len(R), QueuesOK(o), Flushes(o, R, o2, R2, c, gap),
           InTurn(o, R)
    PROVE  InTurn(o2, R2)
<1> DEFINE old == DOMAIN R
           from(i) == o[c].next + (i - Len(R)) - 1
           moved == o[c].next .. (gap - 1)
<1>1. /\ c \in Channel
      /\ o[c].next \in Nat
      /\ gap \in Nat /\ o[c].next <= gap /\ o2[c].next = gap
      /\ \A d \in Channel : d # c => o2[d] = o[d]
    BY DEF Flushes, QueuesOK, QueueOK
<1>2. /\ DOMAIN R2 = 1 .. Len(R) + (gap - o[c].next)
      /\ \A i \in old : R2[i] = R[i]
      /\ \A i \in DOMAIN R2 \ old : R2[i] = o[c].held[from(i)]
      /\ \A k \in moved : k \in DOMAIN o[c].held
    BY DEF Flushes
<1>3. \A d \in Channel : /\ DOMAIN o2[d].held \subseteq DOMAIN o[d].held
                         /\ \A k \in DOMAIN o2[d].held : o2[d].held[k] = o[d].held[k]
                         /\ o[d].next \in Nat /\ o2[d].next \in Nat
                         /\ o[d].next <= o2[d].next
    <2> TAKE d \in Channel
    <2>1. o[d].next \in Nat
        BY DEF QueuesOK, QueueOK
    <2>2. o2[d].next \in Nat /\ o[d].next <= o2[d].next
        BY <1>1, <2>1
    <2>3. /\ DOMAIN o2[d].held \subseteq DOMAIN o[d].held
          /\ \A k \in DOMAIN o2[d].held : o2[d].held[k] = o[d].held[k]
        BY <1>1 DEF Flushes
    <2>4. QED
        BY <2>1, <2>2, <2>3
<1>4. \A i \in DOMAIN R2 \ old : i \in Int /\ from(i) \in moved
    BY <1>1, <1>2
<1>5. \A i, j \in DOMAIN R2 \ old : i < j => from(i) < from(j)
    BY <1>1, <1>4
<1>6. \A i, j \in DOMAIN R2 : i < j /\ j \in old => i \in old
    BY <1>1, <1>2
<1>7. \A k \in moved : k \in Int /\ o[c].next <= k /\ k < gap
    BY <1>1
<1> HIDE DEF from, moved
<1>8. ASSUME NEW i \in DOMAIN R2 \ old
      PROVE  /\ R2[i] # <<>> /\ Whole(R2[i])
             /\ \A p \in DOMAIN R2[i] : Turn(R2[i][p], c, from(i))
             /\ 1 \in DOMAIN R2[i]
             /\ R2[i][1].oidx = from(i) /\ R2[i][1].chan = c /\ Ordered(R2[i][1])
    <2>1. from(i) \in DOMAIN o[c].held
        BY <1>2, <1>4
    <2>2. /\ R2[i] # <<>> /\ Whole(R2[i])
          /\ \A p \in DOMAIN R2[i] : Turn(R2[i][p], c, from(i))
        BY <1>1, <1>2, <2>1 DEF InTurn
    <2>3. R2[i] \in Seq(Frame)
        BY <1>1, <1>2, <2>1 DEF QueuesOK, QueueOK
    <2>4. 1 \in DOMAIN R2[i]
        BY <2>2, <2>3
    <2>5. QED
        BY <2>2, <2>4 DEF Turn
<1>9. \A i \in DOMAIN R2 : R2[i] # <<>> /\ Whole(R2[i]) /\ Passed(o2, R2[i][1])
    <2> SUFFICES ASSUME NEW i \in DOMAIN R2
                 PROVE  R2[i] # <<>> /\ Whole(R2[i]) /\ Passed(o2, R2[i][1])
        OBVIOUS
    <2>1. CASE i \in old
        <3>1. R2[i] # <<>> /\ Whole(R2[i]) /\ Passed(o, R2[i][1])
            BY <1>2, <2>1 DEF InTurn
        <3>2. Ordered(R2[i][1]) => R2[i][1].oidx < o2[R2[i][1].chan].next
            <4> SUFFICES ASSUME Ordered(R2[i][1])
                         PROVE  R2[i][1].oidx < o2[R2[i][1].chan].next
                OBVIOUS
            <4>1. QED
                BY <1>3, <3>1 DEF Passed
        <3>3. QED
            BY <3>1, <3>2 DEF Passed
    <2>2. CASE i \notin old
        BY <1>1, <1>4, <1>7, <1>8, <2>2 DEF Passed
    <2>3. QED
        BY <2>1, <2>2
<1>10. \A i, j \in DOMAIN R2 :
           i < j /\ Ordered(R2[i][1]) /\ Ordered(R2[j][1]) /\ R2[i][1].chan = R2[j][1].chan
               => R2[i][1].oidx < R2[j][1].oidx
    <2> SUFFICES ASSUME NEW i \in DOMAIN R2, NEW j \in DOMAIN R2, i < j,
                        Ordered(R2[i][1]), Ordered(R2[j][1]),
                        R2[i][1].chan = R2[j][1].chan
                 PROVE  R2[i][1].oidx < R2[j][1].oidx
        OBVIOUS
    <2>1. CASE j \in old
        BY <1>2, <1>6, <2>1 DEF InTurn
    <2>2. CASE i \in old /\ j \notin old
        <3>1. Passed(o, R2[i][1])
            BY <1>2, <2>2 DEF InTurn
        <3>2. R2[i][1].oidx \in Nat /\ R2[i][1].oidx < o[c].next
            BY <1>8, <2>2, <3>1 DEF Passed
        <3>3. R2[j][1].oidx = from(j) /\ from(j) \in moved
            BY <1>4, <1>8, <2>2
        <3>4. from(j) \in Int /\ o[c].next <= from(j)
            BY <1>7, <3>3
        <3>5. QED
            BY <1>1, <3>2, <3>3, <3>4
    <2>3. CASE i \notin old /\ j \notin old
        BY <1>5, <1>8, <2>3
    <2>4. QED
        BY <2>1, <2>2, <2>3
<1>11. \A d \in Channel : \A k \in DOMAIN o2[d].held :
           LET x == o2[d].held[k]
           IN  x # <<>> /\ Whole(x) /\ \A p \in DOMAIN x : Turn(x[p], d, k)
    BY <1>3 DEF InTurn
<1>12. QED
    BY <1>9, <1>10, <1>11 DEF InTurn

\* More is released, on no channel but one.
Extends(R, R2) ==
    /\ DOMAIN R \subseteq DOMAIN R2
    /\ \A i \in DOMAIN R : R2[i] = R[i]
    /\ \A i \in DOMAIN R2 \ DOMAIN R : \A j \in DOMAIN R : j < i
    /\ \E c : \A i \in DOMAIN R2 \ DOMAIN R : Ordered(R2[i][1]) => R2[i][1].chan = c

LEMMA FlushExtends ==
    ASSUME NEW o, NEW R, NEW o2, NEW R2, NEW c, NEW gap, Len(R) \in Nat,
           DOMAIN R = 1 .. Len(R), QueuesOK(o), Flushes(o, R, o2, R2, c, gap),
           InTurn(o, R)
    PROVE  Extends(R, R2)
<1> DEFINE from(i) == o[c].next + (i - Len(R)) - 1
<1>1. /\ c \in Channel
      /\ o[c].next \in Nat
      /\ gap \in Nat /\ o[c].next <= gap
    BY DEF Flushes, QueuesOK, QueueOK
<1>2. /\ DOMAIN R2 = 1 .. Len(R) + (gap - o[c].next)
      /\ \A i \in DOMAIN R : R2[i] = R[i]
      /\ \A i \in DOMAIN R2 \ DOMAIN R : R2[i] = o[c].held[from(i)]
      /\ \A k \in o[c].next .. (gap - 1) : k \in DOMAIN o[c].held
    BY DEF Flushes
<1>3. \A i \in DOMAIN R2 \ DOMAIN R : from(i) \in o[c].next .. (gap - 1)
    BY <1>1, <1>2
<1>4. /\ DOMAIN R \subseteq DOMAIN R2
      /\ \A i \in DOMAIN R2 \ DOMAIN R : \A j \in DOMAIN R : j < i
    BY <1>1, <1>2
<1> HIDE DEF from
<1>5. \A i \in DOMAIN R2 \ DOMAIN R : R2[i][1].chan = c
    <2> TAKE i \in DOMAIN R2 \ DOMAIN R
    <2> DEFINE x == o[c].held[from(i)]
    <2>1. from(i) \in DOMAIN o[c].held /\ R2[i] = x
        BY <1>2, <1>3
    <2>2. x \in Seq(Frame) /\ x # <<>> /\ \A p \in DOMAIN x : Turn(x[p], c, from(i))
        BY <1>1, <2>1 DEF InTurn, QueuesOK, QueueOK
    <2> HIDE DEF x
    <2>3. 1 \in DOMAIN x
        BY <2>2
    <2>4. QED
        BY <2>1, <2>2, <2>3 DEF Turn
<1>6. QED
    BY <1>2, <1>4, <1>5 DEF Extends

LEMMA AppendExtends ==
    ASSUME NEW R, NEW R2, NEW x, Len(R) \in Nat, DOMAIN R = 1 .. Len(R),
           Appends(R, R2, x), ~Ordered(x[1])
    PROVE  Extends(R, R2)
<1>1. /\ DOMAIN R2 = 1 .. Len(R) + 1
      /\ \A i \in DOMAIN R : R2[i] = R[i]
      /\ R2[Len(R) + 1] = x
    BY DEF Appends
<1>2. \A i \in DOMAIN R2 \ DOMAIN R : i = Len(R) + 1
    BY <1>1
<1>3. QED
    BY <1>1, <1>2 DEF Extends

LEMMA HoldInTurn ==
    ASSUME NEW o, NEW R, NEW o2, NEW c, NEW k, NEW x,
           Holds(o, o2, c, k, x), InTurn(o, R), x # <<>>, Whole(x),
           \A p \in DOMAIN x : Turn(x[p], c, k)
    PROVE  InTurn(o2, R)
<1>1. \A d \in Channel : \A l \in DOMAIN o2[d].held :
          \/ d = c /\ l = k /\ o2[d].held[l] = x
          \/ l \in DOMAIN o[d].held /\ o2[d].held[l] = o[d].held[l]
    BY DEF Holds
<1>2. \A d \in Channel : o2[d].next = o[d].next
    BY DEF Holds
<1>3. QED
    BY <1>1, <1>2 DEF InTurn, Passed

LEMMA AppendInTurn ==
    ASSUME NEW o, NEW R, NEW R2, NEW x, Len(R) \in Nat, DOMAIN R = 1 .. Len(R),
           Appends(R, R2, x), InTurn(o, R), x # <<>>, Whole(x), ~Ordered(x[1])
    PROVE  InTurn(o, R2)
<1>1. \A i \in DOMAIN R2 : (i \in DOMAIN R /\ R2[i] = R[i]) \/ R2[i] = x
    BY DEF Appends
<1>2. QED
    BY <1>1 DEF InTurn, Passed

----------------------------------------------------------------------------
(* How the queue's operations move payloads. *)

LEMMA ReleasedType ==
    ASSUME delivered \in Seq(Seq(Frame)), ready \in Seq(Seq(Frame))
    PROVE  /\ Released \in Seq(Seq(Frame))
           /\ Len(Released) \in Nat
           /\ DOMAIN Released = 1 .. Len(Released)
BY LenProperties, ConcatProperties DEF Released

LEMMA EnqueueMoves ==
    ASSUME OrderOK, ready \in Seq(Seq(Frame)), delivered \in Seq(Seq(Frame)),
           delivered' = delivered,
           NEW f \in Frame, NEW x \in Seq(Frame), Enqueue(f, x)
    PROVE  \/ /\ Ordered(f)
              /\ \E mid : \E gap :
                     /\ Holds(order, mid, f.chan, f.oidx, x)
                     /\ QueuesOK(mid)
                     /\ Flushes(mid, Released, order', Released', f.chan, gap)
           \/ /\ Ordered(f)
              /\ f.oidx < order[f.chan].next \/ f.oidx \in DOMAIN order[f.chan].held
              /\ UNCHANGED <<order, Released>>
           \/ /\ ~Ordered(f)
              /\ UNCHANGED order
              /\ Appends(Released, Released', x)
<1> DEFINE c == f.chan
           q == order[c]
           added == [q EXCEPT !.held = With(@, f.oidx, x)]
           mid == [order EXCEPT ![c] = added]
<1>1. /\ Released \in Seq(Seq(Frame))
      /\ Len(Released) \in Nat
      /\ DOMAIN Released = 1 .. Len(Released)
    BY ReleasedType
<1>2. CASE Ordered(f) /\ f.oidx >= q.next /\ f.oidx \notin DOMAIN q.held
    <2>1. /\ order' = [order EXCEPT ![c] = Flushed(added)]
          /\ ready' = ready \o Run(added)
        BY <1>2 DEF Enqueue
    <2>2. c \in Channel /\ f.oidx \in Nat
        BY <1>2, IndexedFrame DEF Ordered, Indexed
    <2>3. QueueOK(q)
        BY <2>2 DEF OrderOK
    <2>4. added = [next |-> q.next, held |-> With(q.held, f.oidx, x)]
        <3> HIDE DEF q, c
        <3>1. QED
            BY <2>3 DEF QueueOK
    <2>5. QueueOK(added)
        <3>1. IsFiniteSet(DOMAIN q.held \cup {f.oidx})
            BY <2>3, FS_AddElement DEF QueueOK
        <3> HIDE DEF q, added
        <3>2. QED
            BY <2>2, <2>3, <2>4, <3>1 DEF QueueOK, With
    <2>6. /\ mid = [d \in Channel |-> IF d = c THEN added ELSE order[d]]
          /\ QueuesOK(mid)
          /\ mid[c] = added
          /\ \A d \in Channel \ {c} : mid[d] = order[d]
        <3> HIDE DEF q, added
        <3>1. mid = [d \in Channel |-> IF d = c THEN added ELSE order[d]]
            BY <2>2 DEF OrderOK
        <3>2. QED
            BY <2>2, <2>5, <3>1 DEF OrderOK, QueuesOK
    <2>7. Holds(order, mid, c, f.oidx, x)
        <3> HIDE DEF mid, added
        <3>1. QED
            BY <1>2, <2>2, <2>4, <2>6 DEF Holds, With
    <2>8. order' = [mid EXCEPT ![c] = Flushed(mid[c])]
        <3> HIDE DEF added, q
        <3>1. order' = [d \in Channel |-> IF d = c THEN Flushed(added) ELSE order[d]]
            BY <2>1, <2>2 DEF OrderOK
        <3>2. QED
            BY <2>2, <2>6, <3>1
    <2>9. Released' = Released \o Run(mid[c])
        <3>1. Run(added) \in Seq(Seq(Frame))
            BY <2>5, FlushProperties
        <3> HIDE DEF added, mid
        <3>2. delivered \o (ready \o Run(added)) = (delivered \o ready) \o Run(added)
            <4> DEFINE S == Seq(Frame)
                       r == Run(added)
            <4>1. delivered \in Seq(S) /\ ready \in Seq(S) /\ r \in Seq(S)
                BY <3>1 DEF added
            <4> HIDE DEF S, r
            <4>2. delivered \o (ready \o r) = (delivered \o ready) \o r
                BY <4>1, ConcatAssociative
            <4>3. QED
                BY <4>2 DEF r
        <3>3. QED
            BY <2>1, <2>6, <3>2 DEF Released
    <2> HIDE DEF mid, added
    <2>10. Flushes(mid, Released, order', Released', c, Flushed(mid[c]).next)
        BY <1>1, <2>2, <2>6, <2>8, <2>9, FlushMoves
    <2>11. QED
        BY <1>2, <2>6, <2>7, <2>10
<1>3. CASE Ordered(f) /\ ~(f.oidx >= q.next /\ f.oidx \notin DOMAIN q.held)
    <2>1. UNCHANGED <<order, ready>>
        BY <1>3 DEF Enqueue
    <2>2. f.oidx \in Nat /\ c \in Channel
        BY <1>3, IndexedFrame DEF Ordered, Indexed
    <2>3. q.next \in Nat
        BY <2>2 DEF OrderOK, QueueOK
    <2>4. QED
        BY <1>3, <2>1, <2>2, <2>3 DEF Released
<1>4. CASE ~Ordered(f)
    <2>1. ready' = Append(ready, x) /\ order' = order
        BY <1>4 DEF Enqueue
    <2>2. Released' = Append(Released, x)
        BY <2>1 DEF Released
    <2>3. Appends(Released, Released', x)
        BY <1>1, <2>2, AppendProperties DEF Appends
    <2>4. QED
        BY <1>4, <2>1, <2>3
<1>5. QED
    BY <1>2, <1>3, <1>4

\* Channel c jumps past index k.
Jumps(o, o2, c, k) ==
    /\ c \in Channel /\ k \in Nat
    /\ \A d \in Channel \ {c} : o2[d] = o[d]
    /\ o2[c].held = o[c].held
    /\ o2[c].next = IF o[c].next <= k THEN k + 1 ELSE o[c].next

LEMMA ExpireMoves ==
    ASSUME OrderOK, FragsOK, ready \in Seq(Seq(Frame)), delivered \in Seq(Seq(Frame)),
           NEW id \in SplitId, ExpireSet(id), NEW g, g = frags[id].first
    PROVE  \/ /\ Indexed(g)
              /\ \E mid : \E gap :
                     /\ Jumps(order, mid, g.chan, g.oidx)
                     /\ QueuesOK(mid)
                     /\ Flushes(mid, Released, order', Released', g.chan, gap)
           \/ UNCHANGED <<order, Released>>
<1> DEFINE c == g.chan
           q == order[c]
           jumped == [q EXCEPT !.next = IF @ <= g.oidx THEN g.oidx + 1 ELSE @]
           mid == [order EXCEPT ![c] = jumped]
<1>1. delivered' = delivered
    BY DEF ExpireSet
<1>2. CASE Indexed(g)
    <2>1. /\ order' = [order EXCEPT ![c] = Flushed(jumped)]
          /\ ready' = ready \o Run(jumped)
        BY <1>2 DEF ExpireSet
    <2>2. c \in Channel /\ g.oidx \in Nat
        <3>1. g \in Frame
            BY DEF FragsOK, SetOK, ExpireSet
        <3>2. QED
            BY <1>2, <3>1, IndexedFrame
    <2>3. QueueOK(q)
        BY <2>2 DEF OrderOK
    <2>4. jumped = [next |-> IF q.next <= g.oidx THEN g.oidx + 1 ELSE q.next,
                    held |-> q.held]
        <3> HIDE DEF q, c
        <3>1. QED
            BY <2>3 DEF QueueOK
    <2> HIDE DEF jumped
    <2>5. QueueOK(jumped)
        <3> HIDE DEF q, c
        <3>1. QED
            BY <2>2, <2>3, <2>4 DEF QueueOK
    <2>6. /\ mid = [d \in Channel |-> IF d = c THEN jumped ELSE order[d]]
          /\ QueuesOK(mid)
          /\ mid[c] = jumped
          /\ \A d \in Channel \ {c} : mid[d] = order[d]
        <3>1. mid = [d \in Channel |-> IF d = c THEN jumped ELSE order[d]]
            BY <2>2 DEF OrderOK
        <3> HIDE DEF mid
        <3>2. QED
            BY <2>2, <2>5, <3>1 DEF OrderOK, QueuesOK
    <2>7. order' = [mid EXCEPT ![c] = Flushed(mid[c])]
        <3>1. order' = [d \in Channel |-> IF d = c THEN Flushed(jumped) ELSE order[d]]
            BY <2>1, <2>2 DEF OrderOK
        <3> HIDE DEF q, c
        <3>2. QED
            BY <2>2, <2>6, <3>1
    <2> HIDE DEF mid
    <2>8. Jumps(order, mid, c, g.oidx)
        BY <2>2, <2>4, <2>6 DEF Jumps
    <2>9. Released' = Released \o Run(mid[c])
        <3> DEFINE S == Seq(Frame)
                   r == Run(jumped)
        <3>1. delivered \in Seq(S) /\ ready \in Seq(S) /\ r \in Seq(S)
            BY <2>5, FlushProperties
        <3> HIDE DEF S, r
        <3>2. delivered \o (ready \o r) = (delivered \o ready) \o r
            BY <3>1, ConcatAssociative
        <3>3. QED
            BY <1>1, <2>1, <2>6, <3>2 DEF Released, r
    <2>10. Flushes(mid, Released, order', Released', c, Flushed(mid[c]).next)
        BY <2>2, <2>6, <2>7, <2>9, FlushMoves, ReleasedType
    <2>11. QED
        BY <1>2, <2>6, <2>8, <2>10
<1>3. CASE ~Indexed(g)
    BY <1>1, <1>3 DEF ExpireSet, Released
<1>4. QED
    BY <1>2, <1>3

\* When all indices are in bounds, the parts before a part are as many as its
\* index says.
LEMMA RankIsIndex ==
    ASSUME NEW set, SetOK(set), Cardinality(set.parts) = set.size,
           \A f \in set.parts : Split(f).index < set.size, NEW f \in set.parts
    PROVE  Cardinality(Before(set.parts, f)) = Split(f).index
<1> DEFINE n == set.size
           position == [g \in set.parts |-> Split(g).index]
           i == Split(f).index
           B == Before(set.parts, f)
           below == [g \in B |-> Split(g).index]
<1>1. n \in Nat /\ n # 0 /\ i \in Nat /\ i < n /\ IsFiniteSet(set.parts)
    BY RanksTaken DEF SetOK
<1>2. position \in Surjection(set.parts, 0 .. n - 1)
    <2>1. \A g \in set.parts : Split(g).index \in 0 .. n - 1
        BY <1>1 DEF SetOK
    <2>2. position \in Injection(set.parts, 0 .. n - 1)
        BY <2>1 DEF SetOK, Injection, IsInjective
    <2> HIDE DEF position
    <2>3. QED
        BY <1>1, <2>2, Places, FS_Injection
<1>3. \A k \in 0 .. n - 1 : \E g \in set.parts : Split(g).index = k
    BY <1>2 DEF Surjection
<1>4. CASE i = 0
    <2>1. B = {}
        BY <1>4 DEF Before, SetOK
    <2> HIDE DEF B
    <2>2. QED
        BY <1>4, <2>1, FS_EmptySet DEF B
<1>5. CASE i # 0
    <2>1. \A g \in B : g \in set.parts /\ Split(g).index \in 0 .. i - 1
        BY <1>1 DEF Before, SetOK
    <2>2. \A k \in 0 .. i - 1 : \E g \in B : Split(g).index = k
        <3> TAKE k \in 0 .. i - 1
        <3>1. k \in 0 .. n - 1 /\ k < i
            BY <1>1
        <3>2. QED
            BY <1>3, <3>1 DEF Before
    <2>3. IsFiniteSet(B)
        BY <1>1, FS_Subset DEF Before
    <2> HIDE DEF B
    <2>4. below \in Injection(B, 0 .. i - 1) /\ below \in Surjection(B, 0 .. i - 1)
        BY <2>1, <2>2 DEF SetOK, Injection, IsInjective, Surjection
    <2>5. Cardinality(B) = Cardinality(0 .. i - 1)
        <3> HIDE DEF below, i
        <3>1. QED
            BY <2>3, <2>4, FS_Surjection
    <2>6. Cardinality(0 .. i - 1) = i
        <3> HIDE DEF i
        <3>1. QED
            BY <1>1, <1>5, Places
    <2>7. QED
        BY <2>5, <2>6 DEF B
<1>6. QED
    BY <1>4, <1>5

\* collect() returns all the parts in the order of their indices, each at its
\* index when none is out of bounds.
LEMMA AssembledParts ==
    ASSUME NEW set, SetOK(set), Cardinality(set.parts) = set.size
    PROVE  LET x == Assembled(set)
           IN  /\ x \in Seq(Frame)
               /\ x # <<>>
               /\ Len(x) = set.size
               /\ DOMAIN x = 1 .. set.size
               /\ \A p \in DOMAIN x : x[p] \in set.parts
               /\ \A p, q \in DOMAIN x : p < q => Split(x[p]).index < Split(x[q]).index
               /\ \A p, q \in DOMAIN x : x[p] = x[q] => p = q
               /\ (\A f \in set.parts : Split(f).index < set.size)
                      => \A p \in DOMAIN x : Split(x[p]).index = p - 1
               /\ PayloadFrames(x) = set.parts
<1> DEFINE x == Assembled(set)
           rank(f) == Cardinality(Before(set.parts, f))
<1>1. /\ set.size \in Nat /\ set.size # 0
      /\ \A f \in set.parts : rank(f) \in 0 .. set.size - 1
      /\ \A i \in 0 .. set.size - 1 : \E f \in set.parts : rank(f) = i
    BY RanksTaken
<1>2. \A f, g \in set.parts : Split(f).index < Split(g).index <=> rank(f) < rank(g)
    BY RanksGrow
<1>3. x = [k \in 1 .. set.size |-> CHOOSE f \in set.parts : rank(f) = k - 1]
    BY DEF Assembled
<1>4. (\A f \in set.parts : Split(f).index < set.size)
          => \A f \in set.parts : rank(f) = Split(f).index
    BY RankIsIndex
<1> HIDE DEF x, rank
<1>5. \A p \in 1 .. set.size : x[p] \in set.parts /\ rank(x[p]) = p - 1
    <2> TAKE p \in 1 .. set.size
    <2>1. p - 1 \in 0 .. set.size - 1
        BY <1>1
    <2>2. \E f \in set.parts : rank(f) = p - 1
        BY <1>1, <2>1
    <2>3. QED
        BY <1>3, <2>2
<1>6. x \in Seq(Frame) /\ DOMAIN x = 1 .. set.size /\ Len(x) = set.size /\ x # <<>>
    <2>1. x \in Seq(Frame)
        BY AssembledType DEF x
    <2>2. DOMAIN x = 1 .. set.size
        BY <1>3
    <2>3. Len(x) = set.size
        BY <1>1, <2>1, <2>2, LenProperties
    <2>4. x # <<>>
        BY <1>1, <2>3
    <2>5. QED
        BY <2>1, <2>2, <2>3, <2>4
<1>7. ASSUME NEW p \in 1 .. set.size, NEW q \in 1 .. set.size, p < q
      PROVE  Split(x[p]).index < Split(x[q]).index
    <2>1. rank(x[p]) < rank(x[q])
        BY <1>1, <1>5, <1>7
    <2>2. QED
        BY <1>2, <1>5, <2>1
<1>8. ASSUME NEW p \in 1 .. set.size, NEW q \in 1 .. set.size, x[p] = x[q]
      PROVE  p = q
    <2>1. p - 1 = q - 1
        BY <1>5, <1>8
    <2>2. QED
        BY <1>1, <2>1
<1>9. set.parts \subseteq PayloadFrames(x)
    <2> SUFFICES ASSUME NEW f \in set.parts
                 PROVE  f \in PayloadFrames(x)
        OBVIOUS
    <2> DEFINE p == rank(f) + 1
    <2>1. p \in 1 .. set.size /\ p - 1 = rank(f)
        BY <1>1
    <2> HIDE DEF p
    <2>2. x[p] \in set.parts /\ rank(x[p]) = rank(f) /\ rank(f) \in Nat
        BY <1>1, <1>5, <2>1
    <2>3. ~(Split(x[p]).index < Split(f).index) /\ ~(Split(f).index < Split(x[p]).index)
        BY <1>2, <2>2
    <2>4. x[p] = f
        BY <2>2, <2>3 DEF SetOK
    <2>5. QED
        BY <1>6, <2>1, <2>4 DEF PayloadFrames
<1>10. PayloadFrames(x) = set.parts
    BY <1>5, <1>6, <1>9 DEF PayloadFrames
<1>11. (\A f \in set.parts : Split(f).index < set.size)
           => \A p \in DOMAIN x : Split(x[p]).index = p - 1
    BY <1>4, <1>5, <1>6
<1>12. QED
    BY <1>5, <1>6, <1>7, <1>8, <1>10, <1>11 DEF x

\* What FragmentQueue::insert makes of a set: the parts it had and at most f.
LEMMA PartAdded ==
    ASSUME FragsOK, NEW f \in Frame, IsSplit(f)
    PROVE  LET set == WithPart(f)
               id == Split(f).id
           IN  /\ SetOK(set)
               /\ id \in DOMAIN frags =>
                      /\ frags[id].parts \subseteq set.parts
                      /\ set.parts \subseteq frags[id].parts \cup {f}
                      /\ set.size = frags[id].size
               /\ id \notin DOMAIN frags => set.parts = {f} /\ set.size = Split(f).size
<1> DEFINE id == Split(f).id
           set == frags[id]
<1>1. SetOK(WithPart(f))
    BY PartProperties
<1>2. CASE id \notin DOMAIN frags
    <2>1. WithPart(f) = [size |-> Split(f).size, first |-> f, parts |-> {f}, age |-> 0]
        BY <1>2 DEF WithPart
    <2>2. QED
        BY <1>1, <1>2, <2>1
<1>3. CASE id \in DOMAIN frags
    <2>1. SetOK(set)
        BY <1>3 DEF FragsOK
    <2>2. \/ WithPart(f) = set
          \/ WithPart(f) = [set EXCEPT !.parts = @ \cup {f}, !.age = 0]
        BY <1>3 DEF WithPart
    <2> HIDE DEF set
    <2>3. ASSUME WithPart(f) = [set EXCEPT !.parts = @ \cup {f}, !.age = 0]
          PROVE  WithPart(f) = [size |-> set.size, first |-> set.first,
                                parts |-> set.parts \cup {f}, age |-> 0]
        BY <2>1, <2>3 DEF SetOK
    <2>4. /\ set.parts \subseteq WithPart(f).parts
          /\ WithPart(f).parts \subseteq set.parts \cup {f}
          /\ WithPart(f).size = set.size
        BY <2>2, <2>3
    <2>5. QED
        BY <1>1, <1>3, <2>4 DEF set
<1>4. QED
    BY <1>2, <1>3

\* The reliable window lets frame f pass: it did not cover it, now it does.
Admits(f) ==
    /\ f \in Frame
    /\ Reliable(f) => /\ ~(rseeded /\ Covers(rwindow, f.ridx))
                      /\ rseeded' /\ Covers(rwindow', f.ridx)

Remembers ==
    rseeded => rseeded' /\ \A i \in Nat : Covers(rwindow, i) => Covers(rwindow', i)

LEMMA HandleMoves ==
    ASSUME IInv, HandleFrame, NEW f, f = Head(todo)
    PROVE  /\ Remembers
           /\ \/ UNCHANGED <<frags, order, ready>>
              \/ /\ Admits(f)
                 /\ ~IsSplit(f)
                 /\ UNCHANGED frags
                 /\ Enqueue(f, <<f>>)
              \/ /\ Admits(f)
                 /\ IsSplit(f)
                 /\ frags' = With(frags, Split(f).id, WithPart(f))
                 /\ UNCHANGED <<order, ready>>
              \/ /\ Admits(f)
                 /\ IsSplit(f)
                 /\ Cardinality(WithPart(f).parts) = WithPart(f).size
                 /\ frags' = Without(frags, {Split(f).id})
                 /\ Enqueue(f, Assembled(WithPart(f)))
<1> DEFINE rw == IF rseeded THEN rwindow ELSE SeedStart(f.ridx)
           refused == Reliable(f) /\ ~Accepts(rw, ReliableSize, f.ridx)
<1>1. f \in Frame
    BY DEF HandleFrame, IInv, TypeInv, FlowOK
<1>2. /\ rseeded' = (rseeded \/ Reliable(f))
      /\ rwindow' = IF Reliable(f) /\ ~refused THEN InsertIndex(rw, f.ridx) ELSE rwindow
    BY DEF HandleFrame
<1>3. ASSUME Reliable(f)
      PROVE  /\ WindowOK(rw, ReliableSize)
             /\ f.ridx \in Nat
    BY <1>1, <1>3, RecvAssumption, SizesAreNatural
    DEF IInv, TypeInv, WindowsOK, SeedStart, WindowOK, FrameOK
<1>4. ASSUME Reliable(f), ~refused
      PROVE  /\ \A k \in Nat : Covers(InsertIndex(rw, f.ridx), k) <=> Covers(rw, k) \/ k = f.ridx
             /\ ~Covers(rw, f.ridx)
             /\ rwindow' = InsertIndex(rw, f.ridx)
    <2>1. Accepts(rw, ReliableSize, f.ridx)
        BY <1>4
    <2>2. \A k \in Nat : Covers(InsertIndex(rw, f.ridx), k) <=> Covers(rw, k) \/ k = f.ridx
        BY <1>3, <1>4, <2>1, InsertProperties, SizesAreNatural
    <2>3. ~Covers(rw, f.ridx)
        BY <1>3, <1>4, <2>1 DEF Accepts, Covers, WindowOK, High
    <2>4. QED
        BY <1>2, <1>4, <2>2, <2>3
<1>5. rseeded' <=> rseeded \/ Reliable(f)
    BY <1>2, Zenon
<1>6. Remembers
    <2>1. CASE Reliable(f) /\ ~refused
        BY <1>4, <1>5, <2>1 DEF Remembers
    <2>2. CASE ~(Reliable(f) /\ ~refused)
        BY <1>2, <1>5, <2>2 DEF Remembers
    <2>3. QED
        BY <2>1, <2>2
<1>7. CASE refused
    BY <1>6, <1>7 DEF HandleFrame
<1>8. CASE ~refused
    <2>1. Admits(f)
        <3> SUFFICES ASSUME Reliable(f)
                     PROVE  /\ ~(rseeded /\ Covers(rwindow, f.ridx))
                            /\ rseeded' /\ Covers(rwindow', f.ridx)
            BY <1>1 DEF Admits
        <3>1. /\ \A k \in Nat : Covers(rwindow', k) <=> Covers(rw, k) \/ k = f.ridx
              /\ ~Covers(rw, f.ridx)
              /\ f.ridx \in Nat
            BY <1>3, <1>4, <1>8
        <3>2. Covers(rwindow', f.ridx)
            BY <3>1
        <3>3. ~(rseeded /\ Covers(rwindow, f.ridx))
            BY <3>1
        <3>4. QED
            BY <1>5, <3>2, <3>3
    <2>2. CASE IsSplit(f)
        <3>1. HandleSplit(f)
            BY <1>8, <2>2 DEF HandleFrame
        <3>2. QED
            BY <1>6, <2>1, <2>2, <3>1 DEF HandleSplit
    <2>3. CASE ~IsSplit(f)
        <3>1. Enqueue(f, <<f>>) /\ UNCHANGED frags
            BY <1>8, <2>3 DEF HandleFrame
        <3>2. QED
            BY <1>6, <2>1, <2>3, <3>1
    <2>4. QED
        BY <2>2, <2>3
<1>9. QED
    BY <1>7, <1>8

----------------------------------------------------------------------------
(* Each reliable frame once. *)

PartsOfSet == \A id \in DOMAIN frags : \A f \in frags[id].parts : Split(f).id = id

\* A reliable frame is in one split packet or one payload.
PartsOnce ==
    \A id \in DOMAIN frags : \A f \in frags[id].parts :
        /\ \A jd \in DOMAIN frags : \A g \in frags[jd].parts : Same(f, g) => f = g
        /\ \A g \in Taken(order, Released) : ~Same(f, g)

\* The reliable window covers every reliable frame that is in the queue.
Handled ==
    /\ \A f \in Taken(order, Released) :
           Reliable(f) => rseeded /\ Covers(rwindow, f.ridx)
    /\ \A id \in DOMAIN frags : \A f \in frags[id].parts :
           Reliable(f) => rseeded /\ Covers(rwindow, f.ridx)

OnceInv == EachOnce(order, Released) /\ PartsOfSet /\ PartsOnce /\ Handled

LEMMA TakenFrames ==
    ASSUME OrderOK, Released \in Seq(Seq(Frame))
    PROVE  Taken(order, Released) \subseteq Frame
<1> SUFFICES ASSUME NEW f \in Taken(order, Released)
             PROVE  f \in Frame
    OBVIOUS
<1>1. ASSUME NEW c \in Channel, NEW k \in DOMAIN order[c].held,
             NEW p \in DOMAIN order[c].held[k]
      PROVE  order[c].held[k][p] \in Frame
    <2>1. order[c].held[k] \in Seq(Frame)
        BY DEF OrderOK, QueueOK
    <2>2. QED
        BY <2>1
<1>2. ASSUME NEW i \in DOMAIN Released, NEW p \in DOMAIN Released[i]
      PROVE  Released[i][p] \in Frame
    <2>1. Released[i] \in Seq(Frame)
        OBVIOUS
    <2>2. QED
        BY <2>1
<1>3. QED
    BY <1>1, <1>2, TakenFrame

\* A frame that the window lets pass is not in the queue yet.
LEMMA AdmittedIsNew ==
    ASSUME Handled, NEW f, Admits(f)
    PROVE  /\ \A g \in Taken(order, Released) : ~Same(f, g)
           /\ \A id \in DOMAIN frags : \A g \in frags[id].parts : ~Same(f, g) /\ ~Same(g, f)
BY DEF Handled, Admits, Same

\* Putting a new payload on its channel, or releasing it.
LEMMA EnqueueOnce ==
    ASSUME IInv, delivered' = delivered, EachOnce(order, Released),
           NEW f \in Frame, NEW x \in Seq(Frame), Enqueue(f, x),
           OnceIn(x), Fresh(x, order, Released)
    PROVE  /\ EachOnce(order', Released')
           /\ Taken(order', Released') \subseteq Taken(order, Released) \cup PayloadFrames(x)
<1>1. /\ OrderOK /\ ready \in Seq(Seq(Frame)) /\ delivered \in Seq(Seq(Frame))
      /\ Len(Released) \in Nat
      /\ DOMAIN Released = 1 .. Len(Released)
    BY ReleasedType DEF IInv, TypeInv, FlowOK
<1>2. CASE \E mid : \E gap :
               /\ Holds(order, mid, f.chan, f.oidx, x)
               /\ QueuesOK(mid)
               /\ Flushes(mid, Released, order', Released', f.chan, gap)
    <2> PICK mid : \E gap :
               /\ Holds(order, mid, f.chan, f.oidx, x)
               /\ QueuesOK(mid)
               /\ Flushes(mid, Released, order', Released', f.chan, gap)
        BY <1>2
    <2> PICK gap :
               /\ Holds(order, mid, f.chan, f.oidx, x)
               /\ QueuesOK(mid)
               /\ Flushes(mid, Released, order', Released', f.chan, gap)
        OBVIOUS
    <2>1. /\ EachOnce(mid, Released)
          /\ Taken(mid, Released) = Taken(order, Released) \cup PayloadFrames(x)
        BY HoldOnce
    <2>2. /\ EachOnce(order', Released')
          /\ Taken(order', Released') = Taken(mid, Released)
        BY <1>1, <2>1, FlushOnce
    <2>3. QED
        BY <2>1, <2>2
<1>3. CASE UNCHANGED <<order, Released>>
    BY <1>3
<1>4. CASE UNCHANGED order /\ Appends(Released, Released', x)
    <2>1. /\ EachOnce(order, Released')
          /\ Taken(order, Released') = Taken(order, Released) \cup PayloadFrames(x)
        BY <1>1, <1>4, AppendOnce
    <2>2. QED
        BY <1>4, <2>1
<1>5. QED
    BY <1>1, <1>2, <1>3, <1>4, EnqueueMoves

\* Steps that move no frame.
SameParts ==
    /\ DOMAIN frags' = DOMAIN frags
    /\ \A id \in DOMAIN frags : /\ frags'[id].parts = frags[id].parts
                                /\ frags'[id].size = frags[id].size

Quiet == SameParts /\ UNCHANGED <<order, Released, rseeded, rwindow>>

LEMMA QuietSteps ==
    ASSUME IInv, [RecvNext]_recvVars,
           ~HandleFrame, ~(\E id \in SplitId : ExpireSet(id))
    PROVE  Quiet
<1>1. CASE \E d \in Datagram : InsertDatagram(d)
    BY <1>1 DEF InsertDatagram, Quiet, SameParts, Released
<1>2. CASE Flush
    <2>1. delivered \o ready \in Seq(Seq(Frame))
        BY ConcatProperties DEF IInv, TypeInv, FlowOK
    <2>2. (delivered \o ready) \o <<>> = delivered \o ready
        BY <2>1, ConcatEmptySeq
    <2>3. QED
        BY <1>2, <2>2 DEF Flush, Quiet, SameParts, Released
<1>3. CASE TickAcks
    BY <1>3 DEF TickAcks, Quiet, SameParts, Released
<1>4. CASE TickNacks
    BY <1>4 DEF TickNacks, Quiet, SameParts, Released
<1>5. CASE ClockTick
    <2>1. \A id \in DOMAIN frags : /\ frags'[id].parts = frags[id].parts
                                   /\ frags'[id].size = frags[id].size
        <3> TAKE id \in DOMAIN frags
        <3>1. SetOK(frags[id])
            BY DEF IInv, TypeInv, FragsOK
        <3>2. frags'[id] = [frags[id] EXCEPT !.age = Capped(@, StaleSeconds + 1)]
            BY <1>5 DEF ClockTick
        <3>3. QED
            BY <3>1, <3>2 DEF SetOK
    <2>2. QED
        BY <1>5, <2>1 DEF ClockTick, Quiet, SameParts, Released
<1>6. CASE UNCHANGED recvVars
    BY <1>6 DEF recvVars, Quiet, SameParts, Released
<1>7. QED
    BY <1>1, <1>2, <1>3, <1>4, <1>5, <1>6 DEF RecvNext

LEMMA QuietOnce ==
    ASSUME OnceInv, Quiet
    PROVE  OnceInv'
BY DEF OnceInv, Quiet, SameParts, PartsOfSet, PartsOnce, Handled

\* The frames the queue has seen, the ones insert() is about to handle included.
Seen ==
    {todo[k] : k \in DOMAIN todo}
    \cup (UNION {frags[id].parts : id \in DOMAIN frags})
    \cup Taken(order, Released)

LEMMA SeenFrames ==
    ASSUME IInv
    PROVE  /\ Seen \subseteq Frame
           /\ \A id \in DOMAIN frags : \A f \in frags[id].parts : f \in Seen
           /\ \A f \in Taken(order, Released) : f \in Seen
           /\ HandleFrame => Head(todo) \in Seen
<1>1. /\ todo \in Seq(Frame) /\ FragsOK /\ OrderOK
      /\ Released \in Seq(Seq(Frame))
    BY ReleasedType DEF IInv, TypeInv, FlowOK
<1>2. Taken(order, Released) \subseteq Frame
    BY <1>1, TakenFrames
<1>3. \A id \in DOMAIN frags : \A f \in frags[id].parts : f \in Frame /\ f \in Seen
    BY <1>1, Zenon DEF FragsOK, SetOK, Seen
<1>4. \A k \in DOMAIN todo : todo[k] \in Frame /\ todo[k] \in Seen
    <2>1. \A k \in DOMAIN todo : todo[k] \in Frame
        BY <1>1
    <2>2. QED
        BY <2>1, Zenon DEF Seen
<1>5. HandleFrame => Head(todo) \in Seen
    <2>1. HandleFrame => 1 \in DOMAIN todo /\ Head(todo) = todo[1]
        BY <1>1 DEF HandleFrame
    <2>2. QED
        BY <1>4, <2>1
<1>6. Seen \subseteq Frame
    <2> SUFFICES ASSUME NEW f \in Seen
                 PROVE  f \in Frame
        OBVIOUS
    <2>1. \/ \E k \in DOMAIN todo : f = todo[k]
          \/ \E id \in DOMAIN frags : f \in frags[id].parts
          \/ f \in Taken(order, Released)
        BY Zenon DEF Seen
    <2>2. QED
        BY <1>2, <1>3, <1>4, <2>1
<1>7. \A f \in Taken(order, Released) : f \in Seen
    BY Zenon DEF Seen
<1>8. QED
    BY <1>3, <1>5, <1>6, <1>7

\* What is in split packets and payloads after a step was seen before it.
NothingNew ==
    /\ \A g \in Taken(order', Released') : g \in Seen
    /\ \A id \in DOMAIN frags' : \A g \in frags'[id].parts : g \in Seen

\* The frames of a step go where they were, or they are the one it handles.
LEMMA HandleFrameOnce ==
    ASSUME IInv, OnceInv, HandleFrame
    PROVE  OnceInv' /\ NothingNew
<1> DEFINE f == Head(todo)
           id == Split(f).id
           set == WithPart(f)
<1>1. /\ FragsOK
      /\ delivered' = delivered
      /\ f \in Frame
      /\ Taken(order, Released) \subseteq Frame
      /\ EachOnce(order, Released) /\ PartsOfSet /\ PartsOnce /\ Handled
    BY ReleasedType, TakenFrames DEF HandleFrame, IInv, TypeInv, FlowOK, OnceInv
<1>2. Remembers
    BY HandleMoves
<1>3. \A g \in Frame : Reliable(g) => g.ridx \in Nat
    BY RecvAssumption DEF FrameOK
<1>4. \A jd \in DOMAIN frags : frags[jd].parts \subseteq Frame
    BY <1>1 DEF FragsOK, SetOK
<1>10. /\ f \in Seen
       /\ \A g \in Taken(order, Released) : g \in Seen
       /\ \A jd \in DOMAIN frags : \A g \in frags[jd].parts : g \in Seen
    BY SeenFrames
<1>5. CASE UNCHANGED <<frags, order, ready>>
    <2>1. UNCHANGED Released
        BY <1>1, <1>5 DEF Released
    <2>2. Handled'
        BY <1>1, <1>2, <1>3, <1>4, <1>5, <2>1 DEF Handled, Remembers
    <2>3. NothingNew
        BY <1>5, <1>10, <2>1 DEF NothingNew
    <2>4. QED
        BY <1>1, <1>5, <2>1, <2>2, <2>3 DEF OnceInv, PartsOfSet, PartsOnce
<1>6. CASE Admits(f) /\ ~IsSplit(f) /\ UNCHANGED frags /\ Enqueue(f, <<f>>)
    <2>1. /\ <<f>> \in Seq(Frame)
          /\ OnceIn(<<f>>)
          /\ Fresh(<<f>>, order, Released)
          /\ PayloadFrames(<<f>>) = {f}
        <3> HIDE DEF f
        <3>1. \A g \in Taken(order, Released) : ~Same(f, g)
            BY <1>1, <1>6, AdmittedIsNew
        <3>2. QED
            BY <1>1, <3>1 DEF OnceIn, Fresh, PayloadFrames
    <2>2. /\ EachOnce(order', Released')
          /\ Taken(order', Released') \subseteq Taken(order, Released) \cup {f}
        BY <1>1, <1>6, <2>1, EnqueueOnce
    <2>3. PartsOnce'
        <3>1. \A jd \in DOMAIN frags : \A g \in frags[jd].parts : ~Same(g, f)
            BY <1>1, <1>6, AdmittedIsNew
        <3>2. QED
            BY <1>1, <1>6, <2>2, <3>1 DEF PartsOnce
    <2>4. Handled'
        <3> HIDE DEF f
        <3>1. QED
            BY <1>1, <1>2, <1>3, <1>4, <1>6, <2>2 DEF Handled, Remembers, Admits
    <2>5. NothingNew
        BY <1>6, <1>10, <2>2 DEF NothingNew
    <2>6. QED
        BY <1>1, <1>6, <2>2, <2>3, <2>4, <2>5 DEF OnceInv, PartsOfSet
<1>7. CASE /\ Admits(f) /\ IsSplit(f)
           /\ frags' = With(frags, id, set)
           /\ UNCHANGED <<order, ready>>
    <2>1. UNCHANGED Released
        BY <1>1, <1>7 DEF Released
    <2>2. /\ id \in DOMAIN frags => set.parts \subseteq frags[id].parts \cup {f}
          /\ id \notin DOMAIN frags => set.parts = {f}
        BY <1>1, <1>7, PartAdded
    <2>3. /\ \A g \in Taken(order, Released) : ~Same(f, g)
          /\ \A jd \in DOMAIN frags : \A g \in frags[jd].parts : ~Same(f, g) /\ ~Same(g, f)
        BY <1>1, <1>7, AdmittedIsNew
    <2>4. /\ DOMAIN frags' = DOMAIN frags \cup {id}
          /\ frags'[id] = set
          /\ \A jd \in DOMAIN frags \ {id} : frags'[jd] = frags[jd]
        BY <1>7 DEF With
    <2> HIDE DEF f, set
    <2>5. \A jd \in DOMAIN frags' : \A g \in frags'[jd].parts :
              \/ jd = id /\ g = f
              \/ jd \in DOMAIN frags /\ g \in frags[jd].parts
        BY <2>2, <2>4
    <2>6. PartsOfSet'
        BY <1>1, <2>5 DEF PartsOfSet
    <2>7. PartsOnce'
        BY <1>1, <1>7, <2>1, <2>3, <2>5 DEF PartsOnce
    <2>8. Handled'
        BY <1>1, <1>2, <1>3, <1>4, <1>7, <2>1, <2>5 DEF Handled, Remembers, Admits
    <2>9. NothingNew
        BY <1>7, <1>10, <2>1, <2>5 DEF NothingNew
    <2>10. QED
        BY <1>1, <1>7, <2>1, <2>6, <2>7, <2>8, <2>9 DEF OnceInv
<1>8. CASE /\ Admits(f) /\ IsSplit(f)
           /\ Cardinality(set.parts) = set.size
           /\ frags' = Without(frags, {id})
           /\ Enqueue(f, Assembled(set))
    <2> DEFINE x == Assembled(set)
    <2>1. /\ SetOK(set)
          /\ id \in DOMAIN frags => set.parts \subseteq frags[id].parts \cup {f}
          /\ id \notin DOMAIN frags => set.parts = {f}
        BY <1>1, <1>8, PartAdded
    <2>2. /\ x \in Seq(Frame)
          /\ \A p \in DOMAIN x : x[p] \in set.parts
          /\ \A p, q \in DOMAIN x : x[p] = x[q] => p = q
          /\ DOMAIN x = 1 .. set.size
          /\ PayloadFrames(x) = set.parts
        BY <1>8, <2>1, AssembledParts
    <2>3. /\ \A g \in Taken(order, Released) : ~Same(f, g)
          /\ \A jd \in DOMAIN frags : \A g \in frags[jd].parts : ~Same(f, g) /\ ~Same(g, f)
        BY <1>1, <1>8, AdmittedIsNew
    <2>4. \A g \in set.parts : g = f \/ (id \in DOMAIN frags /\ g \in frags[id].parts)
        BY <2>1
    <2>5. Enqueue(f, x)
        BY <1>8
    <2>6. /\ DOMAIN frags' = DOMAIN frags \ {id}
          /\ \A jd \in DOMAIN frags' : frags'[jd] = frags[jd]
        BY <1>8 DEF Without
    <2> HIDE DEF f, set, x
    <2>7. \A g, h \in set.parts : Same(g, h) => g = h
        BY <1>1, <2>3, <2>4 DEF PartsOnce
    <2>8. OnceIn(x)
        <3> SUFFICES ASSUME NEW p \in DOMAIN x, NEW q \in DOMAIN x, Same(x[p], x[q])
                     PROVE  p = q
            BY DEF OnceIn
        <3>1. x[p] = x[q]
            BY <2>2, <2>7
        <3>2. QED
            BY <2>2, <3>1
    <2>9. Fresh(x, order, Released)
        BY <1>1, <2>2, <2>3, <2>4 DEF Fresh, PartsOnce
    <2>10. /\ EachOnce(order', Released')
           /\ Taken(order', Released') \subseteq Taken(order, Released) \cup set.parts
        BY <1>1, <2>2, <2>5, <2>8, <2>9, EnqueueOnce
    <2>11. PartsOfSet'
        BY <1>1, <2>6 DEF PartsOfSet
    <2>12. \A jd \in DOMAIN frags' : \A g \in frags'[jd].parts, h \in set.parts : ~Same(g, h)
        <3> SUFFICES ASSUME NEW jd \in DOMAIN frags', NEW g \in frags'[jd].parts,
                            NEW h \in set.parts, Same(g, h)
                     PROVE  FALSE
            OBVIOUS
        <3>1. /\ jd \in DOMAIN frags /\ jd # id
              /\ g \in frags[jd].parts
            BY <2>6
        <3>2. h # f
            BY <2>3, <3>1
        <3>3. id \in DOMAIN frags /\ h \in frags[id].parts
            BY <2>4, <3>2
        <3>4. g = h
            BY <1>1, <3>1, <3>3 DEF PartsOnce
        <3>5. QED
            BY <1>1, <3>1, <3>3, <3>4 DEF PartsOfSet
    <2>13. PartsOnce'
        BY <1>1, <2>6, <2>10, <2>12 DEF PartsOnce
    <2>14. Handled'
        <3>1. \A g \in set.parts : Reliable(g) => rseeded' /\ Covers(rwindow', g.ridx)
            BY <1>1, <1>2, <1>3, <1>4, <1>8, <2>4 DEF Handled, Remembers, Admits
        <3>2. QED
            BY <1>1, <1>2, <1>3, <1>4, <2>6, <2>10, <3>1 DEF Handled, Remembers
    <2>15. NothingNew
        BY <1>10, <2>4, <2>6, <2>10 DEF NothingNew
    <2>16. QED
        BY <2>10, <2>11, <2>13, <2>14, <2>15 DEF OnceInv
<1>9. QED
    BY <1>5, <1>6, <1>7, <1>8, HandleMoves

\* A stale split packet leaves, and its channel may release what it holds.
LEMMA ExpireOnce ==
    ASSUME IInv, OnceInv, NEW id \in SplitId, ExpireSet(id)
    PROVE  OnceInv' /\ NothingNew
<1> DEFINE g == frags[id].first
<1>1. /\ FragsOK /\ OrderOK
      /\ ready \in Seq(Seq(Frame)) /\ delivered \in Seq(Seq(Frame))
      /\ Len(Released) \in Nat
      /\ DOMAIN Released = 1 .. Len(Released)
      /\ EachOnce(order, Released)
    BY ReleasedType DEF IInv, TypeInv, FlowOK, OnceInv
<1>2. /\ frags' = Without(frags, {id})
      /\ UNCHANGED <<rseeded, rwindow>>
    BY DEF ExpireSet
<1>3. EachOnce(order', Released') /\ Taken(order', Released') = Taken(order, Released)
    <2>1. CASE \E mid : \E gap :
                   /\ Jumps(order, mid, g.chan, g.oidx)
                   /\ QueuesOK(mid)
                   /\ Flushes(mid, Released, order', Released', g.chan, gap)
        <3> PICK mid : \E gap :
                   /\ Jumps(order, mid, g.chan, g.oidx)
                   /\ QueuesOK(mid)
                   /\ Flushes(mid, Released, order', Released', g.chan, gap)
            BY <2>1
        <3> PICK gap :
                   /\ Jumps(order, mid, g.chan, g.oidx)
                   /\ QueuesOK(mid)
                   /\ Flushes(mid, Released, order', Released', g.chan, gap)
            OBVIOUS
        <3>1. \A c \in Channel : mid[c].held = order[c].held
            BY DEF Jumps
        <3>2. EachOnce(mid, Released)
            BY <1>1, <3>1 DEF EachOnce
        <3>3. \A f : f \in Taken(mid, Released) <=> f \in Taken(order, Released)
            BY <3>1, TakenFrame
        <3>4. /\ EachOnce(order', Released')
              /\ Taken(order', Released') = Taken(mid, Released)
            BY <1>1, <3>2, FlushOnce
        <3>5. QED
            BY <3>3, <3>4
    <2>2. CASE UNCHANGED <<order, Released>>
        BY <1>1, <2>2
    <2>3. QED
        BY <1>1, <2>1, <2>2, ExpireMoves
<1>4. /\ DOMAIN frags' = DOMAIN frags \ {id}
      /\ \A jd \in DOMAIN frags' : frags'[jd] = frags[jd]
    BY <1>2 DEF Without
<1>5. PartsOfSet' /\ PartsOnce'
    BY <1>3, <1>4 DEF OnceInv, PartsOfSet, PartsOnce
<1>6. Handled'
    BY <1>2, <1>3, <1>4 DEF OnceInv, Handled
<1>7. NothingNew
    BY <1>3, <1>4, SeenFrames DEF NothingNew
<1>8. QED
    BY <1>3, <1>5, <1>6, <1>7 DEF OnceInv

\* Frames come in with the datagrams, in no other way.
LEMMA StepSeen ==
    ASSUME IInv, OnceInv, [RecvNext]_recvVars, NEW g \in Seen'
    PROVE  \/ g \in Seen
           \/ /\ \E d \in Datagram : InsertDatagram(d)
              /\ \E k \in DOMAIN todo' : g = todo'[k]
<1>1. \/ \E k \in DOMAIN todo' : g = todo'[k]
      \/ \E id \in DOMAIN frags' : g \in frags'[id].parts
      \/ g \in Taken(order', Released')
    BY Zenon DEF Seen
<1>2. \A k \in DOMAIN todo : todo[k] \in Seen
    BY Zenon DEF Seen
<1>3. CASE HandleFrame
    <2>1. \A k \in DOMAIN todo' : todo'[k] \in Seen
        <3>1. todo \in Seq(Frame) /\ todo # <<>> /\ todo' = Tail(todo)
            BY <1>3 DEF HandleFrame, IInv, TypeInv, FlowOK
        <3>2. \A k \in DOMAIN todo' : k + 1 \in DOMAIN todo /\ todo'[k] = todo[k + 1]
            BY <3>1
        <3>3. QED
            BY <1>2, <3>2
    <2>2. NothingNew
        BY <1>3, HandleFrameOnce
    <2>3. QED
        BY <1>1, <2>1, <2>2 DEF NothingNew
<1>4. CASE \E id \in SplitId : ExpireSet(id)
    <2>1. NothingNew /\ todo' = todo
        BY <1>4, ExpireOnce DEF ExpireSet
    <2>2. QED
        BY <1>1, <1>2, <2>1 DEF NothingNew
<1>5. CASE ~HandleFrame /\ ~(\E id \in SplitId : ExpireSet(id))
    <2>1. NothingNew
        <3>1. SameParts /\ order' = order /\ Released' = Released
            BY <1>5, QuietSteps DEF Quiet
        <3>2. QED
            BY <3>1, SeenFrames DEF SameParts, NothingNew
    <2>2. CASE \E d \in Datagram : InsertDatagram(d)
        BY <1>1, <2>1, <2>2 DEF NothingNew
    <2>3. CASE ~(\E d \in Datagram : InsertDatagram(d))
        <3>1. todo' = todo
            BY <1>5, <2>3 DEF RecvNext, recvVars, Flush, TickAcks, TickNacks, ClockTick
        <3>2. QED
            BY <1>1, <1>2, <2>1, <3>1 DEF NothingNew
    <2>4. QED
        BY <2>2, <2>3
<1>6. QED
    BY <1>3, <1>4, <1>5

LEMMA InitOnce == RecvInit => OnceInv
<1> SUFFICES ASSUME RecvInit
             PROVE  OnceInv
    OBVIOUS
<1>1. /\ frags = <<>>
      /\ \A c \in Channel : DOMAIN order[c].held = {}
      /\ Released = <<>>
    BY DEF RecvInit, Released
<1>2. DOMAIN frags = {} /\ DOMAIN Released = {}
    BY <1>1
<1>3. \A f : f \notin Taken(order, Released)
    BY <1>1, <1>2, TakenFrame
<1>4. QED
    BY <1>1, <1>2, <1>3 DEF OnceInv, EachOnce, PartsOfSet, PartsOnce, Handled

LEMMA StepOnce ==
    ASSUME IInv, OnceInv, [RecvNext]_recvVars
    PROVE  OnceInv'
<1>1. CASE HandleFrame
    BY <1>1, HandleFrameOnce
<1>2. CASE \E id \in SplitId : ExpireSet(id)
    BY <1>2, ExpireOnce
<1>3. CASE ~HandleFrame /\ ~(\E id \in SplitId : ExpireSet(id))
    BY <1>3, QuietSteps, QuietOnce
<1>4. QED
    BY <1>1, <1>2, <1>3

THEOREM OnceInvariance == RecvSpec => [](IInv /\ OnceInv)
<1>1. RecvInit => OnceInv
    BY InitOnce
<1>2. IInv /\ OnceInv /\ [RecvNext]_recvVars => OnceInv'
    BY StepOnce
<1>3. QED
    BY <1>1, <1>2, Invariance, PTL DEF RecvSpec

\* A reliable frame contributes to at most one payload, once, however often
\* and in whatever order datagrams arrive, packets are split, payloads held
\* back and ticks expire (the reliable window of handle_frame).
THEOREM ReliableFramesOnce == RecvSpec => []ReliableOnce
<1>1. IInv /\ OnceInv => ReliableOnce
    BY DEF OnceInv, EachOnce, OnceIn, Apart, Same, ReliableOnce
<1>2. QED
    BY <1>1, OnceInvariance, PTL

----------------------------------------------------------------------------
(* Whole payloads in their order, from a peer that numbers its packets.    *)

SizesAgree ==
    \A id \in DOMAIN frags : \A f \in frags[id].parts : Split(f).size = frags[id].size

\* What is still being put together is not held on its channel already.
NotHeldYet ==
    \A id \in DOMAIN frags : \A f \in frags[id].parts :
        Ordered(f) => f.oidx \notin DOMAIN order[f.chan].held

TurnInv == InTurn(order, Released) /\ SizesAgree /\ NotHeldYet

\* A frame that the window lets pass has no payload waiting at its index.
LEMMA NewNotHeld ==
    ASSUME Numbered(Seen), IInv, OnceInv, TurnInv, NEW f \in Seen, Admits(f), Ordered(f)
    PROVE  f.oidx \notin DOMAIN order[f.chan].held
<1> DEFINE c == f.chan
           k == f.oidx
           x == order[c].held[k]
           g == x[1]
<1> SUFFICES ASSUME k \in DOMAIN order[c].held
             PROVE  FALSE
    OBVIOUS
<1>1. f \in Frame /\ Reliable(f) /\ c \in Channel
    BY IndexedFrame DEF Admits, Ordered, Reliable, Indexed
<1>2. \A h \in Taken(order, Released) : h # f
    <2>1. \A h \in Taken(order, Released) : ~Same(f, h)
        BY AdmittedIsNew DEF OnceInv
    <2>2. QED
        BY <1>1, <2>1 DEF Same
<1>3. \A p \in DOMAIN x : x[p] # f /\ x[p] \in Seen
    <2>1. \A p \in DOMAIN x : x[p] \in Taken(order, Released)
        BY <1>1, TakenFrame
    <2>2. \A h \in Taken(order, Released) : h \in Seen
        BY Zenon DEF Seen
    <2>3. QED
        BY <1>2, <2>1, <2>2
<1>4. x \in Seq(Frame) /\ x # <<>>
    BY <1>1 DEF IInv, TypeInv, OrderOK, QueueOK, TurnInv, InTurn
<1>5. /\ Whole(x)
      /\ \A p \in DOMAIN x : Turn(x[p], c, k)
    BY <1>1 DEF TurnInv, InTurn
<1>6. DOMAIN x = 1 .. Len(x) /\ Len(x) \in Nat /\ 1 \in DOMAIN x /\ g \in Frame
    BY <1>4
<1>7. SameTurn(f, g)
    BY <1>5, <1>6 DEF SameTurn, Turn
<1> HIDE DEF x
<1>8. SamePacket(f, g)
    BY <1>1, <1>3, <1>6, <1>7 DEF Numbered
<1>9. /\ IsSplit(f) /\ IsSplit(g)
      /\ Split(f).id = Split(g).id
      /\ Split(f).size = Split(g).size
      /\ Split(f).index < Split(f).size
    BY <1>1, <1>3, <1>6, <1>8 DEF SamePacket, Numbered
<1>10. \A p \in DOMAIN x :
           /\ IsSplit(x[p])
           /\ Split(x[p]).id = Split(g).id
           /\ Split(x[p]).size = Len(x)
           /\ Split(x[p]).index = p - 1
    <2>1. \A p \in DOMAIN x : /\ IsSplit(x[p])
                              /\ Split(x[p]).id = Split(g).id
                              /\ Split(x[p]).size = Len(x)
        BY <1>5, <1>9 DEF Whole
    <2>2. \A p \in DOMAIN x : FrameOK(x[p]) /\ Split(x[p]).index < Len(x)
        BY <1>3, <1>4, <1>6, <2>1, RecvAssumption DEF Numbered
    <2>3. \A p \in DOMAIN x : ~(Split(x[p]).index >= Len(x))
        BY <1>6, <2>1, <2>2 DEF FrameOK
    <2>4. QED
        BY <1>5, <1>9, <2>1, <2>3 DEF Whole
<1> DEFINE p == Split(f).index + 1
<1>11. /\ Split(f).index \in Nat
       /\ Split(f).index < Len(x)
    <2>1. Split(g).size = Len(x)
        BY <1>6, <1>10
    <2>2. FrameOK(f)
        BY <1>1, RecvAssumption
    <2>3. QED
        BY <1>9, <2>1, <2>2 DEF FrameOK
<1>12. p \in DOMAIN x /\ p - 1 = Split(f).index
    BY <1>6, <1>11
<1> HIDE DEF p
<1>13. SamePacket(f, x[p]) /\ Split(x[p]).index = Split(f).index /\ x[p] \in Frame
    BY <1>4, <1>9, <1>10, <1>12 DEF SamePacket
<1>14. x[p] = f
    BY <1>1, <1>3, <1>12, <1>13 DEF Numbered
<1>15. QED
    BY <1>3, <1>12, <1>14

\* Parts of one packet have one reliability and one place on one channel.
LEMMA PartsAgree ==
    ASSUME NEW F, Numbered(F), NEW f \in F, NEW g \in F, SamePacket(f, g)
    PROVE  /\ Split(f).size = Split(g).size
           /\ Ordered(f) <=> Ordered(g)
           /\ Ordered(f) => f.chan = g.chan /\ f.oidx = g.oidx
BY DEF Numbered, Ordered, Indexed

LEMMA EnqueueInTurn ==
    ASSUME IInv, delivered' = delivered, InTurn(order, Released),
           NEW f \in Frame, NEW x \in Seq(Frame), Enqueue(f, x), x # <<>>, Whole(x),
           Ordered(f) => \A p \in DOMAIN x : Turn(x[p], f.chan, f.oidx),
           ~Ordered(f) => ~Ordered(x[1])
    PROVE  /\ InTurn(order', Released')
           /\ Extends(Released, Released')
           /\ \A c \in Channel : \A k \in DOMAIN order'[c].held :
                  \/ k \in DOMAIN order[c].held
                  \/ Ordered(f) /\ c = f.chan /\ k = f.oidx
<1>1. /\ OrderOK /\ ready \in Seq(Seq(Frame)) /\ delivered \in Seq(Seq(Frame))
      /\ Len(Released) \in Nat
      /\ DOMAIN Released = 1 .. Len(Released)
    BY ReleasedType DEF IInv, TypeInv, FlowOK
<1>2. CASE /\ Ordered(f)
           /\ \E mid : \E gap :
               /\ Holds(order, mid, f.chan, f.oidx, x)
               /\ QueuesOK(mid)
               /\ Flushes(mid, Released, order', Released', f.chan, gap)
    <2> PICK mid : \E gap :
               /\ Holds(order, mid, f.chan, f.oidx, x)
               /\ QueuesOK(mid)
               /\ Flushes(mid, Released, order', Released', f.chan, gap)
        BY <1>2
    <2> PICK gap :
               /\ Holds(order, mid, f.chan, f.oidx, x)
               /\ QueuesOK(mid)
               /\ Flushes(mid, Released, order', Released', f.chan, gap)
        OBVIOUS
    <2>1. InTurn(mid, Released)
        BY <1>2, HoldInTurn
    <2>2. InTurn(order', Released') /\ Extends(Released, Released')
        BY <1>1, <2>1, FlushInTurn, FlushExtends
    <2>3. \A c \in Channel : DOMAIN order'[c].held \subseteq DOMAIN mid[c].held
        BY DEF Flushes
    <2>4. \A c \in Channel : \A k \in DOMAIN mid[c].held :
              k \in DOMAIN order[c].held \/ (c = f.chan /\ k = f.oidx)
        BY DEF Holds
    <2>5. QED
        BY <1>2, <2>2, <2>3, <2>4
<1>3. CASE UNCHANGED <<order, Released>>
    BY <1>3 DEF Extends
<1>4. CASE ~Ordered(f) /\ UNCHANGED order /\ Appends(Released, Released', x)
    <2>1. InTurn(order, Released') /\ Extends(Released, Released')
        BY <1>1, <1>4, AppendInTurn, AppendExtends
    <2>2. QED
        BY <1>4, <2>1
<1>5. QED
    BY <1>1, <1>2, <1>3, <1>4, EnqueueMoves

LEMMA QuietTurn ==
    ASSUME TurnInv, Quiet
    PROVE  TurnInv' /\ Extends(Released, Released')
BY DEF TurnInv, Quiet, SameParts, SizesAgree, NotHeldYet, Extends

\* What a completed set is put together to.
LEMMA CompleteInTurn ==
    ASSUME Numbered(Seen), IInv, OnceInv, TurnInv, NEW f \in Seen, IsSplit(f),
           Cardinality(WithPart(f).parts) = WithPart(f).size
    PROVE  LET x == Assembled(WithPart(f))
           IN  /\ x \in Seq(Frame) /\ x # <<>> /\ Whole(x)
               /\ PayloadFrames(x) = WithPart(f).parts
               /\ \A p \in DOMAIN x : SamePacket(x[p], f)
               /\ Ordered(f) => \A p \in DOMAIN x : Turn(x[p], f.chan, f.oidx)
               /\ ~Ordered(f) => ~Ordered(x[1])
<1> DEFINE set == WithPart(f)
           id == Split(f).id
           x == Assembled(set)
<1>1. /\ FragsOK /\ PartsOfSet /\ SizesAgree
      /\ f \in Frame
      /\ \A jd \in DOMAIN frags : \A g \in frags[jd].parts : g \in Seen
    BY SeenFrames DEF IInv, TypeInv, OnceInv, TurnInv
<1>2. /\ SetOK(set)
      /\ id \in DOMAIN frags => /\ set.parts \subseteq frags[id].parts \cup {f}
                                /\ set.size = frags[id].size
      /\ id \notin DOMAIN frags => set.parts = {f} /\ set.size = Split(f).size
    BY <1>1, PartAdded
<1>3. /\ x \in Seq(Frame) /\ x # <<>>
      /\ Len(x) = set.size /\ DOMAIN x = 1 .. set.size
      /\ \A p \in DOMAIN x : x[p] \in set.parts
      /\ \A p, q \in DOMAIN x : p < q => Split(x[p]).index < Split(x[q]).index
      /\ (\A g \in set.parts : Split(g).index < set.size)
             => \A p \in DOMAIN x : Split(x[p]).index = p - 1
      /\ PayloadFrames(x) = set.parts
    BY <1>2, AssembledParts
<1> HIDE DEF set, x
<1>4. /\ set.parts \subseteq Frame
      /\ \A g \in set.parts : IsSplit(g) /\ g \in Seen
    BY <1>1, <1>2 DEF SetOK
<1>5. \A g \in set.parts : SamePacket(g, f)
    BY <1>1, <1>2, <1>4 DEF PartsOfSet, SamePacket
<1>6. Split(f).size = set.size
    <2>1. CASE id \in DOMAIN frags
        <3>1. PICK g \in frags[id].parts : TRUE
            BY <1>1, <2>1 DEF FragsOK, SetOK
        <3>2. g \in Seen /\ IsSplit(g) /\ SamePacket(g, f) /\ Split(g).size = set.size
            BY <1>1, <1>2, <2>1 DEF FragsOK, SetOK, PartsOfSet, SizesAgree, SamePacket
        <3>3. QED
            BY <3>2, PartsAgree
    <2>2. CASE id \notin DOMAIN frags
        BY <1>2, <2>2
    <2>3. QED
        BY <2>1, <2>2
<1>7. \A p \in DOMAIN x :
          /\ IsSplit(x[p]) /\ SamePacket(x[p], f) /\ x[p] \in Frame
          /\ Split(x[p]).size = set.size
          /\ Split(x[p]).id = id
          /\ Ordered(x[p]) <=> Ordered(f)
          /\ Ordered(f) => x[p].chan = f.chan /\ x[p].oidx = f.oidx
    <2> TAKE p \in DOMAIN x
    <2>1. x[p] \in Frame /\ x[p] \in Seen /\ IsSplit(x[p]) /\ SamePacket(x[p], f)
        BY <1>3, <1>4, <1>5
    <2>2. Split(x[p]).id = id
        BY <2>1 DEF SamePacket
    <2>3. QED
        BY <1>6, <2>1, <2>2, PartsAgree
<1>8. \A p \in DOMAIN x : Split(x[p]).index = p - 1
    <2>1. \A g \in set.parts : Split(g).index < set.size
        BY <1>4, <1>5, <1>6, PartsAgree DEF Numbered
    <2>2. QED
        BY <1>3, <2>1
<1>9. 1 \in DOMAIN x
    BY <1>3
<1>10. Whole(x)
    BY <1>3, <1>7, <1>8, <1>9 DEF Whole
<1>11. QED
    BY <1>3, <1>7, <1>9, <1>10 DEF Turn, x, set

LEMMA HandleFrameTurn ==
    ASSUME Numbered(Seen), IInv, OnceInv, TurnInv, HandleFrame
    PROVE  TurnInv' /\ Extends(Released, Released')
<1> DEFINE f == Head(todo)
           id == Split(f).id
           set == WithPart(f)
<1>1. /\ FragsOK
      /\ delivered' = delivered
      /\ f \in Frame /\ f \in Seen
      /\ InTurn(order, Released) /\ SizesAgree /\ NotHeldYet /\ PartsOfSet
    BY SeenFrames DEF HandleFrame, IInv, TypeInv, FlowOK, OnceInv, TurnInv
<1>2. \A jd \in DOMAIN frags : \A g \in frags[jd].parts :
          /\ g \in Frame /\ g \in Seen /\ IsSplit(g)
          /\ Ordered(g) => g.chan \in Channel
    BY <1>1, SeenFrames, IndexedFrame DEF FragsOK, SetOK, Ordered, Indexed
<1>3. CASE UNCHANGED <<frags, order, ready>>
    BY <1>1, <1>3 DEF TurnInv, SizesAgree, NotHeldYet, Released, Extends
<1>4. CASE Admits(f) /\ ~IsSplit(f) /\ UNCHANGED frags /\ Enqueue(f, <<f>>)
    <2> HIDE DEF f
    <2>1. /\ <<f>> \in Seq(Frame) /\ <<f>> # <<>>
          /\ DOMAIN <<f>> = {1} /\ <<f>>[1] = f
          /\ Whole(<<f>>)
        BY <1>1, <1>4 DEF Whole
    <2>2. /\ Ordered(f) => \A p \in DOMAIN <<f>> : Turn(<<f>>[p], f.chan, f.oidx)
          /\ ~Ordered(f) => ~Ordered(<<f>>[1])
        BY <2>1 DEF Turn
    <2>3. /\ InTurn(order', Released')
          /\ Extends(Released, Released')
          /\ \A c \in Channel : \A k \in DOMAIN order'[c].held :
                 \/ k \in DOMAIN order[c].held
                 \/ Ordered(f) /\ c = f.chan /\ k = f.oidx
        BY <1>1, <1>4, <2>1, <2>2, EnqueueInTurn
    <2>4. NotHeldYet'
        <3> SUFFICES ASSUME NEW jd \in DOMAIN frags, NEW g \in frags[jd].parts, Ordered(g),
                            g.oidx \in DOMAIN order'[g.chan].held
                     PROVE  FALSE
            BY <1>4 DEF NotHeldYet
        <3>1. Ordered(f) /\ g.chan = f.chan /\ g.oidx = f.oidx
            BY <1>1, <1>2, <2>3 DEF NotHeldYet
        <3>2. SameTurn(f, g) /\ IsSplit(g) /\ g \in Seen
            BY <1>2, <3>1 DEF SameTurn
        <3>3. QED
            BY <1>1, <1>4, <3>2 DEF Numbered, SamePacket
    <2>5. QED
        BY <1>1, <1>4, <2>3, <2>4 DEF TurnInv, SizesAgree
<1>5. CASE /\ Admits(f) /\ IsSplit(f)
           /\ frags' = With(frags, id, set)
           /\ UNCHANGED <<order, ready>>
    <2>1. UNCHANGED Released
        BY <1>1, <1>5 DEF Released
    <2>2. /\ id \in DOMAIN frags => /\ set.parts \subseteq frags[id].parts \cup {f}
                                    /\ set.size = frags[id].size
          /\ id \notin DOMAIN frags => set.parts = {f} /\ set.size = Split(f).size
        BY <1>1, <1>5, PartAdded
    <2>3. /\ DOMAIN frags' = DOMAIN frags \cup {id}
          /\ frags'[id] = set
          /\ \A jd \in DOMAIN frags \ {id} : frags'[jd] = frags[jd]
        BY <1>5 DEF With
    <2>4. Ordered(f) => f.oidx \notin DOMAIN order[f.chan].held
        BY <1>1, <1>5, NewNotHeld
    <2> HIDE DEF f, set
    <2>5. id \in DOMAIN frags => Split(f).size = frags[id].size
        <3> SUFFICES ASSUME id \in DOMAIN frags
                     PROVE  Split(f).size = frags[id].size
            OBVIOUS
        <3>1. PICK g \in frags[id].parts : TRUE
            BY <1>1 DEF FragsOK, SetOK
        <3>2. SamePacket(g, f) /\ g \in Seen /\ Split(g).size = frags[id].size
            BY <1>1, <1>2, <1>5 DEF SamePacket, PartsOfSet, SizesAgree
        <3>3. QED
            BY <1>1, <3>2, PartsAgree
    <2>6. \A jd \in DOMAIN frags' : \A g \in frags'[jd].parts :
              \/ jd = id /\ g = f
              \/ jd \in DOMAIN frags /\ g \in frags[jd].parts
        BY <2>2, <2>3
    <2>7. \A jd \in DOMAIN frags : frags'[jd].size = frags[jd].size
        BY <2>2, <2>3
    <2>8. SizesAgree'
        <3> SUFFICES ASSUME NEW jd \in DOMAIN frags', NEW g \in frags'[jd].parts
                     PROVE  Split(g).size = frags'[jd].size
            BY DEF SizesAgree
        <3>1. CASE jd \in DOMAIN frags /\ g \in frags[jd].parts
            BY <1>1, <2>7, <3>1 DEF SizesAgree
        <3>2. CASE jd = id /\ g = f
            BY <2>2, <2>3, <2>5, <3>2
        <3>3. QED
            BY <2>6, <3>1, <3>2
    <2>9. NotHeldYet'
        BY <1>1, <1>5, <2>4, <2>6 DEF NotHeldYet
    <2>10. QED
        BY <1>1, <1>5, <2>1, <2>8, <2>9 DEF TurnInv, Extends
<1>6. CASE /\ Admits(f) /\ IsSplit(f)
           /\ Cardinality(set.parts) = set.size
           /\ frags' = Without(frags, {id})
           /\ Enqueue(f, Assembled(set))
    <2> DEFINE x == Assembled(set)
    <2>1. /\ x \in Seq(Frame) /\ x # <<>> /\ Whole(x)
          /\ Ordered(f) => \A p \in DOMAIN x : Turn(x[p], f.chan, f.oidx)
          /\ ~Ordered(f) => ~Ordered(x[1])
        BY <1>1, <1>6, CompleteInTurn
    <2>2. Enqueue(f, x)
        BY <1>6
    <2>3. /\ DOMAIN frags' = DOMAIN frags \ {id}
          /\ \A jd \in DOMAIN frags' : frags'[jd] = frags[jd]
        BY <1>6 DEF Without
    <2> HIDE DEF f, x
    <2>4. /\ InTurn(order', Released')
          /\ Extends(Released, Released')
          /\ \A c \in Channel : \A k \in DOMAIN order'[c].held :
                 \/ k \in DOMAIN order[c].held
                 \/ Ordered(f) /\ c = f.chan /\ k = f.oidx
        BY <1>1, <2>1, <2>2, EnqueueInTurn
    <2>5. NotHeldYet'
        <3> SUFFICES ASSUME NEW jd \in DOMAIN frags', NEW g \in frags'[jd].parts, Ordered(g),
                            g.oidx \in DOMAIN order'[g.chan].held
                     PROVE  FALSE
            BY DEF NotHeldYet
        <3>1. /\ jd \in DOMAIN frags /\ jd # id
              /\ g \in frags[jd].parts
            BY <2>3
        <3>2. Ordered(f) /\ g.chan = f.chan /\ g.oidx = f.oidx
            BY <1>1, <1>2, <2>4, <3>1 DEF NotHeldYet
        <3>3. SameTurn(f, g) /\ g \in Seen
            BY <1>2, <3>1, <3>2 DEF SameTurn
        <3>4. Split(g).id # Split(f).id
            BY <1>1, <3>1 DEF PartsOfSet
        <3>5. QED
            BY <1>1, <3>3, <3>4 DEF Numbered, SamePacket
    <2>6. QED
        BY <1>1, <2>3, <2>4, <2>5 DEF TurnInv, SizesAgree
<1>7. QED
    BY <1>3, <1>4, <1>5, <1>6, HandleMoves

LEMMA JumpInTurn ==
    ASSUME NEW o, NEW R, NEW mid, NEW c, NEW k, QueuesOK(o),
           Jumps(o, mid, c, k), InTurn(o, R)
    PROVE  InTurn(mid, R)
<1>1. \A d \in Channel : /\ mid[d].held = o[d].held
                         /\ o[d].next \in Nat /\ mid[d].next \in Nat
                         /\ o[d].next <= mid[d].next
    <2> TAKE d \in Channel
    <2>1. o[d].next \in Nat
        BY DEF QueuesOK, QueueOK
    <2>2. QED
        BY <2>1 DEF Jumps
<1>2. \A i \in DOMAIN R : Passed(mid, R[i][1])
    <2> SUFFICES ASSUME NEW i \in DOMAIN R, NEW f, f = R[i][1], Ordered(f)
                 PROVE  f.chan \in Channel /\ f.oidx \in Nat /\ f.oidx < mid[f.chan].next
        BY DEF Passed
    <2>1. f.chan \in Channel /\ f.oidx \in Nat /\ f.oidx < o[f.chan].next
        BY DEF InTurn, Passed
    <2>2. QED
        BY <1>1, <2>1
<1>3. QED
    BY <1>1, <1>2 DEF InTurn

LEMMA ExpireTurn ==
    ASSUME IInv, TurnInv, NEW id \in SplitId, ExpireSet(id)
    PROVE  TurnInv' /\ Extends(Released, Released')
<1> DEFINE g == frags[id].first
<1>1. /\ FragsOK /\ OrderOK /\ QueuesOK(order)
      /\ ready \in Seq(Seq(Frame)) /\ delivered \in Seq(Seq(Frame))
      /\ Len(Released) \in Nat
      /\ DOMAIN Released = 1 .. Len(Released)
      /\ InTurn(order, Released)
    BY ReleasedType DEF IInv, TypeInv, FlowOK, TurnInv, OrderOK, QueuesOK
<1>2. /\ DOMAIN frags' = DOMAIN frags \ {id}
      /\ \A jd \in DOMAIN frags' : frags'[jd] = frags[jd]
    BY DEF ExpireSet, Without
<1>3. /\ InTurn(order', Released')
      /\ Extends(Released, Released')
      /\ \A c \in Channel : DOMAIN order'[c].held \subseteq DOMAIN order[c].held
    <2>1. CASE \E mid : \E gap :
                   /\ Jumps(order, mid, g.chan, g.oidx)
                   /\ QueuesOK(mid)
                   /\ Flushes(mid, Released, order', Released', g.chan, gap)
        <3> PICK mid : \E gap :
                   /\ Jumps(order, mid, g.chan, g.oidx)
                   /\ QueuesOK(mid)
                   /\ Flushes(mid, Released, order', Released', g.chan, gap)
            BY <2>1
        <3> PICK gap :
                   /\ Jumps(order, mid, g.chan, g.oidx)
                   /\ QueuesOK(mid)
                   /\ Flushes(mid, Released, order', Released', g.chan, gap)
            OBVIOUS
        <3>1. InTurn(mid, Released)
            BY <1>1, JumpInTurn
        <3>2. InTurn(order', Released') /\ Extends(Released, Released')
            BY <1>1, <3>1, FlushInTurn, FlushExtends
        <3>3. \A c \in Channel : /\ DOMAIN order'[c].held \subseteq DOMAIN mid[c].held
                                 /\ mid[c].held = order[c].held
            BY DEF Flushes, Jumps
        <3>4. QED
            BY <3>2, <3>3
    <2>2. CASE UNCHANGED <<order, Released>>
        BY <1>1, <2>2 DEF Extends
    <2>3. QED
        BY <1>1, <2>1, <2>2, ExpireMoves
<1>4. SizesAgree'
    BY <1>2 DEF TurnInv, SizesAgree
<1>5. NotHeldYet'
    <2>1. \A jd \in DOMAIN frags : \A f \in frags[jd].parts : Ordered(f) => f.chan \in Channel
        BY <1>1, IndexedFrame DEF FragsOK, SetOK, Ordered, Indexed
    <2>2. QED
        BY <1>2, <1>3, <2>1 DEF TurnInv, NotHeldYet
<1>6. QED
    BY <1>3, <1>4, <1>5 DEF TurnInv

LEMMA InitTurn == RecvInit => TurnInv
<1> SUFFICES ASSUME RecvInit
             PROVE  TurnInv
    OBVIOUS
<1>1. /\ frags = <<>>
      /\ \A c \in Channel : DOMAIN order[c].held = {}
      /\ Released = <<>>
    BY DEF RecvInit, Released
<1>2. QED
    BY <1>1 DEF TurnInv, InTurn, SizesAgree, NotHeldYet

LEMMA StepTurn ==
    ASSUME Numbered(Seen), IInv, OnceInv, TurnInv, [RecvNext]_recvVars
    PROVE  TurnInv' /\ Extends(Released, Released')
<1>1. CASE HandleFrame
    BY <1>1, HandleFrameTurn
<1>2. CASE \E id \in SplitId : ExpireSet(id)
    BY <1>2, ExpireTurn
<1>3. CASE ~HandleFrame /\ ~(\E id \in SplitId : ExpireSet(id))
    BY <1>3, QuietSteps, QuietTurn
<1>4. QED
    BY <1>1, <1>2, <1>3

DeliveryInv == IInv /\ OnceInv /\ TurnInv

THEOREM DeliveryInvariance ==
    ASSUME PeerNumbers
    PROVE  RecvSpec => []DeliveryInv
<1>1. RecvInit => TurnInv
    BY InitTurn
<1>2. IInv /\ OnceInv /\ TurnInv /\ [RecvNext]_recvVars => TurnInv'
    BY SeenFrames, StepTurn DEF PeerNumbers, Numbered
<1>3. QED
    BY <1>1, <1>2, OnceInvariance, PTL DEF RecvSpec, DeliveryInv

\* On each order channel payloads are released in increasing order of their
\* index, whatever ticks expired in between (OrderedQueue, skip_through).
THEOREM ChannelsInOrder ==
    ASSUME PeerNumbers
    PROVE  RecvSpec => []ChannelOrder
<1>1. DeliveryInv => ChannelOrder
    BY DEF DeliveryInv, TurnInv, InTurn, ChannelOrder
<1>2. QED
    BY <1>1, DeliveryInvariance, PTL

\* A payload is one unsplit frame or all parts of one split packet in order
\* (FragmentQueue::insert and collect).
THEOREM PayloadsWhole ==
    ASSUME PeerNumbers
    PROVE  RecvSpec => []WholePayload
<1>1. DeliveryInv => WholePayload
    BY DEF DeliveryInv, TurnInv, InTurn, WholePayload
<1>2. QED
    BY <1>1, DeliveryInvariance, PTL

----------------------------------------------------------------------------
(* Nothing the queue has taken charge of is lost. *)

\* The frame is in a payload that is released or can still be.
Live(o, R, f) ==
    \/ \E c \in Channel : \E k \in DOMAIN o[c].held :
           k >= o[c].next /\ \E p \in DOMAIN o[c].held[k] : f = o[c].held[k][p]
    \/ \E i \in DOMAIN R : \E p \in DOMAIN R[i] : f = R[i][p]

InCharge(fr, o, R) ==
    (UNION {fr[id].parts : id \in DOMAIN fr})
    \cup (UNION {UNION {PayloadFrames(o[c].held[k]) :
                           k \in {j \in DOMAIN o[c].held : j >= o[c].next}} :
                     c \in Channel})
    \cup (UNION {PayloadFrames(R[i]) : i \in DOMAIN R})

LEMMA InChargeFrame ==
    ASSUME NEW fr, NEW o, NEW R, NEW f
    PROVE  f \in InCharge(fr, o, R) <=> \/ \E id \in DOMAIN fr : f \in fr[id].parts
                                    \/ Live(o, R, f)
<1> DEFINE onChannel(c) == UNION {PayloadFrames(o[c].held[k]) :
                                    k \in {j \in DOMAIN o[c].held : j >= o[c].next}}
           parts == UNION {fr[id].parts : id \in DOMAIN fr}
           held == UNION {onChannel(c) : c \in Channel}
           released == UNION {PayloadFrames(R[i]) : i \in DOMAIN R}
<1>1. ASSUME NEW x
      PROVE  f \in PayloadFrames(x) <=> \E p \in DOMAIN x : f = x[p]
    BY DEF PayloadFrames
<1>2. \A c \in Channel : f \in onChannel(c) <=>
          \E k \in DOMAIN o[c].held :
              k >= o[c].next /\ f \in PayloadFrames(o[c].held[k])
    BY SMT
<1>3. f \in released <=> \E i \in DOMAIN R : f \in PayloadFrames(R[i])
    BY SMT
<1>4. f \in parts <=> \E id \in DOMAIN fr : f \in fr[id].parts
    BY SMT
<1>5. InCharge(fr, o, R) = parts \cup held \cup released
    BY Zenon DEF InCharge
<1> HIDE DEF onChannel, parts, released
<1>6. f \in held <=> \E c \in Channel : f \in onChannel(c)
    BY SMT
<1> HIDE DEF held
<1>7. f \in InCharge(fr, o, R) <=>
          \/ \E id \in DOMAIN fr : f \in fr[id].parts
          \/ \E c \in Channel : \E k \in DOMAIN o[c].held :
                 k >= o[c].next /\ f \in PayloadFrames(o[c].held[k])
          \/ \E i \in DOMAIN R : f \in PayloadFrames(R[i])
    BY <1>2, <1>3, <1>4, <1>5, <1>6
<1>8. QED
    BY <1>1, <1>7, Zenon DEF Live

LEMMA InQueueIsInCharge ==
    /\ InQueue = InCharge(frags, order, Released)
    /\ InQueue' = InCharge(frags', order', Released')
<1>1. InQueue = InCharge(frags, order, Released)
    BY Zenon DEF InQueue, InCharge
<1>2. InQueue' = InCharge(frags', order', Released')
    BY Zenon DEF InQueue, InCharge
<1>3. QED
    BY <1>1, <1>2

\* A flush lets go of nothing that is live.
LEMMA FlushLive ==
    ASSUME NEW o, NEW R, NEW o2, NEW R2, NEW c, NEW gap, NEW f, Len(R) \in Nat,
           DOMAIN R = 1 .. Len(R), QueuesOK(o), Flushes(o, R, o2, R2, c, gap),
           Live(o, R, f)
    PROVE  Live(o2, R2, f)
<1>1. /\ c \in Channel
      /\ o[c].next \in Nat
      /\ gap \in Nat /\ o[c].next <= gap /\ o2[c].next = gap
      /\ DOMAIN R2 = 1 .. Len(R) + (gap - o[c].next)
      /\ \A i \in DOMAIN R : R2[i] = R[i]
    BY DEF Flushes, QueuesOK, QueueOK
<1>2. \A i \in DOMAIN R : i \in DOMAIN R2
    BY <1>1
<1>3. CASE \E i \in DOMAIN R : \E p \in DOMAIN R[i] : f = R[i][p]
    BY <1>1, <1>2, <1>3 DEF Live
<1>4. CASE \E d \in Channel : \E k \in DOMAIN o[d].held :
               k >= o[d].next /\ \E p \in DOMAIN o[d].held[k] : f = o[d].held[k][p]
    <2> PICK d \in Channel : \E k \in DOMAIN o[d].held :
               k >= o[d].next /\ \E p \in DOMAIN o[d].held[k] : f = o[d].held[k][p]
        BY <1>4
    <2> PICK k \in DOMAIN o[d].held :
               k >= o[d].next /\ \E p \in DOMAIN o[d].held[k] : f = o[d].held[k][p]
        OBVIOUS
    <2>1. /\ k >= o[d].next
          /\ \E p \in DOMAIN o[d].held[k] : f = o[d].held[k][p]
          /\ k \in Nat
        BY DEF QueuesOK, QueueOK
    <2>2. CASE d = c /\ k < gap
        <3>1. PICK n \in Nat, s \in Nat : n = Len(R) /\ s = o[c].next
            BY <1>1
        <3> DEFINE i == n + (k - s) + 1
        <3>2. s <= k /\ k < gap /\ gap \in Nat /\ k \in Nat
            BY <1>1, <2>1, <2>2, <3>1
        <3>3. i \in 1 .. n + (gap - s) /\ i \notin 1 .. n /\ s + (i - n) - 1 = k
            BY <3>2
        <3> HIDE DEF i
        <3>4. i \in DOMAIN R2 /\ i \notin DOMAIN R
            BY <1>1, <3>1, <3>3
        <3>5. R2[i] = o[c].held[o[c].next + (i - Len(R)) - 1]
            BY <3>4 DEF Flushes
        <3>6. R2[i] = o[d].held[k]
            BY <2>2, <3>1, <3>3, <3>5
        <3>7. QED
            BY <2>1, <3>4, <3>6 DEF Live
    <2>3. CASE d = c /\ ~(k < gap)
        <3>1. k \notin o[c].next .. (gap - 1) /\ k >= o2[d].next
            BY <1>1, <2>1, <2>3
        <3>2. k \in DOMAIN o2[d].held /\ o2[d].held[k] = o[d].held[k]
            BY <2>3, <3>1 DEF Flushes
        <3>3. QED
            BY <2>1, <3>1, <3>2 DEF Live
    <2>4. CASE d # c
        <3>1. o2[d] = o[d]
            BY <2>4 DEF Flushes
        <3>2. QED
            BY <2>1, <3>1 DEF Live
    <2>5. QED
        BY <2>2, <2>3, <2>4
<1>5. QED
    BY <1>3, <1>4 DEF Live

LEMMA HoldLive ==
    ASSUME NEW o, NEW R, NEW o2, NEW c, NEW k, NEW x, NEW f, Holds(o, o2, c, k, x),
           Live(o, R, f) \/ f \in PayloadFrames(x)
    PROVE  Live(o2, R, f)
<1>1. /\ c \in Channel /\ k \in DOMAIN o2[c].held /\ o2[c].held[k] = x
      /\ k >= o2[c].next
    BY DEF Holds
<1>2. \A d \in Channel : /\ o2[d].next = o[d].next
                         /\ \A l \in DOMAIN o[d].held :
                                l \in DOMAIN o2[d].held /\ o2[d].held[l] = o[d].held[l]
    BY DEF Holds
<1>3. CASE f \in PayloadFrames(x)
    BY <1>1, <1>3 DEF Live, PayloadFrames
<1>4. CASE Live(o, R, f)
    BY <1>2, <1>4 DEF Live
<1>5. QED
    BY <1>3, <1>4

LEMMA AppendLive ==
    ASSUME NEW o, NEW R, NEW R2, NEW x, NEW f, Len(R) \in Nat, DOMAIN R = 1 .. Len(R),
           Appends(R, R2, x), Live(o, R, f) \/ f \in PayloadFrames(x)
    PROVE  Live(o, R2, f)
<1> DEFINE last == Len(R) + 1
<1>1. /\ \A i \in DOMAIN R : i \in DOMAIN R2 /\ R2[i] = R[i]
      /\ last \in DOMAIN R2 /\ R2[last] = x
    BY DEF Appends
<1> HIDE DEF last
<1>2. CASE f \in PayloadFrames(x)
    BY <1>1, <1>2 DEF Live, PayloadFrames
<1>3. CASE Live(o, R, f)
    BY <1>1, <1>3 DEF Live
<1>4. QED
    BY <1>2, <1>3

\* A payload is refused only when its turn is over or taken.
LEMMA EnqueueLive ==
    ASSUME IInv, delivered' = delivered, NEW g \in Frame, NEW x \in Seq(Frame),
           Enqueue(g, x), NEW f, Live(order, Released, f) \/ f \in PayloadFrames(x)
    PROVE  \/ Live(order', Released', f)
           \/ /\ ~Live(order, Released, f)
              /\ Ordered(g)
              /\ \/ g.oidx < order[g.chan].next
                 \/ g.oidx \in DOMAIN order[g.chan].held
<1>1. /\ OrderOK /\ ready \in Seq(Seq(Frame)) /\ delivered \in Seq(Seq(Frame))
      /\ Len(Released) \in Nat
      /\ DOMAIN Released = 1 .. Len(Released)
    BY ReleasedType DEF IInv, TypeInv, FlowOK
<1>2. CASE \E mid : \E gap :
               /\ Holds(order, mid, g.chan, g.oidx, x)
               /\ QueuesOK(mid)
               /\ Flushes(mid, Released, order', Released', g.chan, gap)
    <2> PICK mid : \E gap :
               /\ Holds(order, mid, g.chan, g.oidx, x)
               /\ QueuesOK(mid)
               /\ Flushes(mid, Released, order', Released', g.chan, gap)
        BY <1>2
    <2> PICK gap :
               /\ Holds(order, mid, g.chan, g.oidx, x)
               /\ QueuesOK(mid)
               /\ Flushes(mid, Released, order', Released', g.chan, gap)
        OBVIOUS
    <2>1. Live(mid, Released, f)
        BY HoldLive
    <2>2. QED
        BY <1>1, <2>1, FlushLive
<1>3. CASE /\ Ordered(g)
           /\ g.oidx < order[g.chan].next \/ g.oidx \in DOMAIN order[g.chan].held
           /\ UNCHANGED <<order, Released>>
    <2>1. Live(order, Released, f) => Live(order', Released', f)
        BY <1>3
    <2>2. QED
        BY <1>3, <2>1
<1>4. CASE UNCHANGED order /\ Appends(Released, Released', x)
    <2>1. Live(order, Released', f)
        BY <1>1, <1>4, AppendLive
    <2>2. QED
        BY <1>4, <2>1
<1>5. QED
    BY <1>1, <1>2, <1>3, <1>4, EnqueueMoves

NothingLost ==
    \A f \in InQueue \ InQueue' :
        \/ \E id \in stale : f \in frags[id].parts \/ JumpedOver(f, frags[id].first)
        \/ IsSplit(f) /\ Overtaken(f)

LEMMA QuietKeeps ==
    ASSUME Quiet
    PROVE  NothingLost
<1> SUFFICES ASSUME NEW f, f \in InQueue
             PROVE  f \in InQueue'
    BY DEF NothingLost
<1>1. CASE \E id \in DOMAIN frags : f \in frags[id].parts
    <2>1. \E id \in DOMAIN frags' : f \in frags'[id].parts
        BY <1>1 DEF Quiet, SameParts
    <2>2. QED
        BY <2>1, InQueueIsInCharge, InChargeFrame
<1>2. CASE Live(order, Released, f)
    <2>1. Live(order', Released', f)
        BY <1>2 DEF Quiet
    <2>2. QED
        BY <2>1, InQueueIsInCharge, InChargeFrame
<1>3. QED
    BY <1>1, <1>2, InQueueIsInCharge, InChargeFrame

LEMMA HandleFrameKeeps ==
    ASSUME Numbered(Seen), IInv, OnceInv, TurnInv, HandleFrame
    PROVE  NothingLost
<1> DEFINE f == Head(todo)
           id == Split(f).id
           set == WithPart(f)
<1>1. /\ FragsOK /\ delivered' = delivered /\ PartsOfSet
      /\ f \in Frame /\ f \in Seen
    BY SeenFrames DEF HandleFrame, IInv, TypeInv, FlowOK, OnceInv
<1>2. SUFFICES ASSUME NEW h,
                      \/ \E jd \in DOMAIN frags : h \in frags[jd].parts
                      \/ Live(order, Released, h)
               PROVE  \/ \E jd \in DOMAIN frags' : h \in frags'[jd].parts
                      \/ Live(order', Released', h)
                      \/ IsSplit(h) /\ Overtaken(h)
    BY InQueueIsInCharge, InChargeFrame DEF NothingLost
<1>3. CASE UNCHANGED <<frags, order, ready>>
    BY <1>1, <1>2, <1>3 DEF Released
<1>4. CASE Admits(f) /\ ~IsSplit(f) /\ UNCHANGED frags /\ Enqueue(f, <<f>>)
    <2> HIDE DEF f
    <2>1. /\ <<f>> \in Seq(Frame)
          /\ f \in PayloadFrames(<<f>>)
        BY <1>1 DEF PayloadFrames
    <2>2. CASE Live(order, Released, h)
        BY <1>1, <1>4, <2>1, <2>2, EnqueueLive
    <2>3. QED
        BY <1>2, <1>4, <2>2
<1>5. CASE /\ Admits(f) /\ IsSplit(f)
           /\ frags' = With(frags, id, set)
           /\ UNCHANGED <<order, ready>>
    <2>1. UNCHANGED Released
        BY <1>1, <1>5 DEF Released
    <2>2. id \in DOMAIN frags => frags[id].parts \subseteq set.parts
        BY <1>1, <1>5, PartAdded
    <2>3. /\ DOMAIN frags' = DOMAIN frags \cup {id}
          /\ frags'[id] = set
          /\ \A jd \in DOMAIN frags \ {id} : frags'[jd] = frags[jd]
        BY <1>5 DEF With
    <2> HIDE DEF f, set
    <2>4. QED
        BY <1>2, <1>5, <2>1, <2>2, <2>3
<1>6. CASE /\ Admits(f) /\ IsSplit(f)
           /\ Cardinality(set.parts) = set.size
           /\ frags' = Without(frags, {id})
           /\ Enqueue(f, Assembled(set))
    <2> DEFINE x == Assembled(set)
    <2>1. /\ x \in Seq(Frame)
          /\ PayloadFrames(x) = set.parts
          /\ id \in DOMAIN frags => frags[id].parts \subseteq set.parts
        BY <1>1, <1>6, CompleteInTurn, PartAdded
    <2>2. Enqueue(f, x)
        BY <1>6
    <2>3. /\ DOMAIN frags' = DOMAIN frags \ {id}
          /\ \A jd \in DOMAIN frags' : frags'[jd] = frags[jd]
        BY <1>6 DEF Without
    <2>4. Ordered(f) => f.oidx \notin DOMAIN order[f.chan].held
        BY <1>1, <1>6, NewNotHeld
    <2> HIDE DEF f, x, set
    <2>5. CASE Live(order, Released, h) \/ h \in PayloadFrames(x)
        <3>1. \/ Live(order', Released', h)
              \/ /\ ~Live(order, Released, h)
                 /\ Ordered(f) /\ f.oidx < order[f.chan].next
            BY <1>1, <2>1, <2>2, <2>4, <2>5, EnqueueLive
        <3>2. CASE /\ ~Live(order, Released, h)
                   /\ Ordered(f) /\ f.oidx < order[f.chan].next
            <4>1. PICK jd \in DOMAIN frags : h \in frags[jd].parts
                BY <1>2, <3>2
            <4>2. h \in Seen /\ IsSplit(h) /\ Split(h).id = jd
                BY <1>1, <4>1, SeenFrames DEF FragsOK, SetOK, PartsOfSet
            <4>3. CASE jd = id
                <5>1. SamePacket(h, f)
                    BY <1>6, <4>2, <4>3 DEF SamePacket
                <5>2. Ordered(h) /\ h.chan = f.chan /\ h.oidx = f.oidx
                    BY <1>1, <3>2, <4>2, <5>1, PartsAgree
                <5>3. QED
                    BY <3>2, <4>2, <5>2 DEF Overtaken
            <4>4. CASE jd # id
                BY <2>3, <4>1, <4>4
            <4>5. QED
                BY <4>3, <4>4
        <3>3. QED
            BY <3>1, <3>2
    <2>6. CASE \E jd \in DOMAIN frags : jd # id /\ h \in frags[jd].parts
        BY <2>3, <2>6
    <2>7. QED
        BY <1>2, <2>1, <2>5, <2>6
<1>7. QED
    BY <1>3, <1>4, <1>5, <1>6, HandleMoves

\* What a jump lets go of was held below the index it jumps past.
LEMMA JumpLive ==
    ASSUME NEW o, NEW R, NEW o2, NEW c, NEW k, NEW f, InTurn(o, R), QueuesOK(o),
           Jumps(o, o2, c, k), Live(o, R, f)
    PROVE  \/ Live(o2, R, f)
           \/ Ordered(f) /\ f.chan = c /\ f.oidx <= k
<1>1. CASE \E i \in DOMAIN R : \E p \in DOMAIN R[i] : f = R[i][p]
    BY <1>1 DEF Live
<1>2. CASE \E d \in Channel : \E l \in DOMAIN o[d].held :
               l >= o[d].next /\ \E p \in DOMAIN o[d].held[l] : f = o[d].held[l][p]
    <2> PICK d \in Channel : \E l \in DOMAIN o[d].held :
               l >= o[d].next /\ \E p \in DOMAIN o[d].held[l] : f = o[d].held[l][p]
        BY <1>2
    <2> PICK l \in DOMAIN o[d].held :
               l >= o[d].next /\ \E p \in DOMAIN o[d].held[l] : f = o[d].held[l][p]
        OBVIOUS
    <2>1. /\ l \in Nat /\ o[d].next \in Nat /\ k \in Nat /\ l >= o[d].next
          /\ Ordered(f) /\ f.chan = d /\ f.oidx = l
        <3>1. l \in Nat /\ o[d].next \in Nat /\ k \in Nat /\ l >= o[d].next
            BY DEF QueuesOK, QueueOK, Jumps
        <3>2. \A p \in DOMAIN o[d].held[l] : Turn(o[d].held[l][p], d, l)
            BY DEF InTurn
        <3>3. PICK p \in DOMAIN o[d].held[l] : f = o[d].held[l][p]
            OBVIOUS
        <3>4. Turn(f, d, l)
            BY <3>2, <3>3
        <3>5. QED
            BY <3>1, <3>4 DEF Turn
    <2>2. /\ o2[d].held = o[d].held
          /\ \/ l >= o2[d].next
             \/ d = c /\ l <= k
        <3>1. CASE d = c
            <4>1. /\ o2[d].held = o[d].held
                  /\ o2[d].next = IF o[d].next <= k THEN k + 1 ELSE o[d].next
                BY <3>1 DEF Jumps
            <4>2. QED
                BY <2>1, <3>1, <4>1
        <3>2. CASE d # c
            BY <2>1, <3>2 DEF Jumps
        <3>3. QED
            BY <3>1, <3>2
    <2>3. QED
        BY <2>1, <2>2 DEF Live
<1>3. QED
    BY <1>1, <1>2 DEF Live

LEMMA ExpireKeeps ==
    ASSUME IInv, TurnInv, NEW id \in SplitId, ExpireSet(id)
    PROVE  NothingLost
<1> DEFINE g == frags[id].first
<1>1. /\ FragsOK /\ OrderOK /\ QueuesOK(order)
      /\ ready \in Seq(Seq(Frame)) /\ delivered \in Seq(Seq(Frame))
      /\ Len(Released) \in Nat
      /\ DOMAIN Released = 1 .. Len(Released)
      /\ InTurn(order, Released)
      /\ id \in stale
    BY ReleasedType DEF IInv, TypeInv, FlowOK, TurnInv, OrderOK, QueuesOK, ExpireSet
<1>2. /\ DOMAIN frags' = DOMAIN frags \ {id}
      /\ \A jd \in DOMAIN frags' : frags'[jd] = frags[jd]
    BY DEF ExpireSet, Without
<1>3. SUFFICES ASSUME NEW h,
                      \/ \E jd \in DOMAIN frags : h \in frags[jd].parts
                      \/ Live(order, Released, h)
               PROVE  \/ \E jd \in DOMAIN frags' : h \in frags'[jd].parts
                      \/ Live(order', Released', h)
                      \/ h \in frags[id].parts
                      \/ JumpedOver(h, g)
    BY <1>1, InQueueIsInCharge, InChargeFrame DEF NothingLost
<1>4. CASE \E jd \in DOMAIN frags : h \in frags[jd].parts
    BY <1>2, <1>4
<1>5. CASE Live(order, Released, h)
    <2>1. CASE /\ Indexed(g)
               /\ \E mid : \E gap :
                      /\ Jumps(order, mid, g.chan, g.oidx)
                      /\ QueuesOK(mid)
                      /\ Flushes(mid, Released, order', Released', g.chan, gap)
        <3> PICK mid : \E gap :
                      /\ Jumps(order, mid, g.chan, g.oidx)
                      /\ QueuesOK(mid)
                      /\ Flushes(mid, Released, order', Released', g.chan, gap)
            BY <2>1
        <3> PICK gap :
                      /\ Jumps(order, mid, g.chan, g.oidx)
                      /\ QueuesOK(mid)
                      /\ Flushes(mid, Released, order', Released', g.chan, gap)
            OBVIOUS
        <3> HIDE DEF g
        <3>1. \/ Live(mid, Released, h)
              \/ JumpedOver(h, g)
            BY <1>1, <1>5, <2>1, JumpLive DEF JumpedOver
        <3>2. Live(mid, Released, h) => Live(order', Released', h)
            BY <1>1, FlushLive
        <3>3. QED
            BY <3>1, <3>2
    <2>2. CASE UNCHANGED <<order, Released>>
        BY <1>5, <2>2
    <2>3. QED
        BY <1>1, <2>1, <2>2, ExpireMoves
<1>6. QED
    BY <1>3, <1>4, <1>5

\* What the queue has taken charge of is handed over or still can be: only a
\* split packet that has become stale lets anything go, its own parts and what
\* waited, or is completed, below the index its channel jumps past
\* (expire_stale_fragments, skip_through and queue_ordered_frame).
THEOREM NothingLetGo ==
    ASSUME PeerNumbers
    PROVE  RecvSpec => NoSilentLoss
<1>1. DeliveryInv /\ [RecvNext]_recvVars => NothingLost
    <2> SUFFICES ASSUME IInv, OnceInv, TurnInv, [RecvNext]_recvVars, Numbered(Seen)
                 PROVE  NothingLost
        BY SeenFrames DEF DeliveryInv, PeerNumbers, Numbered
    <2>1. CASE HandleFrame
        BY <2>1, HandleFrameKeeps
    <2>2. CASE \E id \in SplitId : ExpireSet(id)
        BY <2>2, ExpireKeeps
    <2>3. CASE ~HandleFrame /\ ~(\E id \in SplitId : ExpireSet(id))
        BY <2>3, QuietSteps, QuietKeeps
    <2>4. QED
        BY <2>1, <2>2, <2>3
<1>2. QED
    BY <1>1, DeliveryInvariance, PTL DEF RecvSpec, NoSilentLoss, NothingLost
=============================================================================
