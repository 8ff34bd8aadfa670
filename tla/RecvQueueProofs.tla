-------------------------- MODULE RecvQueueProofs --------------------------
(***************************************************************************)
(* Theorems about RecvQueue: type correctness, that a sequence is never    *)
(* acknowledged and requested, and that no payload that could be released  *)
(* is held back.  IInv below is the inductive invariant they follow from.  *)
(***************************************************************************)
EXTENDS RecvQueue, FiniteSetTheorems, WellFoundedInduction, TLAPS

(***************************************************************************)
(* What the window operators return, for every window and every index.     *)
(***************************************************************************)

\* A non-empty set of naturals has a least element.
LEMMA LeastNatural ==
    ASSUME NEW S \in SUBSET Nat, S # {}
    PROVE  \E k \in S : \A j \in S : k <= j
<1>1. PICK k \in S : \A j \in S : <<j, k>> \notin OpToRel(<, Nat)
    BY WFMin, NatLessThanWellFounded
<1>2. \A j \in S : ~(j < k)
    BY <1>1 DEF OpToRel
<1>3. QED
    BY <1>2

\* A finite non-empty set of naturals has a greatest one: an element that has
\* the fewest above it.
LEMMA GreatestNatural ==
    ASSUME NEW S \in SUBSET Nat, IsFiniteSet(S), S # {}
    PROVE  \E k \in S : \A j \in S : j <= k
<1> DEFINE above(k) == {j \in S : j > k}
           counts == {Cardinality(above(k)) : k \in S}
<1>1. \A k \in S : IsFiniteSet(above(k)) /\ Cardinality(above(k)) \in Nat
    <2> TAKE k \in S
    <2>1. above(k) \in SUBSET S
        OBVIOUS
    <2> HIDE DEF above
    <2>2. IsFiniteSet(above(k))
        BY <2>1, FS_Subset
    <2>3. QED
        BY <2>2, FS_CardinalityType
<1>2. counts \in SUBSET Nat /\ counts # {}
    BY <1>1
<1>3. PICK least \in counts : \A c \in counts : least <= c
    <2> HIDE DEF counts
    <2>1. QED
        BY <1>2, LeastNatural
<1>4. PICK k \in S : least = Cardinality(above(k))
    BY <1>3
<1>5. \A j \in S : ~(j > k)
    <2> SUFFICES ASSUME NEW j \in S, j > k
                 PROVE  FALSE
        OBVIOUS
    <2>1. /\ above(j) \in SUBSET above(k)
          /\ above(k) # above(j)
        <3>1. j \in above(k) /\ j \notin above(j)
            OBVIOUS
        <3>2. \A i \in above(j) : i \in above(k)
            OBVIOUS
        <3>3. QED
            BY <3>1, <3>2
    <2>2. Cardinality(above(j)) \in counts
        OBVIOUS
    <2>3. /\ Cardinality(above(k)) <= Cardinality(above(j))
          /\ Cardinality(above(k)) \in Nat
          /\ Cardinality(above(j)) \in Nat
        BY <1>1, <1>3, <1>4, <2>2
    <2> HIDE DEF above, counts
    <2>4. QED
        BY <1>1, <2>1, <2>3, FS_Subset
<1>6. QED
    BY <1>5

\* FirstGap is the first missing index from start on: there is one, because
\* a finite set cannot cover one index more than it has elements.
LEMMA FirstGapProperties ==
    ASSUME NEW got, IsFiniteSet(got), NEW start \in Nat
    PROVE  /\ FirstGap(got, start) \in Nat
           /\ FirstGap(got, start) >= start
           /\ FirstGap(got, start) \notin got
           /\ \A j \in start .. FirstGap(got, start) - 1 : j \in got
<1> DEFINE n == Cardinality(got)
           free == {k \in start .. start + n : k \notin got}
<1>1. n \in Nat
    BY FS_CardinalityType
<1>2. free # {}
    <2> SUFFICES ASSUME start .. start + n \subseteq got
                 PROVE  FALSE
        OBVIOUS
    <2>1. Cardinality(start .. start + n) = n + 1
        BY <1>1, FS_Interval
    <2>2. Cardinality(start .. start + n) <= n
        BY FS_Subset
    <2>3. QED
        BY <1>1, <2>1, <2>2
<1>3. PICK k \in free : \A j \in free : k <= j
    <2>1. free \in SUBSET Nat
        BY <1>1
    <2> HIDE DEF free
    <2>2. QED
        BY <1>2, <2>1, LeastNatural
<1>4. /\ k \in start .. start + n
      /\ k \notin got
      /\ \A j \in start .. k - 1 : j \in got
    BY <1>1, <1>3
<1>5. /\ FirstGap(got, start) \in start .. start + n
      /\ FirstGap(got, start) \notin got
      /\ \A j \in start .. FirstGap(got, start) - 1 : j \in got
    BY <1>4 DEF FirstGap
<1>6. QED
    BY <1>1, <1>5

\* A window that can occur: what it holds is within its range.
WindowOK(w, size) ==
    /\ w = [lo |-> w.lo, got |-> w.got]
    /\ w.lo \in Nat
    /\ w.got \in SUBSET (w.lo .. w.lo + size)

\* What a window will refuse because it has passed or holds it.
Covers(w, i) == i < w.lo \/ i \in w.got

LEMMA WindowFinite ==
    ASSUME NEW w, NEW size \in Nat, WindowOK(w, size)
    PROVE  IsFiniteSet(w.got)
<1>1. IsFiniteSet(w.lo .. w.lo + size)
    BY FS_Interval DEF WindowOK
<1>2. QED
    BY <1>1, FS_Subset DEF WindowOK

\* Sliding over what was inserted forgets nothing and invents nothing.
LEMMA AdjustProperties ==
    ASSUME NEW lo \in Nat, NEW got, NEW size \in Nat, NEW top \in Nat,
           got \in SUBSET (lo .. top), top <= lo + size
    PROVE  LET w == [lo |-> lo, got |-> got]
           IN  /\ WindowOK(Adjust(w), size)
               /\ Adjust(w).lo >= lo
               /\ Adjust(w).got \subseteq got
               /\ \A i \in Nat : Covers(Adjust(w), i) <=> Covers(w, i)
<1> DEFINE w == [lo |-> lo, got |-> got]
           gap == FirstGap(got, lo)
<1>1. IsFiniteSet(got)
    <2>1. IsFiniteSet(lo .. top)
        BY FS_Interval
    <2>2. QED
        BY <2>1, FS_Subset
<1>2. /\ gap \in Nat
      /\ gap >= lo
      /\ \A j \in lo .. gap - 1 : j \in got
    BY <1>1, FirstGapProperties
<1>3. Adjust(w) = [lo |-> gap, got |-> got \ (lo .. (gap - 1))]
    BY DEF Adjust
<1> HIDE DEF gap
<1>4. WindowOK(Adjust(w), size)
    BY <1>2, <1>3 DEF WindowOK
<1>5. \A i \in Nat : Covers(Adjust(w), i) <=> Covers(w, i)
    BY <1>2, <1>3 DEF Covers
<1>6. QED
    BY <1>2, <1>3, <1>4, <1>5

\* insert() of an accepted index: it is covered from now on, and besides it
\* exactly what was covered before.
LEMMA InsertProperties ==
    ASSUME NEW w, NEW size \in Nat, NEW i \in Nat,
           WindowOK(w, size), Accepts(w, size, i)
    PROVE  /\ WindowOK(InsertIndex(w, i), size)
           /\ InsertIndex(w, i).lo >= w.lo
           /\ InsertIndex(w, i).got \subseteq w.got \cup {i}
           /\ \A k \in Nat : Covers(InsertIndex(w, i), k) <=> Covers(w, k) \/ k = i
<1> DEFINE added == [lo |-> w.lo, got |-> w.got \cup {i}]
<1>1. [w EXCEPT !.got = @ \cup {i}] = added
    BY DEF WindowOK
<1>2. /\ i >= w.lo
      /\ w.lo \in Nat
      /\ added.got \in SUBSET (w.lo .. w.lo + size)
    BY DEF WindowOK, Accepts, High
<1>3. \A k \in Nat : Covers(added, k) <=> Covers(w, k) \/ k = i
    BY DEF Covers
<1>4. CASE i = w.lo
    <2>1. InsertIndex(w, i) = Adjust(added)
        BY <1>1, <1>4 DEF InsertIndex
    <2>2. /\ WindowOK(Adjust(added), size)
          /\ Adjust(added).lo >= w.lo
          /\ Adjust(added).got \subseteq w.got \cup {i}
          /\ \A k \in Nat : Covers(Adjust(added), k) <=> Covers(added, k)
        BY <1>2, AdjustProperties
    <2>3. QED
        BY <1>3, <2>1, <2>2
<1>5. CASE i # w.lo
    <2>1. InsertIndex(w, i) = added
        BY <1>1, <1>5 DEF InsertIndex
    <2>2. QED
        BY <1>2, <1>3, <2>1 DEF WindowOK
<1>6. QED
    BY <1>4, <1>5

\* skip_through() uncovers nothing.
LEMMA SkipProperties ==
    ASSUME NEW w, NEW size \in Nat, NEW i \in Nat, WindowOK(w, size)
    PROVE  /\ WindowOK(SkipThrough(w, size, i), size)
           /\ SkipThrough(w, size, i).lo >= w.lo
           /\ SkipThrough(w, size, i).got \subseteq w.got
           /\ \A k \in Nat : Covers(w, k) => Covers(SkipThrough(w, size, i), k)
<1> DEFINE kept == {k \in w.got : i + 1 <= k /\ k <= i + 1 + size}
           moved == [lo |-> i + 1, got |-> kept]
<1>1. CASE w.lo <= i
    <2>1. SkipThrough(w, size, i) = Adjust(moved)
        BY <1>1 DEF SkipThrough
    <2>2. /\ WindowOK(Adjust(moved), size)
          /\ Adjust(moved).lo >= i + 1
          /\ Adjust(moved).got \subseteq kept
          /\ \A k \in Nat : Covers(Adjust(moved), k) <=> Covers(moved, k)
        <3>1. kept \in SUBSET (i + 1 .. i + 1 + size)
            BY DEF WindowOK
        <3>2. /\ i + 1 \in Nat
              /\ i + 1 + size \in Nat
              /\ i + 1 + size <= i + 1 + size
            OBVIOUS
        <3> HIDE DEF kept
        <3>3. QED
            BY <3>1, <3>2, AdjustProperties
    <2>3. \A k \in Nat : Covers(w, k) => Covers(moved, k)
        BY <1>1 DEF Covers, WindowOK
    <2>4. /\ Adjust(moved).lo \in Nat
          /\ w.lo \in Nat
        BY <2>2 DEF WindowOK
    <2>5. QED
        BY <1>1, <2>1, <2>2, <2>3, <2>4
<1>2. CASE ~(w.lo <= i)
    BY <1>2 DEF SkipThrough, WindowOK
<1>3. QED
    BY <1>1, <1>2

-----------------------------------------------------------------------------
(* The invariant.                                                          *)

\* What OrderedQueue keeps for a channel.
QueueOK(q) ==
    /\ q = [next |-> q.next, held |-> q.held]
    /\ q.next \in Nat
    /\ q.held = [k \in DOMAIN q.held |-> q.held[k]]
    /\ DOMAIN q.held \in SUBSET Nat
    /\ IsFiniteSet(DOMAIN q.held)
    /\ \A k \in DOMAIN q.held : q.held[k] \in Seq(Frame)

\* What FragmentQueue keeps for a split packet: parts of distinct indices.
SetOK(set) ==
    /\ set = [size |-> set.size, first |-> set.first, parts |-> set.parts, age |-> set.age]
    /\ set.size \in Nat
    /\ set.age \in 0 .. StaleSeconds + 1
    /\ set.first \in set.parts
    /\ set.parts \in SUBSET Frame
    /\ IsFiniteSet(set.parts)
    /\ \A f \in set.parts : IsSplit(f) /\ Split(f).index \in Nat
    /\ \A f, g \in set.parts : Split(f).index = Split(g).index => f = g

\* What is kept about a requested sequence.
RequestOK(r) ==
    /\ r = [age |-> r.age, since |-> r.since, attempts |-> r.attempts]
    /\ r.age \in 0 .. NackTtl + 1
    /\ r.since \in 0 .. NackInterval
    /\ r.attempts \in 0 .. NackMaxAttempts

WindowsOK == WindowOK(window, SequenceWindow) /\ WindowOK(rwindow, ReliableSize)

NackOK ==
    /\ nack = [s \in DOMAIN nack |-> nack[s]]
    /\ DOMAIN nack \in SUBSET Nat
    /\ IsFiniteSet(DOMAIN nack)
    /\ \A s \in DOMAIN nack : RequestOK(nack[s])

FragsOK ==
    /\ frags = [id \in DOMAIN frags |-> frags[id]]
    /\ DOMAIN frags \in SUBSET SplitId
    /\ stale \in SUBSET DOMAIN frags
    /\ \A id \in DOMAIN frags : SetOK(frags[id])

OrderOK ==
    /\ order = [c \in Channel |-> order[c]]
    /\ \A c \in Channel : QueueOK(order[c])

FlowOK ==
    /\ phase \in {"idle", "frames", "expire"}
    /\ todo \in Seq(Frame)
    /\ seeded \in BOOLEAN
    /\ rseeded \in BOOLEAN
    /\ ackPending \in SUBSET Nat
    /\ acked \in SUBSET Nat
    /\ ready \in Seq(Seq(Frame))
    /\ delivered \in Seq(Seq(Frame))

\* The sequence window has passed or holds what was acknowledged, so insert()
\* neither accepts it again nor counts it as missing.
Accounted == \A s \in acked \cup ackPending : Covers(window, s)

\* Before the first datagram there is nothing the seeding could uncover.
NothingBeforeSeed == ~seeded => acked \cup ackPending = {} /\ DOMAIN nack = {}

\* The stale ids are collected and dropped within one tick.
StaleInTick == phase # "expire" => stale = {}

TypeInv == FlowOK /\ WindowsOK /\ NackOK /\ FragsOK /\ OrderOK

IInv ==
    /\ TypeInv
    /\ StaleInTick
    /\ Accounted
    /\ NothingBeforeSeed
    /\ AckNackDisjoint
    /\ EagerRelease

----------------------------------------------------------------------------
(* Lemmas about the operators of the order channels and split packets. *)

LEMMA SizesAreNatural ==
    SequenceWindow \in Nat /\ ReliableSize \in Nat
BY RecvAssumption

\* A frame on an order channel names one of the channels and has an index.
LEMMA IndexedFrame ==
    ASSUME NEW f \in Frame, Indexed(f)
    PROVE  f.chan \in Channel /\ f.oidx \in Nat
BY RecvAssumption DEF Channel, FrameOK

\* flush() releases whole payloads, keeps the queue well formed, moves on and
\* leaves nothing behind that is next in line.
LEMMA FlushProperties ==
    ASSUME NEW q, QueueOK(q)
    PROVE  /\ QueueOK(Flushed(q))
           /\ Flushed(q).next >= q.next
           /\ Flushed(q).next \notin DOMAIN Flushed(q).held
           /\ Run(q) \in Seq(Seq(Frame))
<1> DEFINE gap == FirstGap(DOMAIN q.held, q.next)
<1>1. /\ gap \in Nat
      /\ gap >= q.next
      /\ gap \notin DOMAIN q.held
      /\ \A j \in q.next .. gap - 1 : j \in DOMAIN q.held
    BY FirstGapProperties DEF QueueOK
<1>2. Flushed(q) = [next |-> gap, held |-> Without(q.held, q.next .. (gap - 1))]
    BY DEF Flushed
<1>3. Run(q) = [k \in 1 .. (gap - q.next) |-> q.held[q.next + k - 1]]
    BY DEF Run
<1> HIDE DEF gap
<1>4. IsFiniteSet(DOMAIN q.held \ (q.next .. (gap - 1)))
    BY FS_Difference DEF QueueOK
<1>5. QueueOK(Flushed(q))
    BY <1>1, <1>2, <1>4 DEF QueueOK, Without
<1>6. Run(q) \in Seq(Seq(Frame))
    <2>1. gap - q.next \in Nat
        BY <1>1 DEF QueueOK
    <2>2. \A k \in 1 .. (gap - q.next) : q.held[q.next + k - 1] \in Seq(Frame)
        BY <1>1 DEF QueueOK
    <2>3. QED
        BY <1>3, <2>1, <2>2
<1>7. Flushed(q).next \notin DOMAIN Flushed(q).held
    BY <1>1, <1>2 DEF Without
<1>8. QED
    BY <1>1, <1>2, <1>5, <1>6, <1>7

\* The number of parts before a part, its rank, grows with the index.
LEMMA RanksGrow ==
    ASSUME NEW set, SetOK(set), NEW f \in set.parts, NEW g \in set.parts
    PROVE  /\ Cardinality(Before(set.parts, f)) \in Nat
           /\ Split(f).index < Split(g).index <=>
                  Cardinality(Before(set.parts, f)) < Cardinality(Before(set.parts, g))
<1> DEFINE B(h) == Before(set.parts, h)
<1>1. \A h \in set.parts : IsFiniteSet(B(h)) /\ Cardinality(B(h)) \in Nat
    <2> TAKE h \in set.parts
    <2>1. B(h) \subseteq set.parts /\ IsFiniteSet(set.parts)
        BY DEF Before, SetOK
    <2> HIDE DEF B
    <2>2. QED
        BY <2>1, FS_Subset, FS_CardinalityType
<1>2. ASSUME Split(f).index < Split(g).index
      PROVE  Cardinality(B(f)) < Cardinality(B(g))
    <2>1. B(f) \subseteq B(g) /\ f \in B(g) /\ f \notin B(f)
        BY <1>2 DEF Before, SetOK
    <2> HIDE DEF B
    <2>2. Cardinality(B(f)) <= Cardinality(B(g)) /\ Cardinality(B(f)) # Cardinality(B(g))
        BY <1>1, <2>1, FS_Subset
    <2>3. QED
        BY <1>1, <2>2
<1>3. ASSUME ~(Split(f).index < Split(g).index)
      PROVE  ~(Cardinality(B(f)) < Cardinality(B(g)))
    <2>1. B(g) \subseteq B(f)
        BY <1>3 DEF Before, SetOK
    <2> HIDE DEF B
    <2>2. Cardinality(B(g)) <= Cardinality(B(f))
        BY <1>1, <2>1, FS_Subset
    <2>3. QED
        BY <1>1, <2>2
<1>4. QED
    BY <1>1, <1>2, <1>3

LEMMA Places ==
    ASSUME NEW n \in Nat, n # 0
    PROVE  IsFiniteSet(0 .. n - 1) /\ Cardinality(0 .. n - 1) = n
<1> DEFINE last == n - 1
<1>1. last \in Int /\ ~(0 > last) /\ last - 0 + 1 = n
    OBVIOUS
<1> HIDE DEF last
<1>2. /\ IsFiniteSet(0 .. last)
      /\ Cardinality(0 .. last) = IF 0 > last THEN 0 ELSE last - 0 + 1
    BY <1>1, FS_Interval
<1>3. Cardinality(0 .. last) = n
    BY <1>1, <1>2
<1>4. QED
    BY <1>2, <1>3 DEF last

\* In a complete set there is a part of every rank: as many parts as ranks, and
\* no two with the same one.
LEMMA RanksTaken ==
    ASSUME NEW set, SetOK(set), Cardinality(set.parts) = set.size
    PROVE  /\ set.size \in Nat /\ set.size # 0
           /\ \A f \in set.parts : Cardinality(Before(set.parts, f)) \in 0 .. set.size - 1
           /\ \A i \in 0 .. set.size - 1 :
                  \E f \in set.parts : Cardinality(Before(set.parts, f)) = i
<1> DEFINE rank == [f \in set.parts |-> Cardinality(Before(set.parts, f))]
<1>1. set.size \in Nat /\ set.size # 0
    <2>1. IsFiniteSet(set.parts) /\ set.parts # {}
        BY DEF SetOK
    <2>2. QED
        BY <2>1, FS_EmptySet DEF SetOK
<1>2. \A f \in set.parts : rank[f] \in 0 .. set.size - 1
    <2> TAKE f \in set.parts
    <2> DEFINE B == Before(set.parts, f)
    <2>1. B \subseteq set.parts /\ f \notin B /\ IsFiniteSet(set.parts)
        BY DEF Before, SetOK
    <2> HIDE DEF B
    <2>2. Cardinality(B) <= set.size /\ Cardinality(B) # set.size
        BY <2>1, FS_Subset
    <2>3. Cardinality(B) \in Nat
        BY <2>1, FS_Subset, FS_CardinalityType
    <2>4. QED
        BY <1>1, <2>2, <2>3 DEF B
<1>3. ASSUME NEW f \in set.parts, NEW g \in set.parts, rank[f] = rank[g]
      PROVE  f = g
    <2>1. ~(rank[f] < rank[g]) /\ ~(rank[g] < rank[f])
        BY <1>1, <1>2, <1>3
    <2>2. ~(Split(f).index < Split(g).index) /\ ~(Split(g).index < Split(f).index)
        BY <2>1, RanksGrow
    <2>3. QED
        BY <2>2 DEF SetOK
<1>4. rank \in Injection(set.parts, 0 .. set.size - 1)
    <2>1. rank \in [set.parts -> 0 .. set.size - 1]
        BY <1>2
    <2>2. QED
        BY <1>3, <2>1 DEF Injection, IsInjective
<1>5. rank \in Surjection(set.parts, 0 .. set.size - 1)
    <2> HIDE DEF rank
    <2>1. QED
        BY <1>1, <1>4, Places, FS_Injection
<1>6. QED
    BY <1>1, <1>2, <1>5 DEF Surjection

\* A complete split packet is put together from its parts.
LEMMA AssembledType ==
    ASSUME NEW set, SetOK(set), Cardinality(set.parts) = set.size
    PROVE  Assembled(set) \in Seq(Frame)
<1>1. /\ set.size \in Nat
      /\ \A i \in 0 .. set.size - 1 :
             \E f \in set.parts : Cardinality(Before(set.parts, f)) = i
    BY RanksTaken
<1>2. \A k \in 1 .. set.size : k - 1 \in 0 .. set.size - 1
    BY <1>1
<1>3. \A k \in 1 .. set.size :
          (CHOOSE f \in set.parts : Cardinality(Before(set.parts, f)) = k - 1) \in Frame
    BY <1>1, <1>2 DEF SetOK
<1>4. QED
    BY <1>1, <1>3 DEF Assembled

\* Putting a payload in its queue keeps the queues well formed and eager.
LEMMA EnqueueProperties ==
    ASSUME OrderOK, EagerRelease, ready \in Seq(Seq(Frame)),
           NEW f \in Frame, NEW payload \in Seq(Frame), Enqueue(f, payload)
    PROVE  OrderOK' /\ EagerRelease' /\ ready' \in Seq(Seq(Frame))
<1> DEFINE q == order[f.chan]
           added == [q EXCEPT !.held = With(@, f.oidx, payload)]
<1>1. CASE Ordered(f) /\ f.oidx >= q.next /\ f.oidx \notin DOMAIN q.held
    <2>1. /\ order' = [order EXCEPT ![f.chan] = Flushed(added)]
          /\ ready' = ready \o Run(added)
        BY <1>1 DEF Enqueue
    <2>2. f.chan \in Channel /\ f.oidx \in Nat
        BY <1>1, IndexedFrame DEF Ordered, Indexed
    <2>3. QueueOK(added)
        <3>1. QueueOK(q)
            BY <2>2 DEF OrderOK
        <3>2. added = [next |-> q.next, held |-> With(q.held, f.oidx, payload)]
            BY <3>1 DEF QueueOK
        <3>3. IsFiniteSet(DOMAIN q.held \cup {f.oidx})
            BY <3>1, FS_AddElement DEF QueueOK
        <3> HIDE DEF q, added
        <3>4. QED
            BY <2>2, <3>1, <3>2, <3>3 DEF QueueOK, With
    <2> HIDE DEF added
    <2>4. /\ QueueOK(Flushed(added))
          /\ Flushed(added).next \notin DOMAIN Flushed(added).held
          /\ Run(added) \in Seq(Seq(Frame))
        BY <2>3, FlushProperties
    <2>5. order' = [c \in Channel |-> IF c = f.chan THEN Flushed(added) ELSE order[c]]
        BY <2>1, <2>2 DEF OrderOK
    <2>6. OrderOK' /\ EagerRelease'
        BY <2>4, <2>5 DEF OrderOK, EagerRelease
    <2>7. QED
        BY <2>1, <2>4, <2>6
<1>2. CASE Ordered(f) /\ ~(f.oidx >= q.next /\ f.oidx \notin DOMAIN q.held)
    BY <1>2 DEF Enqueue, OrderOK, EagerRelease
<1>3. CASE ~Ordered(f)
    <2>1. ready' = Append(ready, payload) /\ order' = order
        BY <1>3 DEF Enqueue
    <2>2. ready' \in Seq(Seq(Frame))
        BY <2>1
    <2>3. QED
        BY <2>1, <2>2 DEF OrderOK, EagerRelease
<1>4. QED
    BY <1>1, <1>2, <1>3

----------------------------------------------------------------------------
(* Every action preserves the invariant. *)

LEMMA InitInv == RecvInit => IInv
<1> SUFFICES ASSUME RecvInit
             PROVE  IInv
    OBVIOUS
<1> USE RecvAssumption DEF RecvInit
<1>1. FlowOK
    <2>1. <<>> \in Seq(Frame) /\ <<>> \in Seq(Seq(Frame))
        OBVIOUS
    <2>2. QED
        BY <2>1 DEF FlowOK
<1>2. WindowsOK
    BY DEF WindowsOK, WindowOK, NewWindow
<1>3. NackOK
    BY FS_EmptySet DEF NackOK
<1>4. FragsOK
    BY DEF FragsOK
<1>5. OrderOK
    BY FS_EmptySet DEF OrderOK, QueueOK
<1>6. Accounted /\ NothingBeforeSeed /\ AckNackDisjoint /\ EagerRelease /\ StaleInTick
    BY DEF Accounted, NothingBeforeSeed, AckNackDisjoint, EagerRelease, StaleInTick
<1>7. QED
    BY <1>1, <1>2, <1>3, <1>4, <1>5, <1>6 DEF IInv, TypeInv

\* The window insert() works on: the seeded one covers nothing that matters.
LEMMA SeededProperties ==
    ASSUME IInv, NEW seq \in Nat
    PROVE  /\ WindowOK(Seeded(seq), SequenceWindow)
           /\ \A s \in acked \cup ackPending : Covers(Seeded(seq), s)
           /\ Seeded(seq).got \cap DOMAIN nack = {}
<1>1. CASE seeded
    BY <1>1 DEF IInv, TypeInv, WindowsOK, Accounted, AckNackDisjoint, Seeded
<1>2. CASE ~seeded
    BY <1>2, RecvAssumption
    DEF IInv, NothingBeforeSeed, Seeded, SeedStart, WindowOK
<1>3. QED
    BY <1>1, <1>2

\* What is requested below an arrival is not covered by the window.
LEMMA MissingProperties ==
    ASSUME NEW w, NEW seq \in Nat, WindowOK(w, SequenceWindow)
    PROVE  /\ \A s \in Missing(w, seq) : s \in Nat /\ s # seq /\ ~Covers(w, s)
           /\ IsFiniteSet(Missing(w, seq))
<1>1. \A s \in Missing(w, seq) : s \in Nat /\ s # seq /\ ~Covers(w, s)
    BY RecvAssumption DEF Missing, WindowOK, Covers
<1>2. Missing(w, seq) \in SUBSET (0 .. seq)
    BY RecvAssumption DEF Missing, WindowOK
<1>3. IsFiniteSet(0 .. seq)
    BY FS_Interval
<1>4. QED
    BY <1>1, <1>2, <1>3, FS_Subset

LEMMA InsertInv ==
    ASSUME IInv, NEW d \in Datagram, InsertDatagram(d)
    PROVE  IInv'
<1> DEFINE w == Seeded(d.seq)
           known == Without(nack, {d.seq})
           moved == InsertIndex(w, d.seq)
           wanted == Missing(moved, d.seq) \ DOMAIN known
<1>1. /\ d.seq \in Nat
      /\ d.frames \in Seq(Frame)
    BY RecvAssumption
<1>2. /\ WindowOK(w, SequenceWindow)
      /\ \A s \in acked \cup ackPending : Covers(w, s)
      /\ w.got \cap DOMAIN nack = {}
    BY <1>1, SeededProperties
<1>3. /\ DOMAIN known = DOMAIN nack \ {d.seq}
      /\ known = [s \in DOMAIN known |-> known[s]]
      /\ \A s \in DOMAIN known : known[s] = nack[s]
    BY DEF Without
<1>4. UNCHANGED <<stale, rseeded, rwindow, frags, order, ready, delivered, acked>>
    BY DEF InsertDatagram
<1>5. FragsOK' /\ OrderOK' /\ EagerRelease' /\ StaleInTick'
    BY <1>4 DEF InsertDatagram, IInv, TypeInv, FragsOK, OrderOK, EagerRelease, StaleInTick
<1>6. seeded'
    BY DEF InsertDatagram
<1>7. CASE Accepts(w, SequenceWindow, d.seq)
    <2>1. /\ window' = moved
          /\ nack' = [s \in DOMAIN known \cup wanted |->
                         IF s \in wanted
                         THEN [age |-> 0, since |-> 0, attempts |-> 0]
                         ELSE known[s]]
          /\ ackPending' = ackPending \cup {d.seq}
          /\ todo' = d.frames
        BY <1>7 DEF InsertDatagram
    <2>2. /\ WindowOK(moved, SequenceWindow)
          /\ moved.got \subseteq w.got \cup {d.seq}
          /\ \A k \in Nat : Covers(moved, k) <=> Covers(w, k) \/ k = d.seq
        BY <1>1, <1>2, <1>7, InsertProperties, SizesAreNatural
    <2>3. /\ \A s \in wanted : s \in Nat /\ s # d.seq /\ ~Covers(moved, s)
          /\ IsFiniteSet(wanted)
        <3>1. /\ \A s \in Missing(moved, d.seq) :
                    s \in Nat /\ s # d.seq /\ ~Covers(moved, s)
              /\ IsFiniteSet(Missing(moved, d.seq))
            BY <1>1, <2>2, MissingProperties
        <3> HIDE DEF moved, known
        <3>2. QED
            BY <3>1, FS_Difference
    <2> HIDE DEF w, known, moved, wanted
    <2>4. FlowOK' /\ WindowsOK'
        BY <1>1, <1>4, <1>6, <2>1, <2>2
        DEF InsertDatagram, IInv, TypeInv, FlowOK, WindowsOK
    <2>5. NackOK'
        <3>1. DOMAIN nack' = (DOMAIN nack \ {d.seq}) \cup wanted
            BY <1>3, <2>1
        <3>2. IsFiniteSet((DOMAIN nack \ {d.seq}) \cup wanted)
            BY <2>3, FS_RemoveElement, FS_Union DEF IInv, TypeInv, NackOK
        <3>3. QED
            BY <1>3, <2>1, <2>3, <3>1, <3>2, RecvAssumption
            DEF IInv, TypeInv, NackOK, RequestOK
    <2>6. Accounted'
        BY <1>1, <1>2, <1>4, <2>1, <2>2 DEF Accounted, IInv, TypeInv, FlowOK
    <2>7. AckNackDisjoint'
        <3>1. DOMAIN nack' = (DOMAIN nack \ {d.seq}) \cup wanted
            BY <1>3, <2>1
        <3>2. \A s \in wanted : s \notin moved.got
            BY <2>3 DEF Covers
        <3>3. \A s \in wanted : s \notin acked \cup ackPending \cup {d.seq}
            BY <1>2, <2>2, <2>3
        <3>4. QED
            BY <1>2, <1>4, <2>1, <2>2, <3>1, <3>2, <3>3 DEF AckNackDisjoint, IInv
    <2>8. QED
        BY <1>5, <1>6, <2>4, <2>5, <2>6, <2>7 DEF IInv, TypeInv, NothingBeforeSeed
<1>8. CASE ~Accepts(w, SequenceWindow, d.seq)
    <2>1. /\ window' = w
          /\ nack' = known
          /\ todo' = <<>>
          /\ ackPending' = ackPending
        BY <1>8 DEF InsertDatagram
    <2> HIDE DEF w, known
    <2>2. FlowOK' /\ WindowsOK'
        BY <1>2, <1>4, <1>6, <2>1
        DEF InsertDatagram, IInv, TypeInv, FlowOK, WindowsOK
    <2>3. NackOK'
        BY <1>3, <2>1, FS_RemoveElement DEF IInv, TypeInv, NackOK
    <2>4. Accounted' /\ AckNackDisjoint'
        BY <1>2, <1>3, <1>4, <2>1 DEF Accounted, AckNackDisjoint, IInv
    <2>5. QED
        BY <1>5, <1>6, <2>2, <2>3, <2>4 DEF IInv, TypeInv, NothingBeforeSeed
<1>9. QED
    BY <1>7, <1>8

\* FragmentQueue::insert keeps a split packet's parts distinct.
LEMMA PartProperties ==
    ASSUME FragsOK, NEW f \in Frame, IsSplit(f)
    PROVE  SetOK(WithPart(f)) /\ Split(f).id \in SplitId
<1> DEFINE id == Split(f).id
           set == frags[id]
<1>1. /\ Split(f).size \in Nat
      /\ Split(f).index \in Nat
      /\ id \in SplitId
    BY RecvAssumption DEF FrameOK, SplitId
<1>2. CASE id \notin DOMAIN frags
    <2>1. WithPart(f) = [size |-> Split(f).size, first |-> f, parts |-> {f}, age |-> 0]
        BY <1>2 DEF WithPart
    <2>2. IsFiniteSet({f})
        BY FS_Singleton
    <2>3. QED
        BY <1>1, <2>1, <2>2, RecvAssumption DEF SetOK
<1>3. CASE id \in DOMAIN frags
    <2>1. SetOK(set)
        BY <1>3 DEF FragsOK
    <2>2. CASE \/ Split(f).index >= set.size
               \/ \E g \in set.parts : Split(g).index = Split(f).index
        <3>1. WithPart(f) = set
            BY <1>3, <2>2 DEF WithPart
        <3> HIDE DEF set, id
        <3>2. SetOK(WithPart(f))
            BY <2>1, <3>1
        <3>3. QED
            BY <1>1, <3>2 DEF id
    <2>3. CASE ~ \/ Split(f).index >= set.size
                 \/ \E g \in set.parts : Split(g).index = Split(f).index
        <3>1. WithPart(f) = [set EXCEPT !.parts = @ \cup {f}, !.age = 0]
            BY <1>3, <2>3 DEF WithPart
        <3>2. WithPart(f) = [size |-> set.size, first |-> set.first,
                             parts |-> set.parts \cup {f}, age |-> 0]
            BY <2>1, <3>1 DEF SetOK
        <3>3. IsFiniteSet(set.parts \cup {f})
            BY <2>1, FS_AddElement DEF SetOK
        <3> HIDE DEF set, id
        <3>4. QED
            BY <1>1, <2>1, <2>3, <3>2, <3>3, RecvAssumption DEF SetOK, id
    <2>4. QED
        BY <2>2, <2>3
<1>4. QED
    BY <1>1, <1>2, <1>3

LEMMA SplitProperties ==
    ASSUME FragsOK, OrderOK, EagerRelease, ready \in Seq(Seq(Frame)),
           stale = {}, stale' = stale,
           NEW f \in Frame, IsSplit(f), HandleSplit(f)
    PROVE  FragsOK' /\ OrderOK' /\ EagerRelease' /\ ready' \in Seq(Seq(Frame))
<1> DEFINE set == WithPart(f)
           id == Split(f).id
<1>1. SetOK(set) /\ id \in SplitId
    BY PartProperties
<1>2. CASE Split(f).size > MaxFrags
    BY <1>2 DEF HandleSplit, FragsOK, OrderOK, EagerRelease
<1>3. CASE ~(Split(f).size > MaxFrags) /\ Cardinality(set.parts) = set.size
    <2>1. frags' = Without(frags, {id}) /\ Enqueue(f, Assembled(set))
        BY <1>3 DEF HandleSplit
    <2>2. Assembled(set) \in Seq(Frame)
        BY <1>1, <1>3, AssembledType
    <2>3. FragsOK'
        BY <2>1 DEF FragsOK, Without
    <2>4. QED
        BY <2>1, <2>2, <2>3, EnqueueProperties
<1>4. CASE ~(Split(f).size > MaxFrags) /\ Cardinality(set.parts) # set.size
    <2>1. frags' = With(frags, id, set) /\ UNCHANGED <<order, ready>>
        BY <1>4 DEF HandleSplit
    <2> HIDE DEF set, id
    <2>2. FragsOK'
        BY <1>1, <2>1 DEF FragsOK, With
    <2>3. QED
        BY <2>1, <2>2 DEF OrderOK, EagerRelease
<1>5. QED
    BY <1>2, <1>3, <1>4

LEMMA HandleFrameInv ==
    ASSUME IInv, HandleFrame
    PROVE  IInv'
<1> DEFINE f == Head(todo)
           rw == IF rseeded THEN rwindow ELSE SeedStart(f.ridx)
<1>1. /\ phase = "frames"
      /\ todo # <<>>
      /\ todo' = Tail(todo)
      /\ rseeded' = (rseeded \/ Reliable(f))
      /\ UNCHANGED <<phase, stale, seeded, window, ackPending, nack, delivered, acked>>
    BY DEF HandleFrame
<1>2. f \in Frame /\ todo' \in Seq(Frame)
    BY <1>1 DEF IInv, TypeInv, FlowOK
<1>3. stale = {}
    BY <1>1 DEF IInv, StaleInTick
<1>4. rwindow' = IF Reliable(f) /\ Accepts(rw, ReliableSize, f.ridx)
                 THEN InsertIndex(rw, f.ridx) ELSE rwindow
    BY DEF HandleFrame
<1>5. WindowsOK'
    <2>1. CASE Reliable(f)
        <3>1. f.ridx \in Nat
            BY <1>2, <2>1, RecvAssumption DEF FrameOK
        <3>2. WindowOK(rw, ReliableSize)
            BY <3>1, SizesAreNatural
            DEF IInv, TypeInv, WindowsOK, SeedStart, WindowOK
        <3>3. Accepts(rw, ReliableSize, f.ridx) =>
                  WindowOK(InsertIndex(rw, f.ridx), ReliableSize)
            BY <3>1, <3>2, InsertProperties, SizesAreNatural
        <3>4. QED
            BY <1>1, <1>4, <2>1, <3>3 DEF IInv, TypeInv, WindowsOK
    <2>2. CASE ~Reliable(f)
        BY <1>1, <1>4, <2>2 DEF IInv, TypeInv, WindowsOK
    <2>3. QED
        BY <2>1, <2>2
<1>6. FragsOK' /\ OrderOK' /\ EagerRelease' /\ ready' \in Seq(Seq(Frame))
    <2>1. FragsOK /\ OrderOK /\ EagerRelease /\ ready \in Seq(Seq(Frame))
        BY DEF IInv, TypeInv, FlowOK
    <2>2. CASE Reliable(f) /\ ~Accepts(rw, ReliableSize, f.ridx)
        <3>1. UNCHANGED <<frags, order, ready>>
            BY <2>2 DEF HandleFrame
        <3>2. QED
            BY <1>1, <2>1, <3>1 DEF FragsOK, OrderOK, EagerRelease
    <2>3. CASE ~(Reliable(f) /\ ~Accepts(rw, ReliableSize, f.ridx)) /\ IsSplit(f)
        <3>1. HandleSplit(f)
            BY <2>3 DEF HandleFrame
        <3>2. QED
            BY <1>1, <1>2, <1>3, <2>1, <2>3, <3>1, SplitProperties
    <2>4. CASE ~(Reliable(f) /\ ~Accepts(rw, ReliableSize, f.ridx)) /\ ~IsSplit(f)
        <3>1. Enqueue(f, <<f>>) /\ UNCHANGED frags
            BY <2>4 DEF HandleFrame
        <3>2. <<f>> \in Seq(Frame)
            BY <1>2
        <3>3. OrderOK' /\ EagerRelease' /\ ready' \in Seq(Seq(Frame))
            BY <1>2, <2>1, <3>1, <3>2, EnqueueProperties
        <3>4. QED
            BY <1>1, <2>1, <3>1, <3>3 DEF FragsOK
    <2>5. QED
        BY <2>2, <2>3, <2>4
<1>7. rseeded' \in BOOLEAN
    BY <1>1 DEF IInv, TypeInv, FlowOK
<1> HIDE DEF f, rw
<1>8. FlowOK' /\ NackOK'
    BY <1>1, <1>2, <1>6, <1>7 DEF IInv, TypeInv, FlowOK, NackOK
<1>9. /\ StaleInTick'
      /\ Accounted'
      /\ NothingBeforeSeed'
      /\ AckNackDisjoint'
    BY <1>1 DEF IInv, StaleInTick, Accounted, NothingBeforeSeed, AckNackDisjoint
<1>10. QED
    BY <1>5, <1>6, <1>8, <1>9 DEF IInv, TypeInv

LEMMA FlushInv ==
    ASSUME IInv, Flush
    PROVE  IInv'
<1>1. /\ phase' = "idle"
      /\ delivered' = delivered \o ready
      /\ ready' = <<>>
      /\ UNCHANGED <<todo, stale, seeded, window, rseeded, rwindow, ackPending,
                     nack, frags, order, acked>>
      /\ phase = "frames"
    BY DEF Flush
<1>2. delivered' \in Seq(Seq(Frame)) /\ ready' \in Seq(Seq(Frame))
    BY <1>1 DEF IInv, TypeInv, FlowOK
<1>3. TypeInv'
    BY <1>1, <1>2 DEF IInv, TypeInv, FlowOK, WindowsOK, NackOK, FragsOK, OrderOK
<1>4. QED
    BY <1>1, <1>3
    DEF IInv, StaleInTick, Accounted, NothingBeforeSeed, AckNackDisjoint, EagerRelease

LEMMA TickAcksInv ==
    ASSUME IInv, TickAcks
    PROVE  IInv'
<1>1. /\ phase' = "expire"
      /\ acked' = acked \cup ackPending
      /\ ackPending' = {}
      /\ stale' = {id \in DOMAIN frags : frags[id].age > StaleSeconds}
      /\ UNCHANGED <<todo, seeded, window, rseeded, rwindow, nack, frags, order,
                     ready, delivered>>
    BY DEF TickAcks
<1>2. acked' \cup ackPending' = acked \cup ackPending
    BY <1>1
<1>3. TypeInv'
    BY <1>1 DEF IInv, TypeInv, FlowOK, WindowsOK, NackOK, FragsOK, OrderOK
<1>4. QED
    BY <1>1, <1>2, <1>3
    DEF IInv, StaleInTick, Accounted, NothingBeforeSeed, AckNackDisjoint, EagerRelease

LEMMA ExpireInv ==
    ASSUME IInv, NEW id \in SplitId, ExpireSet(id)
    PROVE  IInv'
<1> DEFINE f == frags[id].first
           q == order[f.chan]
           jumped == [q EXCEPT !.next = IF @ <= f.oidx THEN f.oidx + 1 ELSE @]
<1>1. /\ phase = "expire"
      /\ id \in stale
      /\ stale' = stale \ {id}
      /\ frags' = Without(frags, {id})
      /\ UNCHANGED <<phase, todo, seeded, window, rseeded, rwindow, ackPending,
                     nack, delivered, acked>>
    BY DEF ExpireSet
<1>2. FragsOK'
    BY <1>1 DEF IInv, TypeInv, FragsOK, Without
<1>3. OrderOK' /\ EagerRelease' /\ ready' \in Seq(Seq(Frame))
    <2>1. CASE Indexed(f)
        <3>1. /\ order' = [order EXCEPT ![f.chan] = Flushed(jumped)]
              /\ ready' = ready \o Run(jumped)
            BY <2>1 DEF ExpireSet
        <3>2. f \in Frame
            BY <1>1 DEF IInv, TypeInv, FragsOK, SetOK
        <3>3. f.chan \in Channel /\ f.oidx \in Nat
            BY <2>1, <3>2, IndexedFrame
        <3>4. QueueOK(q)
            BY <3>3 DEF IInv, TypeInv, OrderOK
        <3>5. QueueOK(jumped)
            <4> HIDE DEF q, f
            <4>1. jumped = [next |-> IF q.next <= f.oidx THEN f.oidx + 1 ELSE q.next,
                            held |-> q.held]
                BY <3>4 DEF QueueOK
            <4> HIDE DEF jumped
            <4>2. QED
                BY <3>3, <3>4, <4>1 DEF QueueOK
        <3> HIDE DEF jumped
        <3>6. /\ QueueOK(Flushed(jumped))
              /\ Flushed(jumped).next \notin DOMAIN Flushed(jumped).held
              /\ Run(jumped) \in Seq(Seq(Frame))
            BY <3>5, FlushProperties
        <3>7. order' = [c \in Channel |-> IF c = f.chan THEN Flushed(jumped) ELSE order[c]]
            BY <3>1, <3>3 DEF IInv, TypeInv, OrderOK
        <3>8. OrderOK' /\ EagerRelease'
            BY <3>6, <3>7 DEF IInv, TypeInv, OrderOK, EagerRelease
        <3>9. QED
            BY <3>1, <3>6, <3>8 DEF IInv, TypeInv, FlowOK
    <2>2. CASE ~Indexed(f)
        <3>1. UNCHANGED <<order, ready>>
            BY <2>2 DEF ExpireSet
        <3>2. QED
            BY <3>1 DEF IInv, TypeInv, FlowOK, OrderOK, EagerRelease
    <2>3. QED
        BY <2>1, <2>2
<1>4. FlowOK' /\ WindowsOK' /\ NackOK'
    BY <1>1, <1>3 DEF IInv, TypeInv, FlowOK, WindowsOK, NackOK
<1>5. QED
    BY <1>1, <1>2, <1>3, <1>4
    DEF IInv, TypeInv, StaleInTick, Accounted, NothingBeforeSeed, AckNackDisjoint

LEMMA TickNacksInv ==
    ASSUME IInv, TickNacks
    PROVE  IInv'
<1> DEFINE last == CHOOSE s \in Expired : \A t \in Expired : t <= s
<1>1. /\ phase' = "idle"
      /\ stale = {}
      /\ window' = IF Expired = {} THEN window
                   ELSE SkipThrough(window, SequenceWindow, last)
      /\ nack' = [s \in DOMAIN nack \ Expired |->
                     IF s \in Requested
                     THEN [nack[s] EXCEPT !.since = 0, !.attempts = @ + 1]
                     ELSE nack[s]]
      /\ UNCHANGED <<todo, stale, seeded, rseeded, rwindow, ackPending, frags,
                     order, ready, delivered, acked>>
    BY DEF TickNacks
<1>2. Expired \in SUBSET DOMAIN nack /\ IsFiniteSet(Expired)
    BY FS_Subset DEF Expired, IInv, TypeInv, NackOK
<1>3. Expired # {} => last \in Nat
    <2> SUFFICES ASSUME Expired # {}
                 PROVE  last \in Nat
        OBVIOUS
    <2>1. Expired \in SUBSET Nat
        BY <1>2 DEF IInv, TypeInv, NackOK
    <2>2. \E s \in Expired : \A t \in Expired : t <= s
        BY <1>2, <2>1, GreatestNatural
    <2>3. QED
        BY <2>1, <2>2
<1> HIDE DEF last
<1>4. /\ WindowOK(window', SequenceWindow)
      /\ window'.got \subseteq window.got
      /\ \A k \in Nat : Covers(window, k) => Covers(window', k)
    <2>1. WindowOK(window, SequenceWindow)
        BY DEF IInv, TypeInv, WindowsOK
    <2>2. CASE Expired = {}
        BY <1>1, <2>1, <2>2
    <2>3. CASE Expired # {}
        BY <1>1, <1>3, <2>1, <2>3, SkipProperties, SizesAreNatural
    <2>4. QED
        BY <2>2, <2>3
<1>5. DOMAIN nack' \in SUBSET DOMAIN nack
    BY <1>1
<1>6. NackOK'
    <2>1. IsFiniteSet(DOMAIN nack')
        BY <1>5, FS_Subset DEF IInv, TypeInv, NackOK
    <2>2. \A s \in DOMAIN nack' : RequestOK(nack'[s])
        <3> SUFFICES ASSUME NEW s \in DOMAIN nack'
                     PROVE  RequestOK(nack'[s])
            OBVIOUS
        <3>1. s \in DOMAIN nack /\ s \notin Expired
            BY <1>1
        <3>2. RequestOK(nack[s])
            BY <3>1 DEF IInv, TypeInv, NackOK
        <3>3. CASE s \in Requested
            <4>1. nack'[s] = [nack[s] EXCEPT !.since = 0, !.attempts = @ + 1]
                BY <1>1, <3>3
            <4>2. nack'[s] = [age |-> nack[s].age, since |-> 0,
                              attempts |-> nack[s].attempts + 1]
                BY <3>2, <4>1 DEF RequestOK
            <4>3. nack[s].attempts < NackMaxAttempts
                BY <3>1, <3>2, RecvAssumption DEF Expired, RequestOK
            <4>4. QED
                BY <3>2, <4>2, <4>3, RecvAssumption DEF RequestOK
        <3>4. CASE s \notin Requested
            BY <1>1, <3>2, <3>4
        <3>5. QED
            BY <3>3, <3>4
    <2>3. QED
        BY <1>1, <1>5, <2>1, <2>2 DEF IInv, TypeInv, NackOK
<1>7. FlowOK' /\ WindowsOK' /\ FragsOK' /\ OrderOK' /\ EagerRelease' /\ StaleInTick'
    BY <1>1, <1>4
    DEF IInv, TypeInv, FlowOK, WindowsOK, FragsOK, OrderOK, EagerRelease, StaleInTick
<1>8. Accounted' /\ AckNackDisjoint' /\ NothingBeforeSeed'
    BY <1>1, <1>4, <1>5
    DEF IInv, TypeInv, FlowOK, Accounted, AckNackDisjoint, NothingBeforeSeed
<1>9. QED
    BY <1>6, <1>7, <1>8 DEF IInv, TypeInv

LEMMA ClockInv ==
    ASSUME IInv, ClockTick
    PROVE  IInv'
<1>1. /\ frags' = [id \in DOMAIN frags |->
                      [frags[id] EXCEPT !.age = Capped(@, StaleSeconds + 1)]]
      /\ nack' = [s \in DOMAIN nack |->
                     [nack[s] EXCEPT !.age = Capped(@, NackTtl + 1),
                                     !.since = Capped(@, NackInterval)]]
      /\ UNCHANGED <<phase, todo, stale, seeded, window, rseeded, rwindow,
                     ackPending, order, ready, delivered, acked>>
    BY DEF ClockTick
<1>2. DOMAIN frags' = DOMAIN frags /\ DOMAIN nack' = DOMAIN nack
    BY <1>1
<1>3. FragsOK'
    <2>1. \A id \in DOMAIN frags : SetOK(frags'[id])
        <3> TAKE id \in DOMAIN frags
        <3>1. SetOK(frags[id])
            BY DEF IInv, TypeInv, FragsOK
        <3>2. frags'[id] = [size |-> frags[id].size, first |-> frags[id].first,
                            parts |-> frags[id].parts,
                            age |-> Capped(frags[id].age, StaleSeconds + 1)]
            BY <1>1, <3>1 DEF SetOK
        <3>3. Capped(frags[id].age, StaleSeconds + 1) \in 0 .. StaleSeconds + 1
            BY <3>1, RecvAssumption DEF SetOK, Capped
        <3>4. QED
            BY <3>1, <3>2, <3>3 DEF SetOK
    <2>2. QED
        BY <1>1, <1>2, <2>1 DEF IInv, TypeInv, FragsOK
<1>4. NackOK'
    <2>1. \A s \in DOMAIN nack : RequestOK(nack'[s])
        <3> TAKE s \in DOMAIN nack
        <3>1. RequestOK(nack[s])
            BY DEF IInv, TypeInv, NackOK
        <3>2. nack'[s] = [age |-> Capped(nack[s].age, NackTtl + 1),
                          since |-> Capped(nack[s].since, NackInterval),
                          attempts |-> nack[s].attempts]
            BY <1>1, <3>1 DEF RequestOK
        <3>3. /\ Capped(nack[s].age, NackTtl + 1) \in 0 .. NackTtl + 1
              /\ Capped(nack[s].since, NackInterval) \in 0 .. NackInterval
            BY <3>1, RecvAssumption DEF RequestOK, Capped
        <3>4. QED
            BY <3>1, <3>2, <3>3 DEF RequestOK
    <2>2. QED
        BY <1>1, <1>2, <2>1 DEF IInv, TypeInv, NackOK
<1>5. FlowOK' /\ WindowsOK' /\ OrderOK'
    BY <1>1 DEF IInv, TypeInv, FlowOK, WindowsOK, OrderOK
<1>6. QED
    BY <1>1, <1>2, <1>3, <1>4, <1>5
    DEF IInv, TypeInv, StaleInTick, Accounted, NothingBeforeSeed, AckNackDisjoint,
        EagerRelease

LEMMA StutterInv ==
    ASSUME IInv, UNCHANGED recvVars
    PROVE  IInv'
BY DEF recvVars, IInv, TypeInv, FlowOK, WindowsOK, NackOK, FragsOK, OrderOK,
       StaleInTick, Accounted, NothingBeforeSeed, AckNackDisjoint, EagerRelease

LEMMA StepInv ==
    ASSUME IInv, [RecvNext]_recvVars
    PROVE  IInv'
<1>1. CASE \E d \in Datagram : InsertDatagram(d)
    BY <1>1, InsertInv
<1>2. CASE HandleFrame
    BY <1>2, HandleFrameInv
<1>3. CASE Flush
    BY <1>3, FlushInv
<1>4. CASE TickAcks
    BY <1>4, TickAcksInv
<1>5. CASE \E id \in SplitId : ExpireSet(id)
    BY <1>5, ExpireInv
<1>6. CASE TickNacks
    BY <1>6, TickNacksInv
<1>7. CASE ClockTick
    BY <1>7, ClockInv
<1>8. CASE UNCHANGED recvVars
    BY <1>8, StutterInv
<1>9. QED
    BY <1>1, <1>2, <1>3, <1>4, <1>5, <1>6, <1>7, <1>8 DEF RecvNext

THEOREM Invariance == RecvSpec => []IInv
<1>1. RecvInit => IInv
    BY InitInv
<1>2. IInv /\ [RecvNext]_recvVars => IInv'
    BY StepInv
<1>3. QED
    BY <1>1, <1>2, PTL DEF RecvSpec

----------------------------------------------------------------------------
(* What follows from it. *)

\* The state of the receive queue keeps its shape.
THEOREM TypeCorrect == RecvSpec => []RecvTypeOK
<1>1. ASSUME IInv
      PROVE  RecvTypeOK
    <2>1. /\ window.lo \in Nat /\ window.got \subseteq Nat
          /\ rwindow.lo \in Nat /\ rwindow.got \subseteq Nat
        BY <1>1, SizesAreNatural DEF IInv, TypeInv, WindowsOK, WindowOK
    <2>2. /\ DOMAIN nack \subseteq Nat
          /\ \A s \in DOMAIN nack : /\ nack[s].age \in 0 .. NackTtl + 1
                                    /\ nack[s].since \in 0 .. NackInterval
                                    /\ nack[s].attempts \in 0 .. NackMaxAttempts
        BY <1>1 DEF IInv, TypeInv, NackOK, RequestOK
    <2>3. /\ DOMAIN frags \subseteq SplitId
          /\ stale \subseteq DOMAIN frags
          /\ \A id \in DOMAIN frags : /\ frags[id].parts \subseteq Frame
                                      /\ frags[id].first \in frags[id].parts
                                      /\ frags[id].age \in 0 .. StaleSeconds + 1
        BY <1>1 DEF IInv, TypeInv, FragsOK, SetOK
    <2>4. /\ DOMAIN order = Channel
          /\ \A c \in Channel : order[c].next \in Nat /\ DOMAIN order[c].held \subseteq Nat
        BY <1>1 DEF IInv, TypeInv, OrderOK, QueueOK
    <2>5. QED
        BY <1>1, <2>1, <2>2, <2>3, <2>4 DEF IInv, TypeInv, FlowOK, RecvTypeOK
<1>2. QED
    BY <1>1, Invariance, PTL

\* A sequence is never both acknowledged and requested (Ackable::ack and
\* nack_queue work on disjoint sets, across window jumps and re-arrivals).
THEOREM AckedNeverRequested == RecvSpec => []AckNackDisjoint
<1>1. IInv => AckNackDisjoint
    BY DEF IInv
<1>2. QED
    BY <1>1, Invariance, PTL

\* No payload that is next in line stays behind in its order channel, also
\* after a stale split packet made the channel jump.
THEOREM NothingHeldBack == RecvSpec => []EagerRelease
<1>1. IInv => EagerRelease
    BY DEF IInv
<1>2. QED
    BY <1>1, Invariance, PTL
=============================================================================
