--------------------------- MODULE RakLinkProofs ---------------------------
(***************************************************************************)
(* Theorems about RakLink: what is sent is kept until it is acknowledged,  *)
(* and the two queues with the network between them implement              *)
(* OrderedDelivery.                                                        *)
(***************************************************************************)
EXTENDS RakLink, RecvDeliveryProofs

----------------------------------------------------------------------------
(* Lemmas about the operators of the send queue. *)

\* Datagrams with numbers of their own.
Distinct(D) ==
    /\ \A d \in D : d.seq \in Nat
    /\ \A d, e \in D : d.seq = e.seq => d = e

LEMMA DistinctFinite ==
    ASSUME NEW D, Distinct(D), NEW n \in Nat, \A d \in D : d.seq < n
    PROVE  IsFiniteSet(D)
<1> DEFINE S == {d.seq : d \in D}
           f == [s \in S |-> CHOOSE d \in D : d.seq = s]
<1>1. S \in SUBSET Nat /\ \A s \in S : s <= n
    BY DEF Distinct
<1>2. IsFiniteSet(S)
    <2> HIDE DEF S
    <2>1. QED
        BY <1>1, FS_BoundedSetOfNaturals
<1>3. \A s \in S : f[s] \in D /\ f[s].seq = s
    OBVIOUS
<1>4. \A d \in D : d.seq \in S /\ f[d.seq] = d
    <2> TAKE d \in D
    <2>1. d.seq \in S
        OBVIOUS
    <2>2. f[d.seq] \in D /\ f[d.seq].seq = d.seq
        BY <1>3, <2>1
    <2>3. QED
        BY <2>1, <2>2 DEF Distinct
<1>5. f \in [S -> D]
    BY <1>3
<1>6. f \in Surjection(S, D)
    <2> HIDE DEF f, S
    <2>1. QED
        BY <1>4, <1>5 DEF Surjection
<1> HIDE DEF f, S
<1>7. QED
    BY <1>2, <1>6, FS_Surjection

Ascending(s) == \A j, k \in DOMAIN s : j < k => s[j].seq < s[k].seq

Sortable(T) == \E s \in [1 .. Cardinality(T) -> T] : Ascending(s)

\* Putting the least first.
LEMMA SortableMore ==
    ASSUME NEW T, IsFiniteSet(T), Distinct(T), NEW m \in T, \A d \in T : m.seq <= d.seq,
           Sortable(T \ {m})
    PROVE  Sortable(T)
<1> DEFINE n == Cardinality(T)
           U == T \ {m}
<1>1. n \in Nat /\ Cardinality(U) = n - 1 /\ n - 1 \in Nat
    <2>1. n \in Nat
        BY FS_CardinalityType
    <2>2. IsFiniteSet(U) /\ Cardinality(U) = n - 1
        BY FS_RemoveElement
    <2>3. Cardinality(U) \in Nat
        BY <2>2, FS_CardinalityType
    <2>4. QED
        BY <2>1, <2>2, <2>3
<1> HIDE DEF n
<1>2. PICK s \in [1 .. n - 1 -> U] : Ascending(s)
    BY <1>1 DEF Sortable
<1> DEFINE t == [k \in 1 .. n |-> IF k = 1 THEN m ELSE s[k - 1]]
<1>3. \A k \in 1 .. n : k # 1 => k - 1 \in 1 .. n - 1 /\ t[k] = s[k - 1]
    BY <1>1
<1>4. t \in [1 .. n -> T]
    BY <1>1, <1>3
<1>5. \A d \in U : m.seq < d.seq
    BY DEF Distinct
<1>6. ASSUME NEW j \in 1 .. n, NEW k \in 1 .. n, j < k
      PROVE  t[j].seq < t[k].seq
    <2>1. k # 1 /\ t[k] = s[k - 1] /\ k - 1 \in 1 .. n - 1
        BY <1>1, <1>3, <1>6
    <2>2. CASE j = 1
        <3>1. t[j] = m /\ s[k - 1] \in U
            BY <1>2, <2>1, <2>2
        <3>2. QED
            BY <1>5, <2>1, <3>1
    <2>3. CASE j # 1
        <3>1. t[j] = s[j - 1] /\ j - 1 \in 1 .. n - 1 /\ j - 1 < k - 1
            BY <1>1, <1>3, <1>6, <2>3
        <3>2. s[j - 1].seq < s[k - 1].seq
            BY <1>2, <2>1, <3>1 DEF Ascending
        <3>3. QED
            BY <2>1, <3>1, <3>2
    <2>4. QED
        BY <2>2, <2>3
<1>7. DOMAIN t = 1 .. n
    OBVIOUS
<1> HIDE DEF t
<1>8. Ascending(t)
    BY <1>6, <1>7 DEF Ascending
<1>9. QED
    BY <1>4, <1>8 DEF Sortable, n

\* Every finite set of datagrams can be put in order: a smallest one that
\* cannot would have one that can when its first is taken out.
LEMMA AllSortable ==
    ASSUME NEW D, Distinct(D), IsFiniteSet(D)
    PROVE  Sortable(D)
<1> DEFINE bad == {T \in SUBSET D : ~Sortable(T)}
           sizes == {Cardinality(T) : T \in bad}
<1> SUFFICES ASSUME ~Sortable(D)
             PROVE  FALSE
    OBVIOUS
<1>1. \A T \in SUBSET D : IsFiniteSet(T) /\ Cardinality(T) \in Nat /\ Distinct(T)
    BY FS_Subset, FS_CardinalityType DEF Distinct
<1>2. sizes \in SUBSET Nat /\ sizes # {}
    BY <1>1
<1>3. PICK n \in sizes : \A k \in sizes : n <= k
    <2> HIDE DEF sizes
    <2>1. QED
        BY <1>2, LeastNatural
<1>4. PICK T \in bad : n = Cardinality(T)
    OBVIOUS
<1>5. T # {}
    <2> SUFFICES ASSUME T = {}
                 PROVE  Sortable(T)
        BY <1>4
    <2>1. Cardinality(T) = 0
        BY FS_EmptySet
    <2>2. 1 .. 0 = {}
        OBVIOUS
    <2>3. [k \in {} |-> k] \in [1 .. Cardinality(T) -> T]
        BY <2>1, <2>2
    <2>4. Ascending([k \in {} |-> k])
        BY DEF Ascending
    <2>5. QED
        BY <2>3, <2>4 DEF Sortable
<1>6. PICK m \in T : \A d \in T : m.seq <= d.seq
    <2> DEFINE S == {d.seq : d \in T}
    <2>1. S \in SUBSET Nat /\ S # {}
        BY <1>1, <1>4, <1>5 DEF Distinct
    <2>2. PICK s \in S : \A r \in S : s <= r
        <3> HIDE DEF S
        <3>1. QED
            BY <2>1, LeastNatural
    <2>3. QED
        BY <2>2
<1>7. Sortable(T \ {m})
    <2> DEFINE U == T \ {m}
    <2>1. Cardinality(U) = n - 1 /\ n \in Nat
        BY <1>1, <1>4, FS_RemoveElement
    <2>2. U \in SUBSET D
        BY <1>4
    <2>3. U \in bad => n <= Cardinality(U)
        BY <1>3
    <2>4. U \notin bad
        BY <2>1, <2>3
    <2>5. QED
        BY <2>2, <2>4
<1>8. QED
    BY <1>1, <1>4, <1>6, <1>7, SortableMore

LEMMA InOrderProperties ==
    ASSUME NEW D, Distinct(D), NEW n \in Nat, \A d \in D : d.seq < n
    PROVE  LET s == InOrder(D)
           IN  /\ s \in Seq(D)
               /\ \A j, k \in DOMAIN s : s[j].seq = s[k].seq => j = k
<1> DEFINE s == InOrder(D)
<1>1. IsFiniteSet(D) /\ Cardinality(D) \in Nat
    BY DistinctFinite, FS_CardinalityType
<1>2. s \in [1 .. Cardinality(D) -> D] /\ Ascending(s)
    BY <1>1, AllSortable DEF InOrder, Sortable, Ascending
<1> HIDE DEF s
<1>3. s \in Seq(D)
    BY <1>1, <1>2, SeqDef
<1>4. ASSUME NEW j \in DOMAIN s, NEW k \in DOMAIN s, s[j].seq = s[k].seq
      PROVE  j = k
    <2>1. j \in Nat /\ k \in Nat /\ s[j].seq \in Nat
        BY <1>1, <1>2 DEF Distinct
    <2>2. ~(j < k) /\ ~(k < j)
        BY <1>2, <1>4, <2>1 DEF Ascending
    <2>3. QED
        BY <2>1, <2>2
<1>5. QED
    BY <1>3, <1>4 DEF s

\* remember_sent_packet() keeps what it is given or knew already, each once.
LEMMA RememberedProperties ==
    ASSUME NEW D, Distinct(D), NEW n \in Nat, \A d \in D : d.seq < n,
           NEW S, NEW known \in Seq(S), D \subseteq S
    PROVE  LET r == Remembered(known, D)
           IN  /\ r \in Seq(S)
               /\ Len(r) <= RecentLimit
               /\ \A k \in DOMAIN r : r[k] \in D \/ \E j \in DOMAIN known : r[k] = known[j]
               /\ (\A j, k \in DOMAIN known : known[j].seq = known[k].seq => j = k)
                      => \A j, k \in DOMAIN r : r[j].seq = r[k].seq => j = k
<1> DEFINE fresh == {d \in D : \A k \in DOMAIN known : known[k].seq # d.seq}
           new == InOrder(fresh)
           all == known \o new
           from == IF Len(all) > RecentLimit THEN Len(all) - RecentLimit + 1 ELSE 1
           r == SubSeq(all, from, Len(all))
<1>1. Distinct(fresh) /\ \A d \in fresh : d.seq < n
    BY DEF Distinct
<1>2. /\ new \in Seq(fresh)
      /\ \A j, k \in DOMAIN new : new[j].seq = new[k].seq => j = k
    <2> HIDE DEF fresh
    <2>1. QED
        BY <1>1, InOrderProperties
<1>3. /\ Len(new) \in Nat /\ DOMAIN new = 1 .. Len(new)
      /\ \A k \in DOMAIN new : new[k] \in fresh
    <2> HIDE DEF fresh, new
    <2>1. QED
        BY <1>2, LenProperties
<1>4. new \in Seq(S)
    <2>1. fresh \subseteq S
        OBVIOUS
    <2> HIDE DEF fresh, new
    <2>2. QED
        BY <1>2, <2>1, SeqMonotonic
<1>5. Len(known) \in Nat /\ DOMAIN known = 1 .. Len(known)
    BY LenProperties
<1>6. \A k \in DOMAIN new : /\ new[k] \in D
                            /\ \A j \in DOMAIN known : known[j].seq # new[k].seq
    <2> HIDE DEF new
    <2>1. QED
        BY <1>3
<1> HIDE DEF fresh, new
<1>7. /\ all \in Seq(S)
      /\ Len(all) = Len(known) + Len(new)
      /\ DOMAIN all = 1 .. Len(known) + Len(new)
      /\ \A i \in DOMAIN all : all[i] = IF i <= Len(known) THEN known[i] ELSE new[i - Len(known)]
    BY <1>4, ConcatProperties, LenProperties
<1> HIDE DEF all
<1>8. \A i \in DOMAIN all : \/ i \in DOMAIN known /\ all[i] = known[i]
                            \/ /\ i - Len(known) \in DOMAIN new
                               /\ all[i] = new[i - Len(known)]
    BY <1>3, <1>5, <1>7
<1>9. ASSUME \A j, k \in DOMAIN known : known[j].seq = known[k].seq => j = k
      PROVE  \A j, k \in DOMAIN all : all[j].seq = all[k].seq => j = k
    <2> TAKE j, k \in DOMAIN all
    <2> SUFFICES ASSUME all[j].seq = all[k].seq
                 PROVE  j = k
        OBVIOUS
    <2>1. CASE j \in DOMAIN known /\ all[j] = known[j]
        BY <1>6, <1>8, <1>9, <2>1
    <2>2. CASE j - Len(known) \in DOMAIN new /\ all[j] = new[j - Len(known)]
        <3>1. k - Len(known) \in DOMAIN new /\ all[k] = new[k - Len(known)]
            BY <1>6, <1>8, <2>2
        <3>2. j - Len(known) = k - Len(known)
            BY <1>2, <2>2, <3>1
        <3>3. QED
            BY <1>5, <1>7, <3>2
    <2>3. QED
        BY <1>8, <2>1, <2>2
<1>10. /\ RecentLimit \in Nat \ {0}
       /\ Len(all) \in Nat
       /\ from \in Nat /\ from >= 1
       /\ Len(all) - from + 1 <= RecentLimit
       /\ from <= Len(all) + 1
    BY <1>3, <1>5, <1>7, SendAssumption
<1> HIDE DEF from
<1>11. \A i \in from .. Len(all) : i \in DOMAIN all /\ all[i] \in S
    BY <1>7, <1>10, LenProperties
<1>12. /\ r \in Seq(S)
       /\ Len(r) = IF from <= Len(all) THEN Len(all) - from + 1 ELSE 0
       /\ \A i \in 1 .. Len(all) - from + 1 : r[i] = all[from + i - 1]
    BY <1>10, <1>11, SubSeqProperties
<1> HIDE DEF r
<1>13. Len(r) = Len(all) - from + 1 /\ DOMAIN r = 1 .. Len(r)
    BY <1>10, <1>12, LenProperties
<1>14. \A i \in DOMAIN r : /\ i \in Nat /\ from + i - 1 \in DOMAIN all
                           /\ r[i] = all[from + i - 1]
    BY <1>10, <1>11, <1>12, <1>13
<1>15. \A k \in DOMAIN r : r[k] \in D \/ \E j \in DOMAIN known : r[k] = known[j]
    BY <1>6, <1>8, <1>14
<1>16. ASSUME \A j, k \in DOMAIN known : known[j].seq = known[k].seq => j = k,
              NEW j \in DOMAIN r, NEW k \in DOMAIN r, r[j].seq = r[k].seq
       PROVE  j = k
    <2>1. from + j - 1 = from + k - 1
        BY <1>9, <1>14, <1>16
    <2>2. QED
        BY <1>10, <1>14, <2>1
<1>17. r = Remembered(known, D)
    BY DEF Remembered, r, from, all, new, fresh
<1>18. QED
    BY <1>10, <1>12, <1>13, <1>15, <1>16, <1>17

\* What RecoveryQueue keeps for a sequence.
EntryOK(entry, s, S) ==
    /\ entry = [age |-> entry.age, datagram |-> entry.datagram]
    /\ entry.age \in 0 .. AgeLimit
    /\ entry.datagram \in S
    /\ entry.datagram.seq = s

BooksOK(queue, S) ==
    /\ queue = [s \in DOMAIN queue |-> queue[s]]
    /\ \A s \in DOMAIN queue : EntryOK(queue[s], s, S)

LEMMA TrackedProperties ==
    ASSUME NEW S, NEW queue, BooksOK(queue, S), NEW D, D \subseteq S
    PROVE  LET t == Tracked(queue, D)
           IN  /\ BooksOK(t, S)
               /\ \A s : s \in DOMAIN t <=> s \in DOMAIN queue \/ \E d \in D : d.seq = s
               /\ \A s \in DOMAIN t : \/ t[s].datagram \in D
                                      \/ s \in DOMAIN queue /\ t[s] = queue[s]
<1> DEFINE t == Tracked(queue, D)
           seqs == {d.seq : d \in D}
<1>1. /\ t = [s \in DOMAIN t |-> t[s]]
      /\ DOMAIN t = DOMAIN queue \cup seqs
    BY DEF Tracked
<1>2. ASSUME NEW s \in seqs
      PROVE  /\ t[s] = [age |-> t[s].age, datagram |-> t[s].datagram]
             /\ t[s].age = 0
             /\ t[s].datagram \in D
             /\ t[s].datagram.seq = s
    <2> DEFINE d == CHOOSE d \in D : d.seq = s
    <2>1. d \in D /\ d.seq = s
        OBVIOUS
    <2> HIDE DEF d
    <2>2. t[s] = [age |-> 0, datagram |-> d]
        BY DEF Tracked, d
    <2>3. QED
        BY <2>1, <2>2
<1>3. \A s \in DOMAIN queue \ seqs : t[s] = queue[s]
    BY DEF Tracked
<1>4. 0 \in 0 .. AgeLimit
    BY SendAssumption DEF AgeLimit
<1> HIDE DEF t, seqs
<1>5. \A s \in DOMAIN t : EntryOK(t[s], s, S)
    <2> TAKE s \in DOMAIN t
    <2>1. CASE s \in seqs
        <3>1. t[s].age \in 0 .. AgeLimit
            BY <1>2, <1>4, <2>1
        <3>2. t[s].datagram \in S
            BY <1>2, <2>1
        <3>3. QED
            BY <1>2, <2>1, <3>1, <3>2 DEF EntryOK
    <2>2. CASE s \notin seqs
        BY <1>1, <1>3, <2>2 DEF BooksOK
    <2>3. QED
        BY <2>1, <2>2
<1>6. \A s \in DOMAIN t : \/ t[s].datagram \in D
                          \/ s \in DOMAIN queue /\ t[s] = queue[s]
    BY <1>1, <1>2, <1>3
<1>7. \A s : s \in seqs <=> \E d \in D : d.seq = s
    BY DEF seqs
<1>8. QED
    BY <1>1, <1>5, <1>6, <1>7 DEF BooksOK, t

----------------------------------------------------------------------------
(* The books of the sender. *)

\* The frames insert() makes.
SenderFrame ==
    [rel : {"Unreliable"}, split : {<<>>}, body : Message \X Nat]
    \cup [rel : {"Reliable"}, ridx : Nat, split : {<<>>}, body : Message \X Nat]
    \cup [rel : {"ReliableOrd"}, ridx : Nat, chan : SendChannel, oidx : Nat,
          split : {<<>>} \cup {<<p>> : p \in {q \in [id : Nat, size : Nat, index : Nat] :
                                               q.index < q.size}},
          body : Message \X Nat]

SentBelow(n) == [seq : 0 .. n - 1, frames : {<<f>> : f \in SenderFrame}]

\* The datagrams the sender or the network still has.
Held ==
    wire \cup {recovery[s].datagram : s \in DOMAIN recovery}
         \cup {recent[k] : k \in DOMAIN recent}

CountersOK ==
    /\ sendSeq \in Nat /\ reliableSeq \in Nat /\ fragmentId \in Nat
    /\ orderIndex \in [SendChannel -> Nat]

QueuedOK ==
    /\ queued \in Seq(SenderFrame)
    /\ \A k \in DOMAIN queued : MustArrive(queued[k]) /\ queued[k].ridx \in 0 .. reliableSeq - 1

RecentOK(r, S) ==
    /\ r \in Seq(S)
    /\ Len(r) <= RecentLimit
    /\ \A j, k \in DOMAIN r : r[j].seq = r[k].seq => j = k

TracksOK ==
    /\ BooksOK(recovery, SentBelow(sendSeq))
    /\ RecentOK(recent, SentBelow(sendSeq))
    /\ wire \subseteq SentBelow(sendSeq)

SendInv == CountersOK /\ QueuedOK /\ TracksOK

LEMMA SentMonotone ==
    ASSUME NEW m \in Nat, NEW n \in Nat, m <= n
    PROVE  /\ SentBelow(m) \subseteq SentBelow(n)
           /\ \A queue : BooksOK(queue, SentBelow(m)) => BooksOK(queue, SentBelow(n))
<1>1. SentBelow(m) \subseteq SentBelow(n)
    <2> DEFINE F == {<<f>> : f \in SenderFrame}
    <2>1. SentBelow(m) = [seq : 0 .. m - 1, frames : F]
          /\ SentBelow(n) = [seq : 0 .. n - 1, frames : F]
        BY DEF SentBelow
    <2> HIDE DEF F
    <2>2. QED
        BY <2>1
<1> DEFINE S == SentBelow(m)
           T == SentBelow(n)
<1> HIDE DEF S, T
<1>2. S \subseteq T
    BY <1>1 DEF S, T
<1>3. \A queue : BooksOK(queue, S) => BooksOK(queue, T)
    BY <1>2 DEF BooksOK, EntryOK
<1>4. QED
    BY <1>1, <1>3 DEF S, T

LEMMA DatagramsProperties ==
    ASSUME NEW frames \in Seq(SenderFrame), sendSeq \in Nat
    PROVE  LET D == Datagrams(frames)
               n == sendSeq + Len(frames)
           IN  /\ n \in Nat /\ sendSeq <= n
               /\ D \subseteq SentBelow(n)
               /\ Distinct(D)
               /\ \A d \in D : /\ d.seq \in sendSeq .. n - 1
                               /\ \E k \in DOMAIN frames : /\ d.frames = <<frames[k]>>
                                                           /\ d.seq = sendSeq + k - 1
               /\ \A s \in sendSeq .. n - 1 :
                      \E k \in DOMAIN frames : \E d \in D : d.seq = s /\ d.frames = <<frames[k]>>
<1> DEFINE D == Datagrams(frames)
           n == sendSeq + Len(frames)
           F == {<<f>> : f \in SenderFrame}
           of(k) == [seq |-> sendSeq + k - 1, frames |-> <<frames[k]>>]
<1>1. Len(frames) \in Nat /\ DOMAIN frames = 1 .. Len(frames)
    BY LenProperties
<1>2. \A k \in DOMAIN frames : frames[k] \in SenderFrame
    <2> DEFINE S == SenderFrame
    <2>1. frames \in Seq(S)
        OBVIOUS
    <2> HIDE DEF S
    <2>2. \A k \in DOMAIN frames : frames[k] \in S
        BY <2>1
    <2>3. QED
        BY <2>2 DEF S
<1>3. \A k \in DOMAIN frames : <<frames[k]>> \in F
    BY <1>2
<1>4. \A k \in DOMAIN frames : of(k).seq \in sendSeq .. n - 1 /\ of(k).seq \in 0 .. n - 1
    BY <1>1
<1>5. SentBelow(n) = [seq : 0 .. n - 1, frames : F]
    BY DEF SentBelow
<1>6. D = {of(k) : k \in DOMAIN frames}
    BY DEF Datagrams
<1> HIDE DEF F
<1>7. \A k \in DOMAIN frames : of(k) \in SentBelow(n)
    BY <1>3, <1>4, <1>5
<1>8. \A s \in sendSeq .. n - 1 : \E k \in DOMAIN frames : of(k).seq = s
    <2> TAKE s \in sendSeq .. n - 1
    <2>1. s - sendSeq + 1 \in DOMAIN frames
        BY <1>1
    <2>2. of(s - sendSeq + 1).seq = s
        OBVIOUS
    <2>3. QED
        BY <2>1, <2>2
<1>9. \A j, k \in DOMAIN frames : of(j).seq = of(k).seq => of(j) = of(k)
    BY <1>1
<1>10. \A k \in DOMAIN frames : of(k).frames = <<frames[k]>> /\ of(k).seq = sendSeq + k - 1
    OBVIOUS
<1>11. \A k \in DOMAIN frames : of(k).seq \in Nat
    BY <1>1
<1> HIDE DEF of
<1>12. D \subseteq SentBelow(n) /\ Distinct(D)
    BY <1>6, <1>7, <1>9, <1>11 DEF Distinct
<1>13. /\ n \in Nat /\ sendSeq <= n
    BY <1>1
<1> HIDE DEF D, n
<1>14. ASSUME NEW d \in D
       PROVE  /\ d.seq \in sendSeq .. n - 1
              /\ \E k \in DOMAIN frames : d.frames = <<frames[k]>> /\ d.seq = sendSeq + k - 1
    <2>1. PICK k \in DOMAIN frames : d = of(k)
        BY <1>6
    <2>2. QED
        BY <1>4, <1>10, <2>1
<1>15. ASSUME NEW s \in sendSeq .. n - 1
       PROVE  \E k \in DOMAIN frames : \E d \in D : d.seq = s /\ d.frames = <<frames[k]>>
    <2>1. PICK k \in DOMAIN frames : of(k).seq = s
        BY <1>8
    <2>2. of(k) \in D
        BY <1>6
    <2>3. QED
        BY <1>10, <2>1, <2>2
<1>16. QED
    BY <1>12, <1>13, <1>14, <1>15 DEF D, n

\* Datagrams put into the books, again or for the first time.
LEMMA BooksGrow ==
    ASSUME NEW m \in Nat, NEW n \in Nat, m <= n,
           NEW queue, BooksOK(queue, SentBelow(m)), NEW r, RecentOK(r, SentBelow(m)),
           NEW D, D \subseteq SentBelow(n), Distinct(D), NEW E, E \subseteq D
    PROVE  /\ BooksOK(Tracked(queue, D), SentBelow(n))
           /\ \A s : s \in DOMAIN Tracked(queue, D)
                        <=> s \in DOMAIN queue \/ \E d \in D : d.seq = s
           /\ \A s \in DOMAIN Tracked(queue, D) :
                  \/ Tracked(queue, D)[s].datagram \in D
                  \/ s \in DOMAIN queue /\ Tracked(queue, D)[s] = queue[s]
           /\ RecentOK(Remembered(r, E), SentBelow(n))
           /\ \A k \in DOMAIN Remembered(r, E) :
                  Remembered(r, E)[k] \in E \/ \E j \in DOMAIN r : Remembered(r, E)[k] = r[j]
<1> DEFINE S == SentBelow(n)
           q == Tracked(queue, D)
           t == Remembered(r, E)
<1>1. BooksOK(queue, S) /\ SentBelow(m) \subseteq S
    BY SentMonotone
<1>2. \A d \in S : d.seq < n
    <2> DEFINE F == {<<f>> : f \in SenderFrame}
    <2>1. S = [seq : 0 .. n - 1, frames : F]
        BY DEF SentBelow
    <2> HIDE DEF F, S
    <2>2. QED
        BY <2>1
<1>3. D \subseteq S
    OBVIOUS
<1> HIDE DEF S
<1>4. r \in Seq(S)
    <2> DEFINE T == SentBelow(m)
    <2>1. r \in Seq(T) /\ T \subseteq S
        BY <1>1 DEF RecentOK
    <2> HIDE DEF T
    <2>2. QED
        BY <2>1, SeqMonotonic
<1>5. Distinct(E) /\ E \subseteq S /\ \A d \in E : d.seq < n
    BY <1>2, <1>3 DEF Distinct
<1>6. /\ t \in Seq(S)
      /\ Len(t) <= RecentLimit
      /\ \A k \in DOMAIN t : t[k] \in E \/ \E j \in DOMAIN r : t[k] = r[j]
      /\ (\A j, k \in DOMAIN r : r[j].seq = r[k].seq => j = k)
             => \A j, k \in DOMAIN t : t[j].seq = t[k].seq => j = k
    BY <1>4, <1>5, RememberedProperties
<1>7. RecentOK(t, S)
    BY <1>6 DEF RecentOK
<1>8. /\ BooksOK(q, S)
      /\ \A s : s \in DOMAIN q <=> s \in DOMAIN queue \/ \E d \in D : d.seq = s
      /\ \A s \in DOMAIN q : \/ q[s].datagram \in D
                             \/ s \in DOMAIN queue /\ q[s] = queue[s]
    BY <1>1, <1>3, TrackedProperties
<1>9. QED
    BY <1>6, <1>7, <1>8 DEF S

LEMMA HeldMoves ==
    ASSUME NEW D, \A d \in wire' : d \in wire \/ d \in D \/ d \in Held,
           \A s \in DOMAIN recovery' :
               \/ recovery'[s].datagram \in D \/ recovery'[s].datagram \in Held
               \/ s \in DOMAIN recovery /\ recovery'[s].datagram = recovery[s].datagram,
           \A k \in DOMAIN recent' :
               \/ recent'[k] \in D \/ recent'[k] \in Held
               \/ \E j \in DOMAIN recent : recent'[k] = recent[j]
    PROVE  \A d \in Held' : d \in Held \/ d \in D
<1> TAKE d \in Held'
<1>1. \/ d \in wire'
      \/ \E s \in DOMAIN recovery' : d = recovery'[s].datagram
      \/ \E k \in DOMAIN recent' : d = recent'[k]
    BY DEF Held
<1>2. /\ \A e \in wire : e \in Held
      /\ \A s \in DOMAIN recovery : recovery[s].datagram \in Held
      /\ \A k \in DOMAIN recent : recent[k] \in Held
    BY DEF Held
<1>3. QED
    BY <1>1, <1>2

\* Nothing is in flight or in the books that was not, except what is sent.
Sends(frames) ==
    \A d \in Held' : d \in Held \/ \E k \in DOMAIN frames : d.frames = <<frames[k]>>

LEMMA EmitKeeps ==
    ASSUME TracksOK, sendSeq \in Nat, NEW frames \in Seq(SenderFrame), Emit(frames)
    PROVE  /\ TracksOK'
           /\ sendSeq' \in Nat /\ sendSeq <= sendSeq'
           /\ Sends(frames)
           /\ DOMAIN recovery \subseteq DOMAIN recovery'
           /\ (\A k \in DOMAIN frames : MustArrive(frames[k]))
                  => sendSeq .. sendSeq' - 1 \subseteq DOMAIN recovery'
<1> DEFINE D == Datagrams(frames)
           K == Kept(D)
           n == sendSeq + Len(frames)
<1>1. /\ n \in Nat /\ sendSeq <= n
      /\ D \subseteq SentBelow(n)
      /\ Distinct(D)
      /\ \A d \in D : \E k \in DOMAIN frames : d.frames = <<frames[k]>>
      /\ \A s \in sendSeq .. n - 1 :
             \E k \in DOMAIN frames : \E d \in D : d.seq = s /\ d.frames = <<frames[k]>>
    BY DatagramsProperties
<1>2. /\ sendSeq' = n
      /\ recovery' = Tracked(recovery, K)
      /\ recent' = Remembered(recent, K)
      /\ wire' = wire \cup D
    BY DEF Emit
<1> HIDE DEF D, n
<1>3. K \subseteq D /\ Distinct(K) /\ K \subseteq SentBelow(n)
    BY <1>1 DEF Kept, Distinct
<1>4. \A d \in D : MustArrive(d.frames[1]) => d \in K
    BY DEF Kept
<1> HIDE DEF K
<1>5. /\ BooksOK(recovery', SentBelow(n))
      /\ \A s : s \in DOMAIN recovery' <=> s \in DOMAIN recovery \/ \E d \in K : d.seq = s
      /\ \A s \in DOMAIN recovery' : \/ recovery'[s].datagram \in K
                                     \/ s \in DOMAIN recovery /\ recovery'[s] = recovery[s]
      /\ RecentOK(recent', SentBelow(n))
      /\ \A k \in DOMAIN recent' : recent'[k] \in K \/ \E j \in DOMAIN recent : recent'[k] = recent[j]
    <2>1. BooksOK(recovery, SentBelow(sendSeq)) /\ RecentOK(recent, SentBelow(sendSeq))
        BY DEF TracksOK
    <2>2. K \subseteq K
        OBVIOUS
    <2>3. QED
        BY <1>1, <1>2, <1>3, <2>1, <2>2, BooksGrow
<1>6. wire' \subseteq SentBelow(n)
    BY <1>1, <1>2, SentMonotone DEF TracksOK
<1>7. TracksOK'
    BY <1>2, <1>5, <1>6 DEF TracksOK
<1>8. \A d \in Held' : d \in Held \/ d \in D
    BY <1>2, <1>3, <1>5, HeldMoves
<1>9. Sends(frames)
    BY <1>1, <1>8 DEF Sends
<1>10. ASSUME \A k \in DOMAIN frames : MustArrive(frames[k])
       PROVE  sendSeq .. sendSeq' - 1 \subseteq DOMAIN recovery'
    <2> SUFFICES ASSUME NEW s \in sendSeq .. n - 1
                 PROVE  s \in DOMAIN recovery'
        BY <1>2
    <2>1. PICK k \in DOMAIN frames : \E d \in D : d.seq = s /\ d.frames = <<frames[k]>>
        BY <1>1
    <2>2. PICK d \in D : d.seq = s /\ d.frames = <<frames[k]>>
        BY <2>1
    <2>3. d \in K
        BY <1>4, <1>10, <2>2
    <2>4. QED
        BY <1>5, <2>2, <2>3
<1>11. QED
    BY <1>1, <1>2, <1>5, <1>7, <1>9, <1>10

LEMMA EntriesDistinct ==
    ASSUME NEW n \in Nat, NEW queue, BooksOK(queue, SentBelow(n)), NEW D,
           \A d \in D : \E s \in DOMAIN queue : d = queue[s].datagram
    PROVE  D \subseteq SentBelow(n) /\ Distinct(D)
<1> DEFINE S == SentBelow(n)
<1>1. \A d \in S : d.seq \in Nat
    <2> DEFINE F == {<<f>> : f \in SenderFrame}
    <2>1. S = [seq : 0 .. n - 1, frames : F]
        BY DEF SentBelow
    <2> HIDE DEF F, S
    <2>2. QED
        BY <2>1
<1> HIDE DEF S
<1>2. \A s \in DOMAIN queue : queue[s].datagram \in S /\ queue[s].datagram.seq = s
    BY DEF BooksOK, EntryOK, S
<1>3. QED
    BY <1>1, <1>2 DEF S, Distinct

LEMMA UpdateKeeps ==
    ASSUME CountersOK, QueuedOK, TracksOK, Update
    PROVE  /\ TracksOK'
           /\ sendSeq' \in Nat /\ sendSeq <= sendSeq'
           /\ Sends(queued)
           /\ TimeoutResend => /\ DOMAIN recovery \subseteq DOMAIN recovery'
                               /\ sendSeq .. sendSeq' - 1 \subseteq DOMAIN recovery'
<1> DEFINE D == Datagrams(queued)
           K == Kept(D)
           n == sendSeq + Len(queued)
           tracked == Tracked(recovery, K)
           known == Remembered(recent, K)
           old == {s \in DOMAIN tracked : tracked[s].age > ResendSeconds}
           again(seqs) == {tracked[s].datagram : s \in seqs}
<1>1. queued \in Seq(SenderFrame) /\ sendSeq \in Nat
    BY DEF CountersOK, QueuedOK
<1>2. /\ n \in Nat /\ sendSeq <= n
      /\ D \subseteq SentBelow(n)
      /\ Distinct(D)
      /\ \A d \in D : \E k \in DOMAIN queued : d.frames = <<queued[k]>>
      /\ \A s \in sendSeq .. n - 1 :
             \E k \in DOMAIN queued : \E d \in D : d.seq = s /\ d.frames = <<queued[k]>>
    BY <1>1, DatagramsProperties
<1>3. /\ sendSeq' = n
      /\ \/ /\ TimeoutResend
            /\ \E chosen \in SUBSET old :
                   /\ recovery' = Tracked(tracked, again(old))
                   /\ recent' = Remembered(known, again(chosen))
                   /\ wire' = wire \cup D \cup again(chosen)
         \/ /\ ~TimeoutResend
            /\ recovery' = [s \in DOMAIN tracked \ TooOld(tracked) |-> tracked[s]]
            /\ recent' = known
            /\ wire' = wire \cup D
    BY DEF Update
<1> HIDE DEF D, n
<1>4. K \subseteq D /\ Distinct(K) /\ K \subseteq SentBelow(n)
    BY <1>2 DEF Kept, Distinct
<1>5. \A d \in D : MustArrive(d.frames[1]) => d \in K
    BY DEF Kept
<1> HIDE DEF K, tracked, known
<1>6. /\ BooksOK(tracked, SentBelow(n))
      /\ \A s : s \in DOMAIN tracked <=> s \in DOMAIN recovery \/ \E d \in K : d.seq = s
      /\ \A s \in DOMAIN tracked : \/ tracked[s].datagram \in K
                                   \/ s \in DOMAIN recovery /\ tracked[s] = recovery[s]
      /\ RecentOK(known, SentBelow(n))
      /\ \A k \in DOMAIN known : known[k] \in K \/ \E j \in DOMAIN recent : known[k] = recent[j]
    <2>1. BooksOK(recovery, SentBelow(sendSeq)) /\ RecentOK(recent, SentBelow(sendSeq))
        BY DEF TracksOK
    <2>2. K \subseteq K
        OBVIOUS
    <2>3. /\ BooksOK(Tracked(recovery, K), SentBelow(n))
          /\ \A s : s \in DOMAIN Tracked(recovery, K)
                        <=> s \in DOMAIN recovery \/ \E d \in K : d.seq = s
          /\ \A s \in DOMAIN Tracked(recovery, K) :
                 \/ Tracked(recovery, K)[s].datagram \in K
                 \/ s \in DOMAIN recovery /\ Tracked(recovery, K)[s] = recovery[s]
          /\ RecentOK(Remembered(recent, K), SentBelow(n))
          /\ \A k \in DOMAIN Remembered(recent, K) :
                 Remembered(recent, K)[k] \in K
                 \/ \E j \in DOMAIN recent : Remembered(recent, K)[k] = recent[j]
        <3> HIDE DEF old, again
        <3>1. sendSeq \in Nat /\ n \in Nat /\ sendSeq <= n
            BY <1>1, <1>2
        <3>2. K \subseteq SentBelow(n) /\ Distinct(K)
            BY <1>4
        <3>3. QED
            BY <2>1, <2>2, <3>1, <3>2, BooksGrow
    <2>4. tracked = Tracked(recovery, K) /\ known = Remembered(recent, K)
        BY DEF tracked, known
    <2>5. QED
        BY <2>3, <2>4
<1>7. wire \cup D \subseteq SentBelow(n)
    BY <1>1, <1>2, SentMonotone DEF TracksOK
<1>8. sendSeq .. n - 1 \subseteq DOMAIN tracked
    <2> SUFFICES ASSUME NEW s \in sendSeq .. n - 1
                 PROVE  s \in DOMAIN tracked
        OBVIOUS
    <2>1. PICK k \in DOMAIN queued : \E d \in D : d.seq = s /\ d.frames = <<queued[k]>>
        BY <1>2
    <2>2. PICK d \in D : d.seq = s /\ d.frames = <<queued[k]>>
        BY <2>1
    <2>3. MustArrive(queued[k])
        BY DEF QueuedOK
    <2>4. QED
        BY <1>5, <1>6, <2>2, <2>3
<1>9. /\ \A s \in DOMAIN tracked : tracked[s].datagram \in D \/ tracked[s].datagram \in Held
      /\ \A k \in DOMAIN known : known[k] \in D \/ \E j \in DOMAIN recent : known[k] = recent[j]
    <2>1. \A s \in DOMAIN recovery : recovery[s].datagram \in Held
        BY DEF Held
    <2>2. QED
        BY <1>4, <1>6, <2>1
<1>10. CASE \E chosen \in SUBSET old :
                   /\ recovery' = Tracked(tracked, again(old))
                   /\ recent' = Remembered(known, again(chosen))
                   /\ wire' = wire \cup D \cup again(chosen)
    <2> PICK chosen \in SUBSET old :
                   /\ recovery' = Tracked(tracked, again(old))
                   /\ recent' = Remembered(known, again(chosen))
                   /\ wire' = wire \cup D \cup again(chosen)
        BY <1>10
    <2> DEFINE A == again(old)
               C == again(chosen)
    <2>1. C \subseteq A /\ \A d \in A : \E s \in DOMAIN tracked : d = tracked[s].datagram
        OBVIOUS
    <2>2. \A d \in A : d \in D \/ d \in Held
        BY <1>9
    <2> HIDE DEF A, C, old, again
    <2>10. A \subseteq SentBelow(n) /\ Distinct(A)
        <3>1. n \in Nat /\ BooksOK(tracked, SentBelow(n))
            BY <1>2, <1>6
        <3>2. QED
            BY <2>1, <3>1, EntriesDistinct
    <2>3. /\ BooksOK(Tracked(tracked, A), SentBelow(n))
          /\ \A s : s \in DOMAIN Tracked(tracked, A)
                        <=> s \in DOMAIN tracked \/ \E d \in A : d.seq = s
          /\ \A s \in DOMAIN Tracked(tracked, A) :
                 \/ Tracked(tracked, A)[s].datagram \in A
                 \/ s \in DOMAIN tracked /\ Tracked(tracked, A)[s] = tracked[s]
          /\ RecentOK(Remembered(known, C), SentBelow(n))
          /\ \A k \in DOMAIN Remembered(known, C) :
                 Remembered(known, C)[k] \in C
                 \/ \E j \in DOMAIN known : Remembered(known, C)[k] = known[j]
        <3>1. n \in Nat /\ n <= n
            BY <1>2
        <3>2. /\ BooksOK(tracked, SentBelow(n))
              /\ RecentOK(known, SentBelow(n))
            BY <1>6
        <3>3. QED
            BY <2>1, <2>10, <3>1, <3>2, BooksGrow
    <2>4. /\ recovery' = Tracked(tracked, A)
          /\ recent' = Remembered(known, C)
          /\ wire' = wire \cup D \cup C
        BY DEF A, C, old, again
    <2>5. TracksOK'
        BY <1>3, <1>7, <2>1, <2>3, <2>4, <2>10 DEF TracksOK
    <2>6. /\ DOMAIN recovery \subseteq DOMAIN recovery'
          /\ sendSeq .. sendSeq' - 1 \subseteq DOMAIN recovery'
        BY <1>3, <1>6, <1>8, <2>3, <2>4
    <2>7. /\ \A s \in DOMAIN recovery' :
                 recovery'[s].datagram \in D \/ recovery'[s].datagram \in Held
          /\ \A d \in wire' : d \in wire \/ d \in D \/ d \in Held
        BY <1>9, <2>1, <2>2, <2>3, <2>4
    <2>11. \A k \in DOMAIN recent' : \/ recent'[k] \in D \/ recent'[k] \in Held
                                     \/ \E j \in DOMAIN recent : recent'[k] = recent[j]
        <3> TAKE k \in DOMAIN recent'
        <3>1. CASE recent'[k] \in C
            BY <2>1, <2>2, <3>1
        <3>2. CASE \E j \in DOMAIN known : recent'[k] = known[j]
            BY <1>9, <3>2
        <3>3. QED
            BY <2>3, <2>4, <3>1, <3>2
    <2>8. \A d \in Held' : d \in Held \/ d \in D
        BY <2>7, <2>11, HeldMoves
    <2>9. QED
        BY <1>2, <1>3, <2>5, <2>6, <2>8 DEF Sends
<1>11. CASE /\ ~TimeoutResend
            /\ recovery' = [s \in DOMAIN tracked \ TooOld(tracked) |-> tracked[s]]
            /\ recent' = known
            /\ wire' = wire \cup D
    <2>1. BooksOK(recovery', SentBelow(n))
        BY <1>6, <1>11 DEF BooksOK
    <2>2. TracksOK'
        BY <1>3, <1>6, <1>7, <1>11, <2>1 DEF TracksOK
    <2>3. /\ \A s \in DOMAIN recovery' : recovery'[s].datagram \in D \/ recovery'[s].datagram \in Held
          /\ \A d \in wire' : d \in wire \/ d \in D
        BY <1>9, <1>11
    <2>4. \A d \in Held' : d \in Held \/ d \in D
        BY <1>9, <1>11, <2>3, HeldMoves
    <2>5. QED
        BY <1>2, <1>3, <1>11, <2>2, <2>4 DEF Sends
<1>12. QED
    BY <1>3, <1>10, <1>11

LEMMA NackKeeps ==
    ASSUME CountersOK, TracksOK, NEW seqs, OnNack(seqs)
    PROVE  TracksOK' /\ Sends(<<>>) /\ DOMAIN recovery \subseteq DOMAIN recovery'
<1> DEFINE S == SentBelow(sendSeq)
           known == {recovery[s].datagram : s \in DOMAIN recovery \cap seqs}
           late == {recent[k] : k \in {j \in DOMAIN recent :
                       recent[j].seq \in seqs \ DOMAIN recovery}}
           A == known \cup late
<1>1. /\ recovery' = Tracked(recovery, A)
      /\ recent' = Remembered(recent, A)
      /\ wire' = wire \cup A
      /\ sendSeq' = sendSeq
    BY DEF OnNack
<1>2. BooksOK(recovery, S) /\ RecentOK(recent, S) /\ wire \subseteq S /\ sendSeq \in Nat
    BY DEF TracksOK, CountersOK
<1>3. known \subseteq S /\ Distinct(known)
    <2>1. \A d \in known : \E s \in DOMAIN recovery : d = recovery[s].datagram
        OBVIOUS
    <2> HIDE DEF known
    <2>2. QED
        BY <1>2, <2>1, EntriesDistinct
<1>4. \A d \in known : d.seq \in DOMAIN recovery
    BY <1>2 DEF BooksOK, EntryOK
<1>5. \A d \in S : d.seq \in Nat
    <2> DEFINE F == {<<f>> : f \in SenderFrame}
    <2>1. S = [seq : 0 .. sendSeq - 1, frames : F]
        BY DEF SentBelow
    <2> HIDE DEF F, S
    <2>2. QED
        BY <1>2, <2>1
<1> HIDE DEF S
<1>6. /\ late \subseteq S
      /\ \A d \in late : d.seq \notin DOMAIN recovery
      /\ \A d, e \in late : d.seq = e.seq => d = e
    BY <1>2 DEF RecentOK
<1> HIDE DEF known, late
<1>7. A \subseteq S /\ Distinct(A)
    BY <1>3, <1>4, <1>5, <1>6 DEF Distinct
<1>8. \A d \in A : d \in Held
    BY DEF Held, known, late
<1> HIDE DEF A
<1>9. /\ BooksOK(recovery', S)
      /\ \A s : s \in DOMAIN recovery' <=> s \in DOMAIN recovery \/ \E d \in A : d.seq = s
      /\ \A s \in DOMAIN recovery' : \/ recovery'[s].datagram \in A
                                     \/ s \in DOMAIN recovery /\ recovery'[s] = recovery[s]
      /\ RecentOK(recent', S)
      /\ \A k \in DOMAIN recent' : recent'[k] \in A \/ \E j \in DOMAIN recent : recent'[k] = recent[j]
    <2>1. A \subseteq A /\ sendSeq <= sendSeq
        BY <1>2
    <2>2. QED
        BY <1>1, <1>2, <1>7, <2>1, BooksGrow DEF S
<1>10. TracksOK'
    BY <1>1, <1>2, <1>7, <1>9 DEF TracksOK, S
<1>11. \A d \in Held' : d \in Held \/ d \in {}
    BY <1>1, <1>8, <1>9, HeldMoves
<1>12. QED
    BY <1>9, <1>10, <1>11 DEF Sends


----------------------------------------------------------------------------
(* What insert() makes. *)

SplitValue == {<<>>} \cup {<<p>> : p \in {q \in [id : Nat, size : Nat, index : Nat] :
                                              q.index < q.size}}

\* The three shapes of a frame of the sender.
LEMMA FrameShapes ==
    ASSUME NEW m \in Message, NEW k \in Nat, NEW r \in Nat
    PROVE  /\ [rel |-> "Unreliable", split |-> <<>>, body |-> <<m, k>>] \in SenderFrame
           /\ [rel |-> "Reliable", ridx |-> r, split |-> <<>>, body |-> <<m, k>>] \in SenderFrame
           /\ \A c \in SendChannel, o \in Nat, s \in SplitValue :
                  [rel |-> "ReliableOrd", ridx |-> r, chan |-> c, oidx |-> o,
                   split |-> s, body |-> <<m, k>>] \in SenderFrame
<1> DEFINE B == Message \X Nat
           V == SplitValue
           one == [rel : {"Unreliable"}, split : {<<>>}, body : B]
           two == [rel : {"Reliable"}, ridx : Nat, split : {<<>>}, body : B]
           three == [rel : {"ReliableOrd"}, ridx : Nat, chan : SendChannel, oidx : Nat,
                     split : V, body : B]
<1>1. SenderFrame = one \cup two \cup three
    BY DEF SenderFrame, SplitValue
<1>2. <<m, k>> \in B
    OBVIOUS
<1>3. [rel |-> "Unreliable", split |-> <<>>, body |-> <<m, k>>] \in one
    BY <1>2
<1>4. [rel |-> "Reliable", ridx |-> r, split |-> <<>>, body |-> <<m, k>>] \in two
    BY <1>2
<1>5. ASSUME NEW c \in SendChannel, NEW o \in Nat, NEW s \in V
      PROVE  [rel |-> "ReliableOrd", ridx |-> r, chan |-> c, oidx |-> o,
              split |-> s, body |-> <<m, k>>] \in three
    <2> HIDE DEF V, B
    <2>1. QED
        BY <1>2
<1> HIDE DEF one, two, three
<1>6. QED
    BY <1>1, <1>3, <1>4, <1>5

\* A packet of message m on channel c: one frame, or the parts of a split one.
Packet(new, m, c) ==
    /\ new \in Seq(SenderFrame)
    /\ \A k \in DOMAIN new :
           /\ k \in Nat
           /\ new[k].rel = "ReliableOrd"
           /\ new[k].chan = c
           /\ new[k].oidx = orderIndex[c]
           /\ new[k].body = <<m, k - 1>>
           /\ new[k].ridx \in 0 .. reliableSeq' - 1
           /\ \/ new[k].split = <<>> /\ k = 1 /\ Len(new) = 1
              \/ /\ new[k].split = <<[id |-> fragmentId + 1, size |-> Len(new), index |-> k - 1]>>
                 /\ fragmentId' = fragmentId + 1

\* It goes out at once, or waits for the tick.
Waits(new) ==
    /\ Len(new) = 1 /\ queued' = Append(queued, new[1])
    /\ UNCHANGED <<sendSeq, recovery, recent, wire>>

LEMMA SplitMakes ==
    ASSUME CountersOK, NEW m \in Message, NEW c \in SendChannel, InsertSplit(m, c)
    PROVE  \E new : /\ Packet(new, m, c)
                    /\ Emit(new) /\ UNCHANGED queued
<1> DEFINE n == Parts[m]
           id == fragmentId + 1
           s(k) == <<[id |-> id, size |-> n, index |-> k - 1]>>
           part(k) == [rel |-> "ReliableOrd", ridx |-> reliableSeq + k - 1, chan |-> c,
                       oidx |-> orderIndex[c], split |-> s(k), body |-> <<m, k - 1>>]
           new == [k \in 1 .. n |-> part(k)]
<1>1. /\ n \in Nat /\ id \in Nat /\ reliableSeq \in Nat /\ orderIndex[c] \in Nat
    BY SendAssumption DEF CountersOK
<1>2. /\ Emit(new)
      /\ fragmentId' = id
      /\ reliableSeq' = reliableSeq + n
      /\ UNCHANGED queued
    BY DEF InsertSplit
<1>3. \A k \in 1 .. n : s(k) \in SplitValue
    <2> TAKE k \in 1 .. n
    <2> DEFINE p == [id |-> id, size |-> n, index |-> k - 1]
    <2>1. p \in [id : Nat, size : Nat, index : Nat] /\ p.index < p.size
        BY <1>1
    <2>2. s(k) = <<p>>
        OBVIOUS
    <2> HIDE DEF p, s
    <2>3. QED
        BY <2>1, <2>2 DEF SplitValue
<1> HIDE DEF n, id, s
<1>4. \A k \in 1 .. n : part(k) \in SenderFrame
    <2> TAKE k \in 1 .. n
    <2>1. reliableSeq + k - 1 \in Nat /\ k - 1 \in Nat
        BY <1>1
    <2>2. QED
        BY <1>1, <1>3, <2>1, FrameShapes
<1>5. Len(new) = n /\ DOMAIN new = 1 .. n
    BY <1>1
<1>6. new \in Seq(SenderFrame)
    <2> HIDE DEF part
    <2>1. new \in [1 .. n -> SenderFrame]
        BY <1>4
    <2>2. QED
        BY <1>1, <2>1, SeqDef
<1>7. ASSUME NEW k \in DOMAIN new
      PROVE  /\ k \in Nat
             /\ new[k].rel = "ReliableOrd"
             /\ new[k].chan = c
             /\ new[k].oidx = orderIndex[c]
             /\ new[k].body = <<m, k - 1>>
             /\ new[k].ridx = reliableSeq + k - 1
             /\ new[k].split = s(k)
             /\ reliableSeq + k - 1 \in 0 .. reliableSeq' - 1
    <2>1. k \in 1 .. n /\ new[k] = part(k)
        BY <1>5
    <2>2. k \in Nat /\ reliableSeq + k - 1 \in 0 .. reliableSeq' - 1
        BY <1>1, <1>2, <2>1
    <2>3. QED
        BY <2>1, <2>2
<1> HIDE DEF new
<1>8. \A k \in DOMAIN new :
          /\ new[k].split = <<[id |-> fragmentId + 1, size |-> Len(new), index |-> k - 1]>>
          /\ fragmentId' = fragmentId + 1
    BY <1>2, <1>5, <1>7 DEF s, id
<1>9. Packet(new, m, c)
    BY <1>6, <1>7, <1>8 DEF Packet
<1>10. QED
    BY <1>2, <1>9

LEMMA OrderedMakes ==
    ASSUME CountersOK, NEW m \in Message, NEW c \in SendChannel, NEW now \in BOOLEAN,
           InsertOrdered(m, c, now)
    PROVE  \E new : /\ Packet(new, m, c)
                    /\ (Emit(new) /\ UNCHANGED queued) \/ Waits(new)
<1> DEFINE f == [rel |-> "ReliableOrd", ridx |-> reliableSeq, chan |-> c,
                 oidx |-> orderIndex[c], split |-> <<>>, body |-> <<m, 0>>]
           new == <<f>>
<1>1. reliableSeq \in Nat /\ orderIndex[c] \in Nat
    BY DEF CountersOK
<1>2. /\ reliableSeq' = reliableSeq + 1
      /\ \/ Emit(new) /\ UNCHANGED queued
         \/ queued' = Append(queued, f) /\ UNCHANGED <<sendSeq, recovery, recent, wire>>
    BY DEF InsertOrdered
<1>3. <<>> \in SplitValue
    BY DEF SplitValue
<1>4. f \in SenderFrame
    BY <1>1, <1>3, FrameShapes
<1>5. /\ f.rel = "ReliableOrd" /\ f.chan = c /\ f.oidx = orderIndex[c]
      /\ f.body = <<m, 0>> /\ f.split = <<>> /\ f.ridx = reliableSeq
    OBVIOUS
<1>6. reliableSeq \in 0 .. reliableSeq' - 1
    BY <1>1, <1>2
<1> HIDE DEF f
<1>7. new \in Seq(SenderFrame) /\ Len(new) = 1 /\ DOMAIN new = {1} /\ new[1] = f
    <2> DEFINE S == SenderFrame
    <2> HIDE DEF S
    <2>1. f \in S => <<f>> \in Seq(S)
        OBVIOUS
    <2>2. QED
        BY <1>4, <2>1 DEF S
<1> HIDE DEF new
<1>8. Packet(new, m, c)
    BY <1>5, <1>6, <1>7 DEF Packet
<1>9. QED
    BY <1>2, <1>7, <1>8 DEF Waits


----------------------------------------------------------------------------
(* Every step of the sender keeps its books. *)

\* The frames the sender still has, or the network for it.
InHand == {queued[k] : k \in DOMAIN queued} \cup {d.frames[1] : d \in Held}

\* The books are kept, and frames that were not in hand are among the new ones.
SendStep(new) ==
    /\ SendInv'
    /\ sendSeq <= sendSeq'
    /\ \A f \in InHand' : f \in InHand \/ \E k \in DOMAIN new : f = new[k]

\* Whatever is sent is kept, and what was kept stays.
Covering ==
    DOMAIN recovery \subseteq DOMAIN recovery' /\ sendSeq .. sendSeq' - 1 \subseteq DOMAIN recovery'

LEMMA InHandMoves ==
    ASSUME NEW frames, Sends(frames)
    PROVE  \A d \in Held' : d.frames[1] \in InHand \/ \E k \in DOMAIN frames : d.frames[1] = frames[k]
<1>1. \A d \in Held : d.frames[1] \in InHand
    BY DEF InHand
<1>2. \A k \in DOMAIN frames : <<frames[k]>>[1] = frames[k]
    OBVIOUS
<1>3. QED
    BY <1>1, <1>2 DEF Sends

LEMMA CountersGrow ==
    ASSUME CountersOK, NEW m \in Message, NEW c \in SendChannel, NEW now \in BOOLEAN,
           InsertOrdered(m, c, now) \/ InsertSplit(m, c)
    PROVE  /\ reliableSeq' \in Nat /\ reliableSeq <= reliableSeq'
           /\ fragmentId' \in Nat /\ fragmentId <= fragmentId'
           /\ orderIndex' = [orderIndex EXCEPT ![c] = @ + 1]
           /\ orderIndex' \in [SendChannel -> Nat]
<1>1. Parts[m] \in Nat
    BY SendAssumption
<1>2. /\ reliableSeq' = reliableSeq + 1 \/ reliableSeq' = reliableSeq + Parts[m]
      /\ fragmentId' = fragmentId \/ fragmentId' = fragmentId + 1
      /\ orderIndex' = [orderIndex EXCEPT ![c] = @ + 1]
    BY DEF InsertOrdered, InsertSplit
<1>3. orderIndex \in [SendChannel -> Nat]
    BY DEF CountersOK
<1>4. orderIndex' \in [SendChannel -> Nat]
    BY <1>2, <1>3
<1>5. QED
    BY <1>1, <1>2, <1>4 DEF CountersOK

LEMMA OrderedKeeps ==
    ASSUME SendInv, NEW m \in Message, NEW c \in SendChannel, NEW now \in BOOLEAN,
           InsertOrdered(m, c, now) \/ InsertSplit(m, c)
    PROVE  \E new : Packet(new, m, c) /\ SendStep(new) /\ Covering
<1>1. PICK new : /\ Packet(new, m, c)
                 /\ (Emit(new) /\ UNCHANGED queued) \/ Waits(new)
    BY SplitMakes, OrderedMakes DEF SendInv
<1>2. /\ new \in Seq(SenderFrame)
      /\ \A k \in DOMAIN new : MustArrive(new[k]) /\ new[k].ridx \in 0 .. reliableSeq' - 1
    BY <1>1 DEF Packet, MustArrive
<1>3. /\ reliableSeq' \in Nat /\ reliableSeq <= reliableSeq'
      /\ fragmentId' \in Nat
      /\ orderIndex' \in [SendChannel -> Nat]
    BY CountersGrow DEF SendInv
<1>4. reliableSeq \in Nat /\ sendSeq \in Nat
    BY DEF SendInv, CountersOK
<1>5. \A k \in DOMAIN queued : MustArrive(queued[k]) /\ queued[k].ridx \in 0 .. reliableSeq' - 1
    BY <1>3, <1>4 DEF SendInv, QueuedOK
<1>6. CASE Emit(new) /\ UNCHANGED queued
    <2>1. /\ TracksOK'
          /\ sendSeq' \in Nat /\ sendSeq <= sendSeq'
          /\ Sends(new)
          /\ DOMAIN recovery \subseteq DOMAIN recovery'
          /\ (\A k \in DOMAIN new : MustArrive(new[k]))
                 => sendSeq .. sendSeq' - 1 \subseteq DOMAIN recovery'
        BY <1>2, <1>4, <1>6, EmitKeeps DEF SendInv
    <2>2. Covering
        BY <1>2, <2>1 DEF Covering
    <2>3. SendInv'
        BY <1>3, <1>5, <1>6, <2>1 DEF SendInv, CountersOK, QueuedOK
    <2>4. \A d \in Held' : d.frames[1] \in InHand \/ \E k \in DOMAIN new : d.frames[1] = new[k]
        BY <2>1, InHandMoves
    <2>5. \A f \in InHand' : f \in InHand \/ \E k \in DOMAIN new : f = new[k]
        BY <1>6, <2>4 DEF InHand
    <2>6. QED
        BY <1>1, <2>1, <2>2, <2>3, <2>5 DEF SendStep
<1>7. CASE Waits(new)
    <2> DEFINE S == SenderFrame
    <2>1. queued \in Seq(S) /\ new[1] \in S /\ Len(new) = 1 /\ DOMAIN new = {1}
        <3>1. new \in Seq(S) /\ Len(new) = 1
            BY <1>2, <1>7 DEF Waits
        <3> HIDE DEF S
        <3>2. DOMAIN new = {1} /\ new[1] \in S
            BY <3>1
        <3>3. queued \in Seq(S)
            BY DEF SendInv, QueuedOK, S
        <3>4. QED
            BY <3>1, <3>2, <3>3
    <2>2. /\ queued' \in Seq(S)
          /\ \A k \in DOMAIN queued' :
                 \/ k \in DOMAIN queued /\ queued'[k] = queued[k]
                 \/ queued'[k] = new[1]
        <3> HIDE DEF S
        <3>1. queued' = Append(queued, new[1])
            BY <1>7 DEF Waits
        <3>2. QED
            BY <2>1, <3>1, AppendProperties
    <2>3. \A k \in DOMAIN queued' : MustArrive(queued'[k]) /\ queued'[k].ridx \in 0 .. reliableSeq' - 1
        BY <1>2, <1>5, <2>1, <2>2
    <2>4. /\ UNCHANGED <<sendSeq, recovery, recent>> /\ wire' = wire
        BY <1>7 DEF Waits
    <2>5. TracksOK' /\ Held' = Held
        BY <2>4 DEF SendInv, TracksOK, Held
    <2>6. SendInv'
        BY <1>3, <1>4, <2>2, <2>3, <2>4, <2>5 DEF SendInv, CountersOK, QueuedOK, S
    <2>7. \A f \in InHand' : f \in InHand \/ \E k \in DOMAIN new : f = new[k]
        BY <2>1, <2>2, <2>5 DEF InHand
    <2>8. Covering
        BY <1>4, <2>4 DEF Covering
    <2>9. QED
        BY <1>1, <1>4, <2>4, <2>6, <2>7, <2>8 DEF SendStep
<1>8. QED
    BY <1>1, <1>6, <1>7

\* A message on no channel.
Loose(new, m) ==
    /\ new \in Seq(SenderFrame)
    /\ \A k \in DOMAIN new : /\ new[k].rel \in {"Unreliable", "Reliable"}
                             /\ new[k].split = <<>>
                             /\ new[k].body = <<m, 0>>

LEMMA PlainKeeps ==
    ASSUME SendInv, NEW m \in Message, NEW rel, InsertPlain(m, rel)
    PROVE  \E new : Loose(new, m) /\ SendStep(new) /\ (rel = "Reliable" => Covering)
<1> DEFINE f == IF rel = "Reliable"
                THEN [rel |-> rel, ridx |-> reliableSeq, split |-> <<>>, body |-> <<m, 0>>]
                ELSE [rel |-> rel, split |-> <<>>, body |-> <<m, 0>>]
           new == <<f>>
<1>1. /\ rel \in {"Unreliable", "Reliable"}
      /\ Emit(new)
      /\ reliableSeq' = IF rel = "Reliable" THEN reliableSeq + 1 ELSE reliableSeq
      /\ UNCHANGED <<orderIndex, fragmentId, queued>>
    BY DEF InsertPlain
<1>2. reliableSeq \in Nat /\ sendSeq \in Nat
    BY DEF SendInv, CountersOK
<1>3. f \in SenderFrame /\ f.rel = rel /\ f.split = <<>> /\ f.body = <<m, 0>>
    <2>1. CASE rel = "Reliable"
        <3>1. f = [rel |-> "Reliable", ridx |-> reliableSeq, split |-> <<>>, body |-> <<m, 0>>]
            BY <2>1
        <3>2. QED
            BY <1>2, <2>1, <3>1, FrameShapes
    <2>2. CASE rel = "Unreliable"
        <3>1. f = [rel |-> "Unreliable", split |-> <<>>, body |-> <<m, 0>>]
            BY <2>2
        <3>2. QED
            BY <1>2, <2>2, <3>1, FrameShapes
    <2>3. QED
        BY <1>1, <2>1, <2>2
<1> HIDE DEF f
<1>4. new \in Seq(SenderFrame) /\ DOMAIN new = {1} /\ new[1] = f
    <2> DEFINE S == SenderFrame
    <2> HIDE DEF S
    <2>1. f \in S => <<f>> \in Seq(S)
        OBVIOUS
    <2>2. QED
        BY <1>3, <2>1 DEF S
<1> HIDE DEF new
<1>5. Loose(new, m)
    BY <1>1, <1>3, <1>4 DEF Loose
<1>6. /\ TracksOK'
      /\ sendSeq' \in Nat /\ sendSeq <= sendSeq'
      /\ Sends(new)
      /\ DOMAIN recovery \subseteq DOMAIN recovery'
      /\ (\A k \in DOMAIN new : MustArrive(new[k]))
             => sendSeq .. sendSeq' - 1 \subseteq DOMAIN recovery'
    BY <1>1, <1>2, <1>4, EmitKeeps DEF SendInv
<1>7. reliableSeq' \in Nat /\ reliableSeq <= reliableSeq'
    BY <1>1, <1>2
<1>8. \A k \in DOMAIN queued : MustArrive(queued[k]) /\ queued[k].ridx \in 0 .. reliableSeq' - 1
    BY <1>2, <1>7 DEF SendInv, QueuedOK
<1>9. SendInv'
    BY <1>1, <1>6, <1>7, <1>8 DEF SendInv, CountersOK, QueuedOK
<1>10. \A d \in Held' : d.frames[1] \in InHand \/ \E k \in DOMAIN new : d.frames[1] = new[k]
    BY <1>6, InHandMoves
<1>11. \A g \in InHand' : g \in InHand \/ \E k \in DOMAIN new : g = new[k]
    BY <1>1, <1>10 DEF InHand
<1>12. rel = "Reliable" => Covering
    BY <1>3, <1>4, <1>6 DEF Covering, MustArrive
<1>13. QED
    BY <1>5, <1>6, <1>9, <1>11, <1>12 DEF SendStep


LEMMA FewerKept ==
    ASSUME SendInv, UNCHANGED <<sendSeq, reliableSeq, orderIndex, fragmentId, queued, recent>>,
           wire' \subseteq wire, BooksOK(recovery', SentBelow(sendSeq)),
           \A s \in DOMAIN recovery' :
               s \in DOMAIN recovery /\ recovery'[s].datagram = recovery[s].datagram
    PROVE  SendStep(<<>>)
<1>1. TracksOK'
    BY DEF SendInv, TracksOK
<1>2. SendInv'
    BY <1>1 DEF SendInv, CountersOK, QueuedOK
<1>3. \A d \in Held' : d \in Held
    <2>1. \A d \in Held' : d \in Held \/ d \in {}
        BY HeldMoves
    <2>2. QED
        BY <2>1
<1>4. \A f \in InHand' : f \in InHand
    BY <1>3 DEF InHand
<1>5. sendSeq <= sendSeq'
    BY DEF SendInv, CountersOK
<1>6. QED
    BY <1>2, <1>4, <1>5 DEF SendStep

LEMMA SameBooks ==
    ASSUME SendInv, UNCHANGED <<sendSeq, reliableSeq, orderIndex, fragmentId, queued,
                                recovery, recent>>,
           wire' \subseteq wire
    PROVE  SendStep(<<>>) /\ Covering
<1>1. BooksOK(recovery', SentBelow(sendSeq))
    BY DEF SendInv, TracksOK
<1>2. SendStep(<<>>)
    BY <1>1, FewerKept
<1>3. sendSeq .. sendSeq' - 1 = {}
    BY DEF SendInv, CountersOK
<1>4. QED
    BY <1>2, <1>3 DEF Covering

LEMMA AckKeeps ==
    ASSUME SendInv, NEW seqs, OnAck(seqs)
    PROVE  SendStep(<<>>)
<1>1. /\ recovery' = [s \in DOMAIN recovery \ seqs |-> recovery[s]]
      /\ UNCHANGED <<sendSeq, reliableSeq, orderIndex, fragmentId, queued, recent, wire>>
    BY DEF OnAck
<1>2. BooksOK(recovery', SentBelow(sendSeq))
    BY <1>1 DEF SendInv, TracksOK, BooksOK
<1>3. QED
    BY <1>1, <1>2, FewerKept

LEMMA ClockKeeps ==
    ASSUME SendInv, SendClock
    PROVE  SendStep(<<>>) /\ Covering
<1> DEFINE aged(s) == [recovery[s] EXCEPT !.age = IF @ < AgeLimit THEN @ + 1 ELSE @]
           S == SentBelow(sendSeq)
<1>1. /\ recovery' = [s \in DOMAIN recovery |-> aged(s)]
      /\ UNCHANGED <<sendSeq, reliableSeq, orderIndex, fragmentId, queued, recent, wire>>
    BY DEF SendClock
<1>2. AgeLimit \in Nat
    BY SendAssumption DEF AgeLimit
<1>3. ASSUME NEW s \in DOMAIN recovery
      PROVE  EntryOK(aged(s), s, S) /\ aged(s).datagram = recovery[s].datagram
    <2> DEFINE e == recovery[s]
               a == e.age
               b == IF a < AgeLimit THEN a + 1 ELSE a
    <2>1. EntryOK(e, s, S)
        BY DEF SendInv, TracksOK, BooksOK
    <2> HIDE DEF S, e
    <2>2. e = [age |-> a, datagram |-> e.datagram] /\ a \in 0 .. AgeLimit
        BY <2>1 DEF EntryOK
    <2>3. b \in 0 .. AgeLimit
        BY <1>2, <2>2
    <2>4. aged(s) = [e EXCEPT !.age = b]
        BY DEF e
    <2> HIDE DEF a, b, aged
    <2>5. aged(s) = [age |-> b, datagram |-> e.datagram]
        BY <2>2, <2>4
    <2>6. QED
        BY <2>1, <2>3, <2>5 DEF EntryOK, e
<1> HIDE DEF aged, S
<1>4. BooksOK(recovery', S)
    BY <1>1, <1>3 DEF BooksOK
<1>5. \A s \in DOMAIN recovery' :
          s \in DOMAIN recovery /\ recovery'[s].datagram = recovery[s].datagram
    BY <1>1, <1>3
<1>6. wire' \subseteq wire
    BY <1>1
<1>7. SendStep(<<>>)
    BY <1>1, <1>4, <1>5, <1>6, FewerKept DEF S
<1>8. sendSeq .. sendSeq' - 1 = {} /\ DOMAIN recovery' = DOMAIN recovery
    BY <1>1 DEF SendInv, CountersOK
<1>9. QED
    BY <1>7, <1>8 DEF Covering

LEMMA TickKeeps ==
    ASSUME SendInv, Update
    PROVE  SendStep(<<>>) /\ (TimeoutResend => Covering)
<1>1. /\ TracksOK'
      /\ sendSeq' \in Nat /\ sendSeq <= sendSeq'
      /\ Sends(queued)
      /\ TimeoutResend => Covering
    BY UpdateKeeps DEF SendInv, Covering
<1>2. queued' = <<>> /\ UNCHANGED <<reliableSeq, orderIndex, fragmentId>>
    BY DEF Update
<1>3. SendInv'
    <2>1. QueuedOK'
        BY <1>2 DEF QueuedOK
    <2>2. CountersOK'
        BY <1>1, <1>2 DEF CountersOK, SendInv
    <2>3. QED
        BY <1>1, <2>1, <2>2 DEF SendInv
<1>4. \A d \in Held' : d.frames[1] \in InHand
    <2>1. \A k \in DOMAIN queued : queued[k] \in InHand
        BY DEF InHand
    <2>2. QED
        BY <1>1, <2>1, InHandMoves
<1>5. \A f \in InHand' : f \in InHand
    BY <1>2, <1>4 DEF InHand
<1>6. QED
    BY <1>1, <1>3, <1>5 DEF SendStep

LEMMA RequestKeeps ==
    ASSUME SendInv, NEW seqs, OnNack(seqs)
    PROVE  SendStep(<<>>) /\ Covering
<1>1. TracksOK' /\ Sends(<<>>) /\ DOMAIN recovery \subseteq DOMAIN recovery'
    BY NackKeeps DEF SendInv
<1>2. UNCHANGED <<sendSeq, reliableSeq, orderIndex, fragmentId, queued>>
    BY DEF OnNack
<1>3. SendInv'
    BY <1>1, <1>2 DEF SendInv, CountersOK, QueuedOK
<1>4. \A d \in Held' : d.frames[1] \in InHand
    BY <1>1, InHandMoves
<1>5. \A f \in InHand' : f \in InHand
    BY <1>2, <1>4 DEF InHand
<1>6. sendSeq .. sendSeq' - 1 = {} /\ sendSeq <= sendSeq'
    BY <1>2 DEF SendInv, CountersOK
<1>7. QED
    BY <1>1, <1>3, <1>5, <1>6 DEF SendStep, Covering

----------------------------------------------------------------------------
(* The messages submitted and the packets made of them. *)

\* The messages of a channel are numbered in the order of their submission.
SubmittedOK ==
    /\ submitted \in [SendChannel -> Seq(Message)]
    /\ \A c \in SendChannel : Len(submitted[c]) = orderIndex[c]

ControlOK ==
    \A c \in control : c.kind = "NACK" \/ (c.kind = "ACK" /\ c.seqs \subseteq acked)

LinkBooks == SendInv /\ SubmittedOK /\ ControlOK

\* What a step of the link puts into circulation.
Makes(new) ==
    \/ \E m \in Message, c \in SendChannel :
           /\ Packet(new, m, c)
           /\ orderIndex' = [orderIndex EXCEPT ![c] = @ + 1]
           /\ submitted' = [submitted EXCEPT ![c] = Append(@, m)]
           /\ fragmentId <= fragmentId'
    \/ /\ \E m \in Message : Loose(new, m)
       /\ UNCHANGED <<submitted, orderIndex, fragmentId>>
    \/ new = <<>> /\ UNCHANGED <<submitted, orderIndex, fragmentId>>

\* Who takes a step: one side, or the clock of both.
SenderMoves ==
    \/ \E m \in Message, rel \in {"Unreliable", "Reliable"} : SendPlain(m, rel)
    \/ \E m \in Message, c \in SendChannel, now \in BOOLEAN : SendOrdered(m, c, now)
    \/ SenderTick
    \/ \E c \in control : ReceiveControl(c)
    \/ Lose
    \/ UNCHANGED linkVars

ReceiverMoves ==
    \/ \E d \in wire : ReceiveDatagram(d)
    \/ HandleDatagram
    \/ ReceiverTick
    \/ \E id \in DOMAIN frags : ReceiverExpires(id)
    \/ ReceiverRequests

SenderSame ==
    /\ UNCHANGED <<sendSeq, reliableSeq, orderIndex, fragmentId, queued, recovery,
                   recent, submitted>>
    /\ wire' \subseteq wire

LEMMA ReceiverOrSender ==
    ASSUME LinkNext \/ UNCHANGED linkVars
    PROVE  \/ SenderMoves /\ UNCHANGED recvVars
           \/ ReceiverMoves /\ SenderSame
           \/ Second
<1>1. ASSUME NEW d \in wire, ReceiveDatagram(d)
      PROVE  SenderSame
    BY <1>1 DEF ReceiveDatagram, SenderSame
<1>2. ASSUME \/ HandleDatagram \/ ReceiverTick \/ ReceiverRequests
             \/ \E id \in DOMAIN frags : ReceiverExpires(id)
      PROVE  SenderSame
    BY <1>2 DEF HandleDatagram, ReceiverTick, ReceiverRequests, ReceiverExpires, sendVars,
                SenderSame
<1>3. ReceiverMoves => SenderSame
    BY <1>1, <1>2 DEF ReceiverMoves
<1>4. SenderMoves => UNCHANGED recvVars
    BY DEF SenderMoves, SendPlain, SendOrdered, SenderTick, ReceiveControl, Lose,
           linkVars, recvVars
<1>5. SenderMoves \/ ReceiverMoves \/ Second
    BY DEF LinkNext, SenderMoves, ReceiverMoves
<1>6. QED
    BY <1>3, <1>4, <1>5

LEMMA StepMakes ==
    ASSUME LinkBooks, LinkNext \/ UNCHANGED linkVars
    PROVE  /\ \E new : Makes(new) /\ SendStep(new)
           /\ TimeoutResend /\ "Unreliable" \notin SendKind
                  => Covering \/ \E seqs \in SUBSET acked : OnAck(seqs)
<1> DEFINE Goal == /\ \E new : Makes(new) /\ SendStep(new)
                   /\ TimeoutResend /\ "Unreliable" \notin SendKind
                          => Covering \/ \E seqs \in SUBSET acked : OnAck(seqs)
<1>1. SendInv
    BY DEF LinkBooks
<1>2. UNCHANGED <<submitted, orderIndex, fragmentId>> => Makes(<<>>)
    BY DEF Makes
<1>3. ASSUME NEW m \in Message, NEW rel \in {"Unreliable", "Reliable"}, SendPlain(m, rel)
      PROVE  Goal
    <2>1. InsertPlain(m, rel) /\ rel \in SendKind /\ UNCHANGED submitted
        BY <1>3 DEF SendPlain
    <2>2. PICK new : Loose(new, m) /\ SendStep(new) /\ (rel = "Reliable" => Covering)
        BY <1>1, <2>1, PlainKeeps
    <2>3. UNCHANGED <<orderIndex, fragmentId>>
        BY <2>1 DEF InsertPlain
    <2>4. Makes(new)
        BY <2>1, <2>2, <2>3 DEF Makes
    <2>5. QED
        BY <2>1, <2>2, <2>4
<1>4. ASSUME NEW m \in Message, NEW c \in SendChannel, NEW now \in BOOLEAN,
             SendOrdered(m, c, now)
      PROVE  Goal
    <2>1. /\ InsertOrdered(m, c, now) \/ InsertSplit(m, c)
          /\ submitted' = [submitted EXCEPT ![c] = Append(@, m)]
        BY <1>4 DEF SendOrdered
    <2>2. PICK new : Packet(new, m, c) /\ SendStep(new) /\ Covering
        BY <1>1, <2>1, OrderedKeeps
    <2>3. orderIndex' = [orderIndex EXCEPT ![c] = @ + 1] /\ fragmentId <= fragmentId'
        BY <1>1, <2>1, CountersGrow DEF SendInv
    <2>4. Makes(new)
        BY <2>1, <2>2, <2>3 DEF Makes
    <2>5. QED
        BY <2>2, <2>4
<1>5. ASSUME SenderTick
      PROVE  Goal
    <2>1. Update /\ UNCHANGED submitted
        BY <1>5 DEF SenderTick
    <2>2. UNCHANGED <<orderIndex, fragmentId>>
        BY <2>1 DEF Update
    <2>3. QED
        BY <1>1, <1>2, <2>1, <2>2, TickKeeps
<1>6. ASSUME NEW c \in control, ReceiveControl(c)
      PROVE  Goal
    <2>1. /\ UNCHANGED submitted
          /\ IF c.kind = "ACK" THEN OnAck(c.seqs) ELSE OnNack(c.seqs)
        BY <1>6 DEF ReceiveControl
    <2>2. CASE c.kind = "ACK"
        <3>1. c.seqs \in SUBSET acked
            BY <2>2 DEF LinkBooks, ControlOK
        <3>2. UNCHANGED <<orderIndex, fragmentId>>
            BY <2>1, <2>2 DEF OnAck
        <3>3. SendStep(<<>>)
            BY <1>1, <2>1, <2>2, AckKeeps
        <3>4. QED
            BY <1>2, <2>1, <2>2, <3>1, <3>2, <3>3
    <2>3. CASE c.kind # "ACK"
        <3>1. UNCHANGED <<orderIndex, fragmentId>>
            BY <2>1, <2>3 DEF OnNack
        <3>2. SendStep(<<>>) /\ Covering
            BY <1>1, <2>1, <2>3, RequestKeeps
        <3>3. QED
            BY <1>2, <2>1, <3>1, <3>2
    <2>4. QED
        BY <2>2, <2>3
<1>7. ASSUME Lose \/ UNCHANGED linkVars
      PROVE  Goal
    <2>1. /\ UNCHANGED <<sendSeq, reliableSeq, orderIndex, fragmentId, queued,
                         recovery, recent, submitted>>
          /\ wire' \subseteq wire
        BY <1>7 DEF Lose, linkVars, sendVars
    <2>2. QED
        BY <1>1, <1>2, <2>1, SameBooks
<1>8. ASSUME SenderSame
      PROVE  Goal
    BY <1>1, <1>2, <1>8, SameBooks DEF SenderSame
<1>9. ASSUME Second
      PROVE  Goal
    <2>1. SendClock /\ UNCHANGED submitted
        BY <1>9 DEF Second
    <2>2. UNCHANGED <<orderIndex, fragmentId>>
        BY <2>1 DEF SendClock
    <2>3. QED
        BY <1>1, <1>2, <2>1, <2>2, ClockKeeps
<1>10. Goal
    <2> HIDE DEF Goal
    <2>1. SenderMoves => Goal
        BY <1>3, <1>4, <1>5, <1>6, <1>7 DEF SenderMoves
    <2>2. QED
        BY <1>8, <1>9, <2>1, ReceiverOrSender
<1>11. QED
    BY <1>10

LEMMA AckedGrows ==
    ASSUME LinkNext \/ UNCHANGED linkVars
    PROVE  acked \subseteq acked'
<1>1. UNCHANGED recvVars => acked' = acked
    BY DEF recvVars
<1>2. ReceiverTick => acked \subseteq acked'
    BY DEF ReceiverTick, TickAcks
<1>3. ReceiverMoves \/ Second => ReceiverTick \/ acked' = acked
    BY DEF ReceiverMoves, ReceiveDatagram, HandleDatagram, ReceiverExpires, ReceiverRequests,
           Second, InsertDatagram, HandleFrame, Flush, ExpireSet, TickNacks, ClockTick
<1>4. QED
    BY <1>1, <1>2, <1>3, ReceiverOrSender

LEMMA StepControl ==
    ASSUME ControlOK, LinkNext \/ UNCHANGED linkVars
    PROVE  ControlOK'
<1>1. \A c \in control : c.kind = "NACK" \/ (c.kind = "ACK" /\ c.seqs \subseteq acked')
    BY AckedGrows DEF ControlOK
<1>2. CASE control' \subseteq control
    BY <1>1, <1>2 DEF ControlOK
<1>3. CASE ReceiverTick
    <2>1. /\ \A c \in control' : c \in control \/ c = Ack(ackPending)
          /\ ackPending \subseteq acked'
        BY <1>3 DEF ReceiverTick, TickAcks
    <2>2. Ack(ackPending).kind = "ACK" /\ Ack(ackPending).seqs = ackPending
        BY DEF Ack
    <2>3. QED
        BY <1>1, <2>1, <2>2 DEF ControlOK
<1>4. CASE ReceiverRequests
    <2>1. \A c \in control' : c \in control \/ c = Nack(Requested)
        BY <1>4 DEF ReceiverRequests
    <2>2. Nack(Requested).kind = "NACK"
        BY DEF Nack
    <2>3. QED
        BY <1>1, <2>1, <2>2 DEF ControlOK
<1>5. ~ReceiverTick /\ ~ReceiverRequests => control' \subseteq control
    BY DEF LinkNext, linkVars, SendPlain, SendOrdered, SenderTick, ReceiveControl,
           ReceiveDatagram, HandleDatagram, ReceiverExpires, Second, Lose
<1>6. QED
    BY <1>2, <1>3, <1>4, <1>5

LEMMA StepSubmitted ==
    ASSUME SubmittedOK, CountersOK, NEW new, Makes(new)
    PROVE  SubmittedOK'
<1>1. CASE UNCHANGED <<submitted, orderIndex>>
    BY <1>1 DEF SubmittedOK
<1>2. ASSUME NEW m \in Message, NEW c \in SendChannel,
             orderIndex' = [orderIndex EXCEPT ![c] = @ + 1],
             submitted' = [submitted EXCEPT ![c] = Append(@, m)]
      PROVE  SubmittedOK'
    <2>1. /\ submitted \in [SendChannel -> Seq(Message)]
          /\ orderIndex \in [SendChannel -> Nat]
          /\ \A d \in SendChannel : Len(submitted[d]) = orderIndex[d]
        BY DEF SubmittedOK, CountersOK
    <2>2. Append(submitted[c], m) \in Seq(Message)
          /\ Len(Append(submitted[c], m)) = orderIndex[c] + 1
        BY <2>1, AppendProperties
    <2>3. submitted' \in [SendChannel -> Seq(Message)]
        BY <1>2, <2>1, <2>2
    <2>4. \A d \in SendChannel : Len(submitted'[d]) = orderIndex'[d]
        <3> TAKE d \in SendChannel
        <3>1. CASE d = c
            <4>1. submitted'[d] = Append(submitted[c], m) /\ orderIndex'[d] = orderIndex[c] + 1
                BY <1>2, <2>1, <3>1
            <4>2. QED
                BY <2>2, <4>1
        <3>2. CASE d # c
            BY <1>2, <2>1, <3>2
        <3>3. QED
            BY <3>1, <3>2
    <2>5. QED
        BY <2>3, <2>4 DEF SubmittedOK
<1>3. QED
    BY <1>1, <1>2 DEF Makes

LEMMA StepBooks ==
    ASSUME LinkBooks, LinkNext \/ UNCHANGED linkVars
    PROVE  LinkBooks'
<1>1. PICK new : Makes(new) /\ SendStep(new)
    BY StepMakes
<1>2. SubmittedOK'
    BY <1>1, StepSubmitted DEF LinkBooks, SendInv
<1>3. QED
    BY <1>1, <1>2, StepControl DEF LinkBooks, SendStep

LEMMA InitBooks == LinkInit => LinkBooks
<1> SUFFICES ASSUME LinkInit
             PROVE  LinkBooks
    OBVIOUS
<1>1. /\ sendSeq = 0 /\ reliableSeq = 0 /\ fragmentId = 0
      /\ orderIndex = [c \in SendChannel |-> 0]
      /\ queued = <<>> /\ recovery = <<>> /\ recent = <<>> /\ wire = {}
      /\ control = {}
      /\ submitted = [c \in SendChannel |-> <<>>]
    BY DEF LinkInit, SendInit
<1>2. CountersOK
    BY <1>1 DEF CountersOK
<1>3. \A S : <<>> \in Seq(S) /\ Len(<<>>) = 0 /\ DOMAIN <<>> = {}
    OBVIOUS
<1>4. QueuedOK
    BY <1>1, <1>3 DEF QueuedOK
<1>5. BooksOK(recovery, SentBelow(sendSeq))
    <2>1. recovery = [s \in DOMAIN recovery |-> recovery[s]] /\ DOMAIN recovery = {}
        BY <1>1
    <2>2. QED
        BY <2>1 DEF BooksOK
<1>6. RecentOK(recent, SentBelow(sendSeq))
    BY <1>1, <1>3, SendAssumption DEF RecentOK
<1>7. SendInv
    BY <1>1, <1>2, <1>4, <1>5, <1>6 DEF SendInv, TracksOK
<1>8. SubmittedOK
    BY <1>1, <1>3 DEF SubmittedOK
<1>9. ControlOK
    BY <1>1 DEF ControlOK
<1>10. QED
    BY <1>7, <1>8, <1>9 DEF LinkBooks

THEOREM BooksInvariance == LinkSpec => []LinkBooks
<1>1. LinkInit => LinkBooks
    BY InitBooks
<1>2. LinkBooks /\ [LinkNext]_linkVars => LinkBooks'
    BY StepBooks
<1>3. QED
    BY <1>1, <1>2, PTL DEF LinkSpec

----------------------------------------------------------------------------
(* What is sent is kept until it is acknowledged. *)

LEMMA BooksShape ==
    ASSUME SendInv
    PROVE  SendTypeOK
<1>1. \A d \in SentBelow(sendSeq) : d.seq \in 0 .. sendSeq - 1
    <2> DEFINE F == {<<f>> : f \in SenderFrame}
    <2>1. SentBelow(sendSeq) = [seq : 0 .. sendSeq - 1, frames : F]
        BY DEF SentBelow
    <2> HIDE DEF F
    <2>2. QED
        BY <2>1
<1>2. \A s \in DOMAIN recovery : /\ recovery[s].age \in 0 .. AgeLimit
                                 /\ recovery[s].datagram.seq = s
                                 /\ s \in 0 .. sendSeq - 1
    BY <1>1 DEF SendInv, TracksOK, BooksOK, EntryOK
<1>3. \A d \in wire : d.seq \in 0 .. sendSeq - 1
    BY <1>1 DEF SendInv, TracksOK
<1>4. /\ Len(recent) <= RecentLimit
      /\ \A j, k \in DOMAIN recent : recent[j].seq = recent[k].seq => j = k
    BY DEF SendInv, TracksOK, RecentOK
<1>5. \A k \in DOMAIN queued : queued[k].ridx \in 0 .. reliableSeq - 1
    BY DEF SendInv, QueuedOK
<1>6. /\ {sendSeq, reliableSeq, fragmentId} \subseteq Nat
      /\ orderIndex \in [SendChannel -> Nat]
    BY DEF SendInv, CountersOK
<1>7. QED
    BY <1>2, <1>3, <1>4, <1>5, <1>6 DEF SendTypeOK

\* The books of the sender keep their shape, whatever the network and the
\* receiver do.
THEOREM SendTypeCorrect == LinkSpec => []SendTypeOK
<1>1. LinkBooks => SendTypeOK
    BY BooksShape DEF LinkBooks
<1>2. QED
    BY <1>1, BooksInvariance, PTL

Covered == \A s \in 0 .. sendSeq - 1 : s \in DOMAIN recovery \cup acked

LEMMA StepCovered ==
    ASSUME TimeoutResend, "Unreliable" \notin SendKind,
           LinkBooks, Covered, LinkNext \/ UNCHANGED linkVars
    PROVE  Covered'
<1>1. acked \subseteq acked' /\ sendSeq \in Nat
    BY AckedGrows DEF LinkBooks, SendInv, CountersOK
<1>2. CASE Covering
    <2>1. PICK new : SendStep(new)
        BY StepMakes
    <2>2. sendSeq' \in Nat
        BY <2>1 DEF SendStep, SendInv, CountersOK
    <2> SUFFICES ASSUME NEW s \in 0 .. sendSeq' - 1
                 PROVE  s \in DOMAIN recovery' \cup acked'
        BY DEF Covered
    <2>3. s \in 0 .. sendSeq - 1 \/ s \in sendSeq .. sendSeq' - 1
        <3>1. sendSeq \in Nat
            BY <1>1
        <3>2. \A m, n \in Nat : \A k \in 0 .. n - 1 : k \in 0 .. m - 1 \/ k \in m .. n - 1
            OBVIOUS
        <3>3. QED
            BY <2>2, <3>1, <3>2, Zenon
    <2>4. QED
        BY <1>1, <1>2, <2>3 DEF Covered, Covering
<1>3. CASE \E seqs \in SUBSET acked : OnAck(seqs)
    BY <1>1, <1>3 DEF OnAck, Covered
<1>4. QED
    BY <1>2, <1>3, StepMakes

\* With resends by timeout, which never give up, a datagram of reliable frames
\* leaves the recovery queue only when the receiver has acknowledged it
\* (on_ack(), update() and on_nack(), in any order with what the network loses,
\* duplicates and reorders).
THEOREM KeptUntilAcknowledged ==
    ASSUME TimeoutResend, "Unreliable" \notin SendKind
    PROVE  LinkSpec => []RecoveryCovers
<1>1. LinkInit => Covered
    BY DEF LinkInit, SendInit, Covered
<1>2. LinkBooks /\ Covered /\ [LinkNext]_linkVars => Covered'
    BY StepCovered
<1>3. LinkBooks /\ Covered => RecoveryCovers
    BY BooksShape DEF LinkBooks, RecoveryCovers, Covered
<1>4. QED
    BY <1>1, <1>2, <1>3, BooksInvariance, PTL DEF LinkSpec


----------------------------------------------------------------------------
(* The receiver of the link takes the steps of RecvQueue.                  *)

Fits == wire \subseteq Datagram

LEMMA ReceiverSteps ==
    ASSUME IInv, Fits, LinkNext \/ UNCHANGED linkVars
    PROVE  /\ [RecvNext]_recvVars
           /\ (\E d \in Datagram : InsertDatagram(d)) => \E d \in wire : ReceiveDatagram(d)
<1>1. CASE UNCHANGED recvVars
    <2>1. \A d \in Datagram : ~InsertDatagram(d)
        BY <1>1 DEF InsertDatagram, recvVars
    <2>2. QED
        BY <1>1, <2>1
<1>2. CASE \E d \in wire : ReceiveDatagram(d)
    <2>1. PICK d \in wire : ReceiveDatagram(d)
        BY <1>2
    <2>2. d \in Datagram /\ InsertDatagram(d)
        BY <2>1 DEF Fits, ReceiveDatagram
    <2>3. RecvNext
        BY <2>2 DEF RecvNext
    <2>4. QED
        BY <1>2, <2>3
<1>3. CASE HandleDatagram
    <2>1. HandleFrame \/ Flush
        BY <1>3 DEF HandleDatagram
    <2>2. phase = "frames"
        BY <2>1 DEF HandleFrame, Flush
    <2>3. QED
        BY <2>1, <2>2 DEF RecvNext, InsertDatagram
<1>4. CASE ReceiverTick
    <2>1. TickAcks /\ phase' # "frames"
        BY <1>4 DEF ReceiverTick, TickAcks
    <2>2. QED
        BY <2>1 DEF RecvNext, InsertDatagram
<1>5. CASE \E id \in DOMAIN frags : ReceiverExpires(id)
    <2>1. PICK id \in DOMAIN frags : ReceiverExpires(id)
        BY <1>5
    <2>2. id \in SplitId /\ ExpireSet(id)
        BY <2>1 DEF ReceiverExpires, IInv, TypeInv, FragsOK
    <2>3. phase # "idle"
        BY <2>2 DEF ExpireSet
    <2>4. QED
        BY <2>2, <2>3 DEF RecvNext, InsertDatagram
<1>6. CASE ReceiverRequests
    <2>1. TickNacks /\ phase # "idle"
        BY <1>6 DEF ReceiverRequests, TickNacks
    <2>2. QED
        BY <2>1 DEF RecvNext, InsertDatagram
<1>7. CASE Second
    <2>1. ClockTick /\ phase' # "frames"
        BY <1>7 DEF Second, ClockTick
    <2>2. QED
        BY <2>1 DEF RecvNext, InsertDatagram
<1>8. QED
    BY <1>1, <1>2, <1>3, <1>4, <1>5, <1>6, <1>7, ReceiverOrSender DEF ReceiverMoves

----------------------------------------------------------------------------
(* The frames in circulation, from the queue of the sender to the          *)
(* application of the receiver.                                            *)

Circulating == InHand \cup Seen

\* A frame carries a message that was submitted at its place, and the part of
\* it that its split index names.
Genuine(f) ==
    /\ f.rel \in {"Unreliable", "Reliable", "ReliableOrd"}
    /\ f.body = <<f.body[1], IF IsSplit(f) THEN Split(f).index ELSE 0>>
    /\ IsSplit(f) => /\ Ordered(f)
                     /\ Split(f).id \in Nat /\ Split(f).id <= fragmentId
                     /\ Split(f).index < Split(f).size
    /\ Ordered(f) => /\ f.chan \in SendChannel
                     /\ f.oidx \in 0 .. Len(submitted[f.chan]) - 1
                     /\ f.body[1] = submitted[f.chan][f.oidx + 1]

CircInv == Numbered(Circulating) /\ \A f \in Circulating : Genuine(f)

LEMMA StepCirculates ==
    ASSUME LinkBooks, IInv, OnceInv, Fits, LinkNext \/ UNCHANGED linkVars
    PROVE  \E new : /\ Makes(new)
                    /\ \A g \in Circulating' : g \in Circulating \/ \E k \in DOMAIN new : g = new[k]
<1>1. PICK new : Makes(new) /\ SendStep(new)
    BY StepMakes
<1>2. ASSUME NEW d \in wire
      PROVE  \A k \in DOMAIN d.frames : d.frames[k] \in InHand
    <2>1. PICK f \in SenderFrame : d.frames = <<f>>
        <3> DEFINE F == {<<f>> : f \in SenderFrame}
        <3>1. d \in [seq : 0 .. sendSeq - 1, frames : F]
            BY DEF LinkBooks, SendInv, TracksOK, SentBelow
        <3> HIDE DEF F
        <3>2. d.frames \in F
            BY <3>1
        <3>3. QED
            BY <3>2 DEF F
    <2>2. DOMAIN d.frames = {1} /\ d \in Held
        BY <2>1 DEF Held
    <2>3. QED
        BY <2>2 DEF InHand
<1>3. [RecvNext]_recvVars
    BY ReceiverSteps
<1>4. \A g \in Seen' : g \in Seen \/ g \in InHand
    <2> TAKE g \in Seen'
    <2>1. CASE g \in Seen
        BY <2>1
    <2>2. CASE /\ \E d \in Datagram : InsertDatagram(d)
               /\ \E k \in DOMAIN todo' : g = todo'[k]
        <3>1. PICK d \in wire : ReceiveDatagram(d)
            BY <2>2, ReceiverSteps
        <3>2. todo' = d.frames \/ todo' = <<>>
            BY <3>1 DEF ReceiveDatagram, InsertDatagram
        <3>3. QED
            BY <1>2, <2>2, <3>2
    <2>3. QED
        BY <1>3, <2>1, <2>2, StepSeen
<1>5. \A g \in Circulating' : g \in Circulating \/ \E k \in DOMAIN new : g = new[k]
    BY <1>1, <1>4 DEF Circulating, SendStep
<1>6. QED
    BY <1>1, <1>5

\* A genuine frame stays so while the channels grow.
LEMMA GenuineStays ==
    ASSUME SubmittedOK, SendInv, NEW new, Makes(new), SendInv', NEW f, Genuine(f)
    PROVE  Genuine(f)'
<1>1. fragmentId \in Nat /\ fragmentId' \in Nat /\ fragmentId <= fragmentId'
    BY DEF Makes, SendInv, CountersOK
<1>2. IsSplit(f) => Split(f).id <= fragmentId'
    BY <1>1 DEF Genuine
<1>3. ASSUME Ordered(f)
      PROVE  /\ f.oidx \in 0 .. Len(submitted'[f.chan]) - 1
             /\ f.body[1] = submitted'[f.chan][f.oidx + 1]
    <2>1. /\ f.chan \in SendChannel
          /\ f.oidx \in 0 .. Len(submitted[f.chan]) - 1
          /\ f.body[1] = submitted[f.chan][f.oidx + 1]
          /\ submitted \in [SendChannel -> Seq(Message)]
        BY <1>3 DEF Genuine, SubmittedOK
    <2>2. CASE UNCHANGED submitted
        BY <2>1, <2>2
    <2>3. ASSUME NEW m \in Message, NEW c \in SendChannel,
                 submitted' = [submitted EXCEPT ![c] = Append(@, m)]
          PROVE  /\ f.oidx \in 0 .. Len(submitted'[f.chan]) - 1
                 /\ f.body[1] = submitted'[f.chan][f.oidx + 1]
        <3>1. CASE f.chan = c
            <4> DEFINE s == submitted[c]
                       t == submitted'[c]
            <4>1. s \in Seq(Message) /\ t = Append(s, m)
                BY <2>1, <2>3
            <4>2. /\ Len(s) \in Nat /\ Len(t) = Len(s) + 1
                  /\ \A i \in 1 .. Len(s) : t[i] = s[i]
                BY <4>1, AppendProperties
            <4>3. f.oidx \in 0 .. Len(s) - 1 /\ f.body[1] = s[f.oidx + 1]
                BY <2>1, <3>1
            <4> HIDE DEF s, t
            <4>4. f.oidx \in 0 .. Len(t) - 1 /\ f.body[1] = t[f.oidx + 1]
                BY <4>2, <4>3
            <4>5. QED
                BY <3>1, <4>4 DEF t
        <3>2. CASE f.chan # c
            <4>1. submitted'[f.chan] = submitted[f.chan]
                BY <2>1, <2>3, <3>2
            <4>2. QED
                BY <2>1, <4>1
        <3>3. QED
            BY <3>1, <3>2
    <2>4. QED
        BY <2>2, <2>3 DEF Makes
<1>4. QED
    BY <1>2, <1>3 DEF Genuine

LEMMA GenuineNew ==
    ASSUME SubmittedOK, SendInv, NEW new, Makes(new), SendInv', NEW k \in DOMAIN new
    PROVE  Genuine(new[k])'
<1> DEFINE f == new[k]
<1>1. CASE \E m \in Message : Loose(new, m)
    <2>1. PICK m \in Message : Loose(new, m)
        BY <1>1
    <2>2. /\ f.rel \in {"Unreliable", "Reliable"}
          /\ f.split = <<>>
          /\ f.body = <<m, 0>>
        BY <2>1 DEF Loose
    <2> HIDE DEF f
    <2>3. Genuine(f)'
        BY <2>2 DEF Genuine, IsSplit, Ordered
    <2>4. QED
        BY <2>3 DEF f
<1>2. ASSUME NEW m \in Message, NEW c \in SendChannel, Packet(new, m, c),
             submitted' = [submitted EXCEPT ![c] = Append(@, m)]
      PROVE  Genuine(new[k])'
    <2>1. /\ k \in Nat
          /\ f.rel = "ReliableOrd"
          /\ f.chan = c
          /\ f.oidx = orderIndex[c]
          /\ f.body = <<m, k - 1>>
          /\ \/ f.split = <<>> /\ k = 1 /\ Len(new) = 1
             \/ /\ f.split = <<[id |-> fragmentId + 1, size |-> Len(new), index |-> k - 1]>>
                /\ fragmentId' = fragmentId + 1
        BY <1>2 DEF Packet
    <2> HIDE DEF f
    <2>2. /\ submitted'[c] = Append(submitted[c], m)
          /\ submitted[c] \in Seq(Message)
          /\ orderIndex[c] = Len(submitted[c])
        BY <1>2 DEF SubmittedOK
    <2>3. /\ Len(submitted'[c]) = orderIndex[c] + 1
          /\ submitted'[c][orderIndex[c] + 1] = m
          /\ orderIndex[c] \in Nat
        BY <2>2, AppendProperties
    <2>4. Ordered(f) /\ f.oidx \in 0 .. Len(submitted'[f.chan]) - 1
          /\ f.body[1] = submitted'[f.chan][f.oidx + 1]
        BY <2>1, <2>3 DEF Ordered
    <2>5. fragmentId \in Nat
        BY DEF SendInv, CountersOK
    <2>6. IsSplit(f) => /\ Split(f).id \in Nat /\ Split(f).id <= fragmentId'
                        /\ Split(f).index = k - 1
                        /\ Split(f).index < Split(f).size
        <3>1. new \in Seq(SenderFrame)
            BY <1>2 DEF Packet
        <3>2. Len(new) \in Nat /\ k \in 1 .. Len(new)
            <4> DEFINE S == SenderFrame
            <4>1. new \in Seq(S)
                BY <3>1
            <4> HIDE DEF S
            <4>2. QED
                BY <4>1
        <3>3. k - 1 < Len(new)
            BY <3>2
        <3>4. QED
            BY <2>1, <2>5, <3>3 DEF IsSplit, Split
    <2>7. ~IsSplit(f) => k - 1 = 0
        <3>1. \A p : <<p>> # <<>>
            OBVIOUS
        <3>2. ~IsSplit(f) => k = 1
            BY <2>1, <3>1 DEF IsSplit
        <3>3. QED
            BY <3>2
    <2>8. f.body = <<f.body[1], IF IsSplit(f) THEN Split(f).index ELSE 0>>
        BY <2>1, <2>6, <2>7
    <2>9. Genuine(f)'
        BY <2>1, <2>4, <2>6, <2>8 DEF Genuine
    <2>10. QED
        BY <2>9 DEF f
<1>3. QED
    BY <1>1, <1>2 DEF Makes


\* Frames made by one step are numbered, and apart from all that were made.
LEMMA NumberedNew ==
    ASSUME LinkBooks, CircInv, NEW m \in Message, NEW c \in SendChannel, NEW new,
           Packet(new, m, c), NEW k \in DOMAIN new
    PROVE  /\ \A f \in Circulating : ~SamePacket(f, new[k]) /\ ~SameTurn(f, new[k])
           /\ \A j \in DOMAIN new :
                  /\ SamePacket(new[j], new[k]) =>
                         /\ Split(new[j]).size = Split(new[k]).size
                         /\ new[j].rel = new[k].rel
                         /\ new[j].chan = new[k].chan /\ new[j].oidx = new[k].oidx
                         /\ Split(new[j]).index = Split(new[k]).index => new[j] = new[k]
                  /\ new[j] = new[k] \/ SamePacket(new[j], new[k])
<1>1. \A j \in DOMAIN new :
          /\ j \in Nat
          /\ new[j].rel = "ReliableOrd"
          /\ new[j].chan = c
          /\ new[j].oidx = orderIndex[c]
          /\ \/ new[j].split = <<>> /\ j = 1 /\ Len(new) = 1
             \/ new[j].split = <<[id |-> fragmentId + 1, size |-> Len(new), index |-> j - 1]>>
    BY DEF Packet
<1>2. fragmentId \in Nat /\ orderIndex[c] \in Nat /\ Len(submitted[c]) = orderIndex[c]
    BY DEF LinkBooks, SendInv, CountersOK, SubmittedOK
<1>3. \A p : <<p>> # <<>> /\ <<p>>[1] = p
    OBVIOUS
<1>4. \A j \in DOMAIN new : \/ ~IsSplit(new[j]) /\ j = 1 /\ Len(new) = 1
                            \/ /\ IsSplit(new[j])
                               /\ Split(new[j]) = [id |-> fragmentId + 1, size |-> Len(new),
                                                   index |-> j - 1]
    BY <1>1, <1>3 DEF IsSplit, Split
<1>5. ASSUME NEW f \in Circulating
      PROVE  ~SamePacket(f, new[k]) /\ ~SameTurn(f, new[k])
    <2>1. /\ IsSplit(f) => Split(f).id \in Nat /\ Split(f).id <= fragmentId
          /\ Ordered(f) => f.oidx \in 0 .. Len(submitted[f.chan]) - 1
        BY DEF CircInv, Genuine
    <2>2. ~SamePacket(f, new[k])
        BY <1>2, <1>4, <2>1 DEF SamePacket
    <2>3. ~SameTurn(f, new[k])
        <3> SUFFICES ASSUME SameTurn(f, new[k])
                     PROVE  FALSE
            OBVIOUS
        <3>1. Ordered(f) /\ f.chan = c /\ f.oidx = orderIndex[c]
            BY <1>1 DEF SameTurn
        <3>2. f.oidx \in 0 .. orderIndex[c] - 1
            BY <1>2, <2>1, <3>1
        <3>3. QED
            BY <1>2, <3>1, <3>2
    <2>4. QED
        BY <2>2, <2>3
<1>6. ASSUME NEW j \in DOMAIN new
      PROVE  /\ SamePacket(new[j], new[k]) =>
                    /\ Split(new[j]).size = Split(new[k]).size
                    /\ new[j].rel = new[k].rel
                    /\ new[j].chan = new[k].chan /\ new[j].oidx = new[k].oidx
                    /\ Split(new[j]).index = Split(new[k]).index => new[j] = new[k]
             /\ new[j] = new[k] \/ SamePacket(new[j], new[k])
    <2>1. CASE ~IsSplit(new[j]) /\ j = 1 /\ Len(new) = 1
        <3>1. DOMAIN new = {1}
            <4> DEFINE S == SenderFrame
            <4>1. new \in Seq(S)
                BY DEF Packet
            <4> HIDE DEF S
            <4>2. QED
                BY <2>1, <4>1
        <3>2. k = j
            BY <2>1, <3>1
        <3>3. QED
            BY <2>1, <3>2 DEF SamePacket
    <2>2. CASE ~IsSplit(new[k]) /\ k = 1 /\ Len(new) = 1
        <3>1. DOMAIN new = {1}
            <4> DEFINE S == SenderFrame
            <4>1. new \in Seq(S)
                BY DEF Packet
            <4> HIDE DEF S
            <4>2. QED
                BY <2>2, <4>1
        <3>2. k = j
            BY <2>2, <3>1
        <3>3. QED
            BY <2>2, <3>2 DEF SamePacket
    <2>3. CASE /\ IsSplit(new[j])
               /\ Split(new[j]) = [id |-> fragmentId + 1, size |-> Len(new), index |-> j - 1]
               /\ IsSplit(new[k])
               /\ Split(new[k]) = [id |-> fragmentId + 1, size |-> Len(new), index |-> k - 1]
        <3>1. SamePacket(new[j], new[k])
            BY <2>3 DEF SamePacket
        <3>2. Split(new[j]).size = Split(new[k]).size
            BY <2>3
        <3>3. Split(new[j]).index = Split(new[k]).index => j = k
            <4>1. Split(new[j]).index = j - 1 /\ Split(new[k]).index = k - 1
                BY <2>3
            <4>2. j \in Nat /\ k \in Nat
                BY <1>1
            <4>3. QED
                BY <4>1, <4>2
        <3>4. QED
            BY <1>1, <3>1, <3>2, <3>3
    <2>4. QED
        BY <1>4, <2>1, <2>2, <2>3
<1>7. QED
    BY <1>5, <1>6

LEMMA StepCirc ==
    ASSUME LinkBooks, IInv, OnceInv, CircInv, Fits, LinkNext \/ UNCHANGED linkVars
    PROVE  CircInv'
<1>1. PICK new : /\ Makes(new)
                 /\ \A g \in Circulating' : g \in Circulating \/ \E k \in DOMAIN new : g = new[k]
    BY StepCirculates
<1>2. SubmittedOK /\ SendInv /\ SendInv'
    BY StepBooks DEF LinkBooks
<1>3. ASSUME NEW f \in Circulating'
      PROVE  Genuine(f)'
    <2>1. f \in Circulating => Genuine(f)
        BY DEF CircInv
    <2>2. CASE f \in Circulating
        BY <1>1, <1>2, <2>1, <2>2, GenuineStays
    <2>3. CASE \E k \in DOMAIN new : f = new[k]
        BY <1>1, <1>2, <2>3, GenuineNew
    <2>4. QED
        BY <1>1, <2>2, <2>3
<1>4. CASE \E m \in Message, c \in SendChannel : Packet(new, m, c)
    <2>1. PICK m \in Message, c \in SendChannel : Packet(new, m, c)
        BY <1>4
    <2>2. \A k \in DOMAIN new :
              /\ \A f \in Circulating : ~SamePacket(f, new[k]) /\ ~SameTurn(f, new[k])
              /\ \A j \in DOMAIN new :
                     /\ SamePacket(new[j], new[k]) =>
                            /\ Split(new[j]).size = Split(new[k]).size
                            /\ new[j].rel = new[k].rel
                            /\ new[j].chan = new[k].chan /\ new[j].oidx = new[k].oidx
                            /\ Split(new[j]).index = Split(new[k]).index => new[j] = new[k]
                     /\ new[j] = new[k] \/ SamePacket(new[j], new[k])
        BY <2>1, NumberedNew
    <2>3. \A f, g : /\ SamePacket(f, g) <=> SamePacket(g, f)
                    /\ SameTurn(f, g) <=> SameTurn(g, f)
        BY DEF SamePacket, SameTurn
    <2>4. Numbered(Circulating)
        BY DEF CircInv
    <2>5. ASSUME NEW f \in Circulating', NEW g \in Circulating'
          PROVE  /\ SamePacket(f, g) =>
                        /\ Split(f).size = Split(g).size
                        /\ f.rel = g.rel
                        /\ Indexed(f) => f.chan = g.chan /\ f.oidx = g.oidx
                        /\ Split(f).index = Split(g).index => f = g
                 /\ SameTurn(f, g) => f = g \/ SamePacket(f, g)
        <3>1. CASE f \in Circulating /\ g \in Circulating
            BY <2>4, <3>1 DEF Numbered
        <3>2. CASE \E k \in DOMAIN new : g = new[k]
            <4>1. PICK k \in DOMAIN new : g = new[k]
                BY <3>2
            <4>2. CASE f \in Circulating
                BY <2>2, <4>1, <4>2
            <4>3. CASE \E j \in DOMAIN new : f = new[j]
                <5>1. PICK j \in DOMAIN new : f = new[j]
                    BY <4>3
                <5>2. QED
                    BY <2>2, <4>1, <5>1
            <4>4. QED
                BY <1>1, <4>2, <4>3
        <3>3. CASE g \in Circulating /\ \E j \in DOMAIN new : f = new[j]
            BY <2>2, <2>3, <3>3
        <3>4. QED
            BY <1>1, <3>1, <3>2, <3>3
    <2>6. Numbered(Circulating')
        BY <1>3, <2>5 DEF Numbered, Genuine
    <2>7. QED
        BY <1>3, <2>6 DEF CircInv
<1>5. CASE \A k \in DOMAIN new : new[k].rel # "ReliableOrd" /\ ~IsSplit(new[k])
    <2>1. Numbered(Circulating')
        <3> SUFFICES ASSUME NEW f \in Circulating', NEW g \in Circulating',
                            SamePacket(f, g) \/ SameTurn(f, g)
                     PROVE  f \in Circulating /\ g \in Circulating
            BY <1>3 DEF CircInv, Numbered, Genuine
        <3>1. QED
            BY <1>1, <1>5 DEF SamePacket, SameTurn, Ordered
    <2>2. QED
        BY <1>3, <2>1 DEF CircInv
<1>6. CASE \E m \in Message : Loose(new, m)
    <2>1. \A k \in DOMAIN new : new[k].rel # "ReliableOrd" /\ ~IsSplit(new[k])
        BY <1>6 DEF Loose, IsSplit
    <2>2. QED
        BY <1>5, <2>1
<1>7. CASE new = <<>>
    BY <1>5, <1>7
<1>8. QED
    BY <1>1, <1>4, <1>6, <1>7 DEF Makes


----------------------------------------------------------------------------
(* The invariant of the link. *)

LinkInv == LinkBooks /\ DeliveryInv /\ CircInv

LEMMA StepLink ==
    ASSUME LinkInv, Fits, [LinkNext]_linkVars
    PROVE  LinkInv' /\ Extends(Released, Released')
<1>1. LinkBooks /\ IInv /\ OnceInv /\ TurnInv /\ CircInv
    BY DEF LinkInv, DeliveryInv
<1>2. LinkBooks'
    BY <1>1, StepBooks
<1>3. [RecvNext]_recvVars
    BY <1>1, ReceiverSteps
<1>4. IInv' /\ OnceInv'
    BY <1>1, <1>3, StepInv, StepOnce
<1>5. Numbered(Seen)
    BY <1>1 DEF CircInv, Circulating, Numbered
<1>6. TurnInv' /\ Extends(Released, Released')
    BY <1>1, <1>3, <1>5, StepTurn
<1>7. CircInv'
    BY <1>1, StepCirc
<1>8. QED
    BY <1>2, <1>4, <1>6, <1>7 DEF LinkInv, DeliveryInv

LEMMA InitLink == LinkInit => LinkInv
<1> SUFFICES ASSUME LinkInit
             PROVE  LinkInv
    OBVIOUS
<1>1. LinkBooks
    BY InitBooks
<1>2. RecvInit /\ SendInit
    BY DEF LinkInit
<1>3. DeliveryInv
    BY <1>2, InitInv, InitOnce, InitTurn DEF DeliveryInv
<1>4. \A f : f \notin InHand
    BY <1>2 DEF SendInit, InHand, Held
<1>5. \A f : f \notin Seen
    <2> SUFFICES ASSUME NEW f \in Seen
                 PROVE  FALSE
        OBVIOUS
    <2>1. \/ \E k \in DOMAIN todo : f = todo[k]
          \/ \E id \in DOMAIN frags : f \in frags[id].parts
          \/ f \in Taken(order, Released)
        BY Zenon DEF Seen
    <2>2. DOMAIN todo = {} /\ DOMAIN frags = {}
        BY <1>2 DEF RecvInit
    <2>3. DOMAIN Released = {} /\ \A c \in Channel : DOMAIN order[c].held = {}
        BY <1>2 DEF RecvInit, Released
    <2>4. QED
        BY <2>1, <2>2, <2>3, TakenFrame
<1>6. CircInv
    BY <1>4, <1>5 DEF CircInv, Circulating, Numbered
<1>7. QED
    BY <1>1, <1>3, <1>6 DEF LinkInv

----------------------------------------------------------------------------
(* The link implements OrderedDelivery. *)

\* A whole payload of genuine frames carries the message of its place.
LEMMA PayloadMessage ==
    ASSUME NEW F, Numbered(F), NEW x \in Seq(Frame), x # <<>>, Whole(x),
           \A p \in DOMAIN x : x[p] \in F, NEW sub,
           \A p \in DOMAIN x :
               /\ x[p].body = <<x[p].body[1], IF IsSplit(x[p]) THEN Split(x[p]).index ELSE 0>>
               /\ IsSplit(x[p]) => Ordered(x[p])
               /\ Ordered(x[p]) => x[p].body[1] = sub[x[p].chan][x[p].oidx + 1]
    PROVE  MessageOf(x) = x[1].body[1]
<1>1. Len(x) \in Nat /\ DOMAIN x = 1 .. Len(x) /\ 1 \in DOMAIN x
    OBVIOUS
<1>2. \A p \in DOMAIN x : x[p].body = <<x[1].body[1], p - 1>>
    <2>1. CASE Len(x) = 1 /\ ~IsSplit(x[1])
        BY <1>1, <2>1
    <2>2. CASE /\ \A p \in DOMAIN x : /\ IsSplit(x[p])
                                      /\ Split(x[p]).id = Split(x[1]).id
                                      /\ Split(x[p]).size = Len(x)
               /\ \/ \E p \in DOMAIN x : Split(x[p]).index >= Len(x)
                  \/ \A p \in DOMAIN x : Split(x[p]).index = p - 1
        <3>0. \A p \in DOMAIN x : Split(x[p]).index = p - 1
            <4>1. \A p \in DOMAIN x : /\ Split(x[p]).index < Split(x[p]).size
                                      /\ x[p] \in Frame
                BY <2>2 DEF Numbered
            <4>2. \A p \in DOMAIN x : Split(x[p]).index \in Nat
                BY <2>2, <4>1, RecvAssumption DEF FrameOK
            <4>3. \A p \in DOMAIN x : ~(Split(x[p]).index >= Len(x))
                BY <1>1, <2>2, <4>1, <4>2
            <4>4. QED
                BY <2>2, <4>3
        <3> TAKE p \in DOMAIN x
        <3>1. IsSplit(x[p]) /\ IsSplit(x[1])
            BY <1>1, <2>2
        <3>2. Split(x[p]).id = Split(x[1]).id /\ Split(x[p]).index = p - 1
            BY <2>2, <3>0
        <3>3. SamePacket(x[p], x[1]) /\ Ordered(x[p]) /\ Ordered(x[1])
            BY <1>1, <3>1, <3>2 DEF SamePacket
        <3>4. x[p].chan = x[1].chan /\ x[p].oidx = x[1].oidx
            BY <1>1, <3>3, PartsAgree
        <3>5. x[p].body[1] = x[1].body[1]
            BY <1>1, <3>3, <3>4
        <3>6. x[p].body = <<x[p].body[1], p - 1>>
            BY <3>1, <3>2
        <3>7. QED
            BY <3>5, <3>6
    <2>3. QED
        BY <2>1, <2>2 DEF Whole
<1>3. QED
    BY <1>2 DEF MessageOf

LEMMA ReleasedMessage ==
    ASSUME LinkInv', NEW i \in DOMAIN Released', Ordered(Released'[i][1])
    PROVE  LET f == Released'[i][1]
           IN  /\ f.chan \in SendChannel
               /\ f.oidx + 1 \in 1 .. Len(submitted'[f.chan])
               /\ MessageOf(Released'[i]) = submitted'[f.chan][f.oidx + 1]
<1> DEFINE x == Released'[i]
<1>1. /\ IInv' /\ InTurn(order', Released')
      /\ Numbered(Circulating') /\ \A f \in Circulating' : Genuine(f)'
    BY DEF LinkInv, DeliveryInv, TurnInv, CircInv
<1>2. x \in Seq(Frame)
    <2>1. delivered' \in Seq(Seq(Frame)) /\ ready' \in Seq(Seq(Frame))
        BY <1>1 DEF IInv, TypeInv, FlowOK
    <2>2. Released' = delivered' \o ready'
        BY DEF Released
    <2> DEFINE S == Seq(Frame)
    <2> HIDE DEF S
    <2>3. Released' \in Seq(S)
        BY <2>1, <2>2, ConcatProperties DEF S
    <2>4. Released'[i] \in S
        BY <2>3
    <2>5. QED
        BY <2>4 DEF S
<1>3. x # <<>> /\ Whole(x)
    BY <1>1 DEF InTurn
<1>4. \A p \in DOMAIN x : x[p] \in Circulating'
    <2> TAKE p \in DOMAIN x
    <2>1. x[p] \in Taken(order', Released')
        BY TakenFrame
    <2>2. x[p] \in Seen'
        BY <2>1, Zenon DEF Seen
    <2>3. QED
        BY <2>2 DEF Circulating
<1>5. \A p \in DOMAIN x :
          /\ x[p].body = <<x[p].body[1], IF IsSplit(x[p]) THEN Split(x[p]).index ELSE 0>>
          /\ IsSplit(x[p]) => Ordered(x[p])
          /\ Ordered(x[p]) => /\ x[p].chan \in SendChannel
                              /\ x[p].oidx \in 0 .. Len(submitted'[x[p].chan]) - 1
                              /\ x[p].body[1] = submitted'[x[p].chan][x[p].oidx + 1]
    BY <1>1, <1>4 DEF Genuine
<1> HIDE DEF x
<1>6. 1 \in DOMAIN x
    BY <1>2, <1>3
<1>7. MessageOf(x) = x[1].body[1]
    BY <1>1, <1>2, <1>3, <1>4, <1>5, PayloadMessage
<1>8. Ordered(x[1])
    BY DEF x
<1>9. /\ x[1].chan \in SendChannel
      /\ x[1].oidx \in 0 .. Len(submitted'[x[1].chan]) - 1
      /\ x[1].body[1] = submitted'[x[1].chan][x[1].oidx + 1]
    BY <1>5, <1>6, <1>8
<1>10. Len(submitted'[x[1].chan]) \in Nat
    BY <1>9 DEF LinkInv, LinkBooks, SubmittedOK
<1>11. x[1].oidx + 1 \in 1 .. Len(submitted'[x[1].chan])
    BY <1>9, <1>10
<1>12. QED
    BY <1>7, <1>9, <1>11 DEF x


Mine(R, i, c) == Ordered(R[i][1]) /\ R[i][1].chan = c

OnChannel(R, c) ==
    [i \in {k \in DOMAIN R : Mine(R, k, c)} |->
        [at |-> R[i][1].oidx + 1, message |-> MessageOf(R[i])]]

LEMMA OnChannelValues ==
    ASSUME NEW R, NEW c
    PROVE  /\ \A i : i \in DOMAIN OnChannel(R, c) <=> i \in DOMAIN R /\ Mine(R, i, c)
           /\ \A i \in DOMAIN OnChannel(R, c) :
                  OnChannel(R, c)[i] = [at |-> R[i][1].oidx + 1, message |-> MessageOf(R[i])]
           /\ OnChannel(R, c) = [i \in DOMAIN OnChannel(R, c) |-> OnChannel(R, c)[i]]
<1> DEFINE S == {k \in DOMAIN R : Mine(R, k, c)}
           V(i) == [at |-> R[i][1].oidx + 1, message |-> MessageOf(R[i])]
           G == OnChannel(R, c)
<1>1. G = [i \in S |-> V(i)]
    BY Zenon DEF OnChannel
<1>2. \A i : i \in S <=> i \in DOMAIN R /\ Mine(R, i, c)
    OBVIOUS
<1> HIDE DEF S, V, G
<1>3. DOMAIN G = S /\ \A i \in S : G[i] = V(i)
    BY <1>1
<1>4. G = [i \in DOMAIN G |-> G[i]]
    BY <1>1
<1>5. \A i \in DOMAIN G : G[i] = [at |-> R[i][1].oidx + 1, message |-> MessageOf(R[i])]
    BY <1>3, Zenon DEF V
<1>6. QED
    BY <1>2, <1>3, <1>4, <1>5, Zenon DEF G

\* What a run of payloads, in their turns, adds to what was obtained: nothing,
\* or the next messages of one channel.
Gains(G, G2, sub, c) ==
    /\ G2 = [G EXCEPT ![c] = G2[c]]
    /\ DOMAIN G[c] \subseteq DOMAIN G2[c] /\ DOMAIN G[c] # DOMAIN G2[c]
    /\ \A i \in DOMAIN G[c] : G2[c][i] = G[c][i]
    /\ \A i \in DOMAIN G2[c] \ DOMAIN G[c] :
          \E at \in 1 .. Len(sub[c]) :
             /\ G2[c][i] = [at |-> at, message |-> sub[c][at]]
             /\ \A j \in DOMAIN G[c] : j < i
             /\ \A j \in DOMAIN G2[c] : j < i => G2[c][j].at < at

InPlace(x, sub) ==
    /\ x[1].chan \in SendChannel
    /\ x[1].oidx + 1 \in 1 .. Len(sub[x[1].chan])
    /\ x[1].oidx \in Int
    /\ MessageOf(x) = sub[x[1].chan][x[1].oidx + 1]

LEMMA ExtensionGains ==
    ASSUME NEW R, NEW R2, Extends(R, R2), NEW sub, NEW G, NEW G2,
           G = [c \in SendChannel |-> OnChannel(R, c)],
           G2 = [c \in SendChannel |-> OnChannel(R2, c)],
           \A i \in DOMAIN R2 : Ordered(R2[i][1]) => InPlace(R2[i], sub),
           \A i, j \in DOMAIN R2 :
               i < j /\ Ordered(R2[i][1]) /\ Ordered(R2[j][1]) /\ R2[i][1].chan = R2[j][1].chan
                   => R2[i][1].oidx < R2[j][1].oidx
    PROVE  G2 = G \/ \E c \in SendChannel : Gains(G, G2, sub, c)
<1> DEFINE fresh == DOMAIN R2 \ DOMAIN R
<1>1. /\ DOMAIN R \subseteq DOMAIN R2
      /\ \A i \in DOMAIN R : R2[i] = R[i]
      /\ \A i \in fresh : \A j \in DOMAIN R : j < i
    BY DEF Extends
<1>2. PICK c : \A i \in fresh : Ordered(R2[i][1]) => R2[i][1].chan = c
    BY DEF Extends
<1>3. \A d : \A i \in DOMAIN R : Mine(R2, i, d) <=> Mine(R, i, d)
    BY <1>1 DEF Mine
<1>4. ASSUME NEW d \in SendChannel
      PROVE  /\ G[d] = OnChannel(R, d) /\ G2[d] = OnChannel(R2, d)
             /\ \A i : i \in DOMAIN G[d] <=> i \in DOMAIN R /\ Mine(R, i, d)
             /\ \A i : i \in DOMAIN G2[d] <=> i \in DOMAIN R2 /\ Mine(R2, i, d)
             /\ \A i \in DOMAIN G[d] : G[d][i] = [at |-> R[i][1].oidx + 1, message |-> MessageOf(R[i])]
             /\ \A i \in DOMAIN G2[d] : G2[d][i] = [at |-> R2[i][1].oidx + 1, message |-> MessageOf(R2[i])]
             /\ G[d] = [i \in DOMAIN G[d] |-> G[d][i]]
             /\ G2[d] = [i \in DOMAIN G2[d] |-> G2[d][i]]
    <2>1. G[d] = OnChannel(R, d) /\ G2[d] = OnChannel(R2, d)
        OBVIOUS
    <2>2. /\ \A i : i \in DOMAIN OnChannel(R, d) <=> i \in DOMAIN R /\ Mine(R, i, d)
          /\ \A i \in DOMAIN OnChannel(R, d) :
                 OnChannel(R, d)[i] = [at |-> R[i][1].oidx + 1, message |-> MessageOf(R[i])]
          /\ OnChannel(R, d) = [i \in DOMAIN OnChannel(R, d) |-> OnChannel(R, d)[i]]
        BY OnChannelValues, Zenon
    <2>3. /\ \A i : i \in DOMAIN OnChannel(R2, d) <=> i \in DOMAIN R2 /\ Mine(R2, i, d)
          /\ \A i \in DOMAIN OnChannel(R2, d) :
                 OnChannel(R2, d)[i] = [at |-> R2[i][1].oidx + 1, message |-> MessageOf(R2[i])]
          /\ OnChannel(R2, d) = [i \in DOMAIN OnChannel(R2, d) |-> OnChannel(R2, d)[i]]
        BY OnChannelValues, Zenon
    <2>4. QED
        BY <2>1, <2>2, <2>3, Zenon
<1> HIDE DEF fresh
<1>5. ASSUME NEW d \in SendChannel
      PROVE  /\ DOMAIN G[d] \subseteq DOMAIN G2[d]
             /\ \A i \in DOMAIN G[d] : G2[d][i] = G[d][i]
             /\ \A i \in DOMAIN G2[d] \ DOMAIN G[d] : i \in fresh
    <2>1. \A i : i \in DOMAIN G[d] <=> i \in DOMAIN R /\ Mine(R, i, d)
        BY <1>4
    <2>2. \A i : i \in DOMAIN G2[d] <=> i \in DOMAIN R2 /\ Mine(R2, i, d)
        BY <1>4
    <2>3. DOMAIN G[d] \subseteq DOMAIN G2[d] /\ \A i \in DOMAIN G2[d] \ DOMAIN G[d] : i \in fresh
        BY <1>1, <1>3, <2>1, <2>2 DEF fresh
    <2>4. ASSUME NEW i \in DOMAIN G[d]
          PROVE  G2[d][i] = G[d][i]
        <3>1. R2[i] = R[i] /\ i \in DOMAIN G2[d]
            BY <1>1, <2>1, <2>3
        <3>2. G[d][i] = [at |-> R[i][1].oidx + 1, message |-> MessageOf(R[i])]
            BY <1>4
        <3>3. G2[d][i] = [at |-> R2[i][1].oidx + 1, message |-> MessageOf(R2[i])]
            BY <1>4, <3>1
        <3>4. QED
            BY <3>1, <3>2, <3>3, Zenon
    <2>5. QED
        BY <2>3, <2>4
<1>6. ASSUME NEW d \in SendChannel, DOMAIN G2[d] = DOMAIN G[d]
      PROVE  G2[d] = G[d]
    <2>1. \A i \in DOMAIN G[d] : G2[d][i] = G[d][i]
        BY <1>5
    <2>2. G[d] = [i \in DOMAIN G[d] |-> G[d][i]] /\ G2[d] = [i \in DOMAIN G2[d] |-> G2[d][i]]
        BY <1>4
    <2>3. [i \in DOMAIN G2[d] |-> G2[d][i]] = [i \in DOMAIN G[d] |-> G[d][i]]
        BY <1>6, <2>1
    <2>4. QED
        BY <2>2, <2>3, Zenon
<1>7. ASSUME NEW d \in SendChannel, d # c
      PROVE  G2[d] = G[d]
    <2>1. \A i \in DOMAIN G2[d] : i \notin fresh
        <3> TAKE i \in DOMAIN G2[d]
        <3>1. Mine(R2, i, d)
            BY <1>4
        <3>2. QED
            BY <1>2, <1>7, <3>1 DEF Mine
    <2>2. DOMAIN G2[d] = DOMAIN G[d]
        BY <1>5, <2>1
    <2>3. QED
        BY <1>6, <2>2
<1>8. G = [d \in SendChannel |-> G[d]] /\ G2 = [d \in SendChannel |-> G2[d]]
    OBVIOUS
<1>9. CASE c \notin SendChannel \/ DOMAIN G2[c] = DOMAIN G[c]
    <2>1. \A d \in SendChannel : G2[d] = G[d]
        BY <1>6, <1>7, <1>9
    <2>2. QED
        BY <1>8, <2>1
<1>10. CASE c \in SendChannel /\ DOMAIN G2[c] # DOMAIN G[c]
    <2>1. G2 = [G EXCEPT ![c] = G2[c]]
        <3> DEFINE gc == G2[c]
        <3>1. \A d \in SendChannel : G2[d] = IF d = c THEN gc ELSE G[d]
            BY <1>7
        <3> HIDE DEF gc
        <3>2. G2 = [G EXCEPT ![c] = gc]
            BY <1>8, <1>10, <3>1
        <3>3. QED
            BY <3>2 DEF gc
    <2>2. ASSUME NEW i \in DOMAIN G2[c] \ DOMAIN G[c]
          PROVE  \E at \in 1 .. Len(sub[c]) :
                     /\ G2[c][i] = [at |-> at, message |-> sub[c][at]]
                     /\ \A j \in DOMAIN G[c] : j < i
                     /\ \A j \in DOMAIN G2[c] : j < i => G2[c][j].at < at
        <3> DEFINE f == R2[i][1]
        <3>1. i \in DOMAIN R2 /\ Ordered(f) /\ f.chan = c
            BY <1>4, <1>10 DEF Mine
        <3>2. /\ f.oidx + 1 \in 1 .. Len(sub[c]) /\ f.oidx \in Int
              /\ MessageOf(R2[i]) = sub[c][f.oidx + 1]
            BY <3>1 DEF InPlace
        <3>3. G2[c][i] = [at |-> f.oidx + 1, message |-> sub[c][f.oidx + 1]]
            <4>1. G2[c][i] = [at |-> f.oidx + 1, message |-> MessageOf(R2[i])]
                BY <1>4, <1>10
            <4>2. QED
                BY <3>2, <4>1, Zenon
        <3>4. \A j \in DOMAIN G[c] : j < i
            <4>1. i \in fresh /\ \A j \in DOMAIN G[c] : j \in DOMAIN R
                BY <1>4, <1>5, <1>10
            <4>2. QED
                BY <1>1, <4>1
        <3>5. ASSUME NEW j \in DOMAIN G2[c], j < i
              PROVE  G2[c][j].at < f.oidx + 1
            <4> DEFINE g == R2[j][1]
            <4>1. j \in DOMAIN R2 /\ Ordered(g) /\ g.chan = c
                BY <1>4, <1>10 DEF Mine
            <4>2. G2[c][j] = [at |-> g.oidx + 1, message |-> MessageOf(R2[j])]
                BY <1>4, <1>10
            <4>3. g.oidx < f.oidx
                BY <3>1, <3>5, <4>1
            <4>4. g.oidx \in Int
                BY <4>1 DEF InPlace
            <4> HIDE DEF f, g
            <4>5. G2[c][j].at = g.oidx + 1
                BY <4>2
            <4>6. QED
                BY <3>2, <4>3, <4>4, <4>5
        <3> HIDE DEF f
        <3>6. QED
            BY <3>2, <3>3, <3>4, <3>5
    <2>3. Gains(G, G2, sub, c)
        BY <1>5, <1>10, <2>1, <2>2 DEF Gains
    <2>4. QED
        BY <1>10, <2>3
<1>11. QED
    BY <1>9, <1>10

LEMMA GotOn ==
    /\ Got = [c \in SendChannel |-> OnChannel(Released, c)]
    /\ Got' = [c \in SendChannel |-> OnChannel(Released', c)]
<1>1. Got = [c \in SendChannel |-> OnChannel(Released, c)]
    BY Zenon DEF Got, Obtained, OnChannel, Mine
<1>2. Got' = [c \in SendChannel |-> OnChannel(Released', c)]
    BY Zenon DEF Got, Obtained, OnChannel, Mine
<1>3. QED
    BY <1>1, <1>2

\* What one side gains on a channel is obtained there, in its turn; nothing
\* changes on the others.
LEMMA GotMoves ==
    ASSUME LinkInv, LinkInv', Extends(Released, Released'), UNCHANGED submitted
    PROVE  UNCHANGED Got \/ \E c \in SendChannel : Delivery!Obtain(c)
<1>1. ASSUME NEW i \in DOMAIN Released', Ordered(Released'[i][1])
      PROVE  InPlace(Released'[i], submitted)
    <2>1. LET f == Released'[i][1]
          IN  /\ f.chan \in SendChannel
              /\ f.oidx + 1 \in 1 .. Len(submitted'[f.chan])
              /\ MessageOf(Released'[i]) = submitted'[f.chan][f.oidx + 1]
        BY <1>1, ReleasedMessage
    <2>2. Released'[i][1].oidx \in Nat
        BY <1>1 DEF LinkInv, DeliveryInv, TurnInv, InTurn, Passed
    <2>3. QED
        BY <2>1, <2>2 DEF InPlace
<1>2. \A i, j \in DOMAIN Released' :
          /\ i < j /\ Ordered(Released'[i][1]) /\ Ordered(Released'[j][1])
          /\ Released'[i][1].chan = Released'[j][1].chan
          => Released'[i][1].oidx < Released'[j][1].oidx
    BY DEF LinkInv, DeliveryInv, TurnInv, InTurn
<1> DEFINE G == Got
           G2 == Got'
           R == Released
           R2 == Released'
<1>3. /\ G = [c \in SendChannel |-> OnChannel(R, c)]
      /\ G2 = [c \in SendChannel |-> OnChannel(R2, c)]
    BY GotOn
<1>4. /\ Extends(R, R2)
      /\ \A i \in DOMAIN R2 : Ordered(R2[i][1]) => InPlace(R2[i], submitted)
      /\ \A i, j \in DOMAIN R2 :
             i < j /\ Ordered(R2[i][1]) /\ Ordered(R2[j][1]) /\ R2[i][1].chan = R2[j][1].chan
                 => R2[i][1].oidx < R2[j][1].oidx
    BY <1>1, <1>2
<1> HIDE DEF G, G2, R, R2
<1>5. G2 = G \/ \E c \in SendChannel : Gains(G, G2, submitted, c)
    BY <1>3, <1>4, ExtensionGains
<1>6. CASE G2 = G
    BY <1>6 DEF G, G2
<1>7. CASE \E c \in SendChannel : Gains(G, G2, submitted, c)
    <2>1. PICK c \in SendChannel : Gains(G, G2, submitted, c)
        BY <1>7
    <2>2. Gains(Got, Got', submitted, c)
        BY <2>1 DEF G, G2
    <2>3. Delivery!Obtain(c)
        BY <2>2, Zenon DEF Delivery!Obtain, Gains
    <2>4. QED
        BY <2>3
<1>8. QED
    BY <1>5, <1>6, <1>7

LEMMA LinkStepMaps ==
    ASSUME LinkInv, LinkInv', Extends(Released, Released'), [LinkNext]_linkVars
    PROVE  [Delivery!Next]_<<submitted, Got>>
<1>1. CASE UNCHANGED submitted
    <2>1. CASE UNCHANGED Got
        BY <1>1, <2>1
    <2>2. CASE \E c \in SendChannel : Delivery!Obtain(c)
        BY <2>2 DEF Delivery!Next
    <2>3. QED
        BY <1>1, <2>1, <2>2, GotMoves
<1>2. CASE \E m \in Message, c \in SendChannel, now \in BOOLEAN : SendOrdered(m, c, now)
    <2>1. PICK m \in Message, c \in SendChannel, now \in BOOLEAN : SendOrdered(m, c, now)
        BY <1>2
    <2>2. submitted' = [submitted EXCEPT ![c] = Append(@, m)] /\ UNCHANGED recvVars
        BY <2>1 DEF SendOrdered
    <2>3. UNCHANGED Released
        BY <2>2 DEF Released, recvVars
    <2>4. UNCHANGED Got
        BY <2>3 DEF Got, Obtained
    <2>5. Delivery!Put(c, m)
        BY <2>2, <2>4 DEF Delivery!Put
    <2>6. QED
        BY <2>5 DEF Delivery!Next
<1>3. QED
    BY <1>1, <1>2 DEF LinkNext, linkVars, SendPlain, SenderTick, ReceiveControl, ReceiveDatagram,
       HandleDatagram, ReceiverTick, ReceiverExpires, ReceiverRequests, Second, Lose

LEMMA LinkInitMaps == LinkInit => Delivery!Init
<1> SUFFICES ASSUME LinkInit
             PROVE  Delivery!Init
    OBVIOUS
<1>1. DOMAIN Released = {} /\ submitted = [c \in SendChannel |-> <<>>]
    BY DEF LinkInit, RecvInit, Released
<1>2. \A c \in SendChannel : Got[c] = <<>>
    <2> TAKE c \in SendChannel
    <2>1. Got[c] = OnChannel(Released, c)
        BY GotOn
    <2>2. DOMAIN OnChannel(Released, c) = {}
        BY <1>1 DEF OnChannel
    <2>3. OnChannel(Released, c) = [i \in DOMAIN OnChannel(Released, c) |-> OnChannel(Released, c)[i]]
        BY OnChannelValues, Zenon
    <2>4. <<>> = [i \in {} |-> OnChannel(Released, c)[i]]
        OBVIOUS
    <2>5. QED
        BY <2>1, <2>2, <2>3, <2>4, Zenon
<1>3. Got = [c \in SendChannel |-> Got[c]]
    BY DEF Got
<1>4. Got = [c \in SendChannel |-> <<>>]
    BY <1>2, <1>3
<1>5. QED
    BY <1>1, <1>4 DEF Delivery!Init

\* As long as what the sender puts on the wire is what the receive queue is
\* specified for, the link implements ordered delivery on each channel.
THEOREM LinkDeliversWhatFits == LinkSpec /\ []Fits => ImplementsDelivery
<1>1. LinkInit => LinkInv /\ Delivery!Init
    BY InitLink, LinkInitMaps
<1>2. LinkInv /\ Fits /\ [LinkNext]_linkVars => LinkInv'
    BY StepLink
<1>3. LinkInv /\ LinkInv' /\ Fits /\ [LinkNext]_linkVars => [Delivery!Next]_<<submitted, Got>>
    BY StepLink, LinkStepMaps
<1>4. QED
    BY <1>1, <1>2, <1>3, PTL DEF LinkSpec, ImplementsDelivery, Delivery!Spec

\* Every datagram the send queue can make: one frame each, numbered from 0.
SenderDatagram == [seq : Nat, frames : {<<f>> : f \in SenderFrame}]

\* All its frames are frames the receive queue may be specified for, so that
\* the hypothesis of the theorem below can be met.
LEMMA SenderFrameOK == \A f \in SenderFrame : FrameOK(f)
<1> TAKE f \in SenderFrame
<1> DEFINE B == Message \X Nat
           P == {q \in [id : Nat, size : Nat, index : Nat] : q.index < q.size}
           V == {<<>>} \cup {<<p>> : p \in P}
           one == [rel : {"Unreliable"}, split : {<<>>}, body : B]
           two == [rel : {"Reliable"}, ridx : Nat, split : {<<>>}, body : B]
           three == [rel : {"ReliableOrd"}, ridx : Nat, chan : SendChannel, oidx : Nat,
                     split : V, body : B]
<1>1. f \in one \/ f \in two \/ f \in three
    BY DEF SenderFrame
<1> HIDE DEF B
<1>2. ASSUME f \in one
      PROVE  FrameOK(f)
    BY <1>2 DEF FrameOK, Reliable, Indexed, IsSplit
<1>3. ASSUME f \in two
      PROVE  FrameOK(f)
    BY <1>3 DEF FrameOK, Reliable, Indexed, IsSplit
<1>4. ASSUME f \in three
      PROVE  FrameOK(f)
    <2> HIDE DEF V
    <2>1. f.rel = "ReliableOrd" /\ f.ridx \in Nat /\ f.oidx \in Nat /\ f.split \in V
        BY <1>4
    <2>2. ASSUME IsSplit(f)
          PROVE  Split(f) \in P
        <3>1. f.split # <<>>
            BY <2>2 DEF IsSplit
        <3>2. \E p \in P : f.split = <<p>>
            BY <2>1, <3>1 DEF V
        <3>3. QED
            BY <3>2 DEF Split
    <2>3. \A p \in P : /\ p = [id |-> p.id, size |-> p.size, index |-> p.index]
                       /\ p.size \in Nat /\ p.index \in Nat /\ p.index < p.size
        OBVIOUS
    <2> HIDE DEF P
    <2>4. QED
        BY <2>1, <2>2, <2>3 DEF FrameOK
<1>5. QED
    BY <1>1, <1>2, <1>3, <1>4

LEMMA BooksFit ==
    ASSUME SenderDatagram \subseteq Datagram, LinkBooks
    PROVE  Fits
<1> DEFINE F == {<<f>> : f \in SenderFrame}
<1>1. wire \subseteq [seq : 0 .. sendSeq - 1, frames : F] /\ sendSeq \in Nat
    BY DEF LinkBooks, SendInv, TracksOK, SentBelow, CountersOK
<1>2. SenderDatagram = [seq : Nat, frames : F]
    BY DEF SenderDatagram
<1> HIDE DEF F
<1>3. wire \subseteq SenderDatagram
    BY <1>1, <1>2
<1>4. QED
    BY <1>3 DEF Fits

\* When the receive queue is specified for every datagram the send queue can
\* make, the link, with its losses, duplicates, resends, splits and stale
\* packets, implements ordered delivery on each of its channels.
THEOREM LinkDelivers ==
    ASSUME SenderDatagram \subseteq Datagram
    PROVE  LinkSpec => ImplementsDelivery
<1>1. LinkBooks => Fits
    BY BooksFit
<1>2. QED
    BY <1>1, BooksInvariance, LinkDeliversWhatFits, PTL
=============================================================================
