---------------------------- MODULE ClientProofs ----------------------------
(***************************************************************************)
(* Proofs about the client: PeerLocks and ClientLifecycle.                 *)
(*                                                                         *)
(* The tasks of a client never wait for one another in a circle, and who   *)
(* waits for the application holds no lock, however many tasks call the    *)
(* client at once.  The reason is an order: a lock is taken only while     *)
(* those held come before it, state before send before recv.  Every pass   *)
(* of the client keeps to it, which is seen by writing beside each step    *)
(* what is held there; the invariant says that what a task has left of its *)
(* pass keeps to it from the locks the task really holds.                  *)
(*                                                                         *)
(* Of the life of a client: its types, and that a timeout is final.        *)
(***************************************************************************)
EXTENDS PeerLocks, ClientLifecycle, SequenceTheorems, TLAPS

LockStep == {take(l) : l \in Lock} \cup {give(l) : l \in Lock} \cup {put, get}

\* What may be held by who takes a lock.
Before(lock) ==
    CASE lock = "state" -> {}
      [] lock = "send"  -> {"state"}
      [] lock = "recv"  -> {"state", "send"}

Lawful(step, held) ==
    /\ step.op = "take" => held \subseteq Before(step.on)
    /\ step.op = "give" => step.on \in held
    /\ step.op = "put"  => held = {}

After(step, held) ==
    CASE step.op = "take" -> held \cup {step.on}
      [] step.op = "give" -> held \ {step.on}
      [] OTHER -> held

\* held[k] is what is held before the step k of the pass; nothing is at its end.
Noted(pass, held) ==
    /\ held[Len(pass) + 1] = {}
    /\ \A k \in 1 .. Len(pass) : /\ Lawful(pass[k], held[k])
                                 /\ held[k + 1] = After(pass[k], held[k])

\* The pass keeps to the order when it starts with these locks.
Orderly(pass, locks) == \E held : held[1] = locks /\ Noted(pass, held)

\* The passes of a client, whoever runs them.
ClientPass == ClientTick \cup ClientRecv \cup ClientCalls \cup ClientReader

LockInv ==
    /\ todo \in [Task -> Seq(LockStep)]
    /\ holder \in [Lock -> SUBSET Task]
    /\ \A l \in Lock : \A t, u \in holder[l] : t = u
    /\ \A t \in Task : Orderly(todo[t], Holding(t))

-----------------------------------------------------------------------------
(* Passes. *)

LEMMA StepShapes ==
    \A s \in LockStep : /\ s.op \in {"take", "give", "put", "get"}
                        /\ s.op \in {"take", "give"} => s.on \in Lock
BY DEF LockStep, take, give, put, get

\* What is left after a step keeps to the order from what is held then.
LEMMA TailOrderly ==
    ASSUME NEW pass \in Seq(LockStep), pass # <<>>, NEW locks, Orderly(pass, locks)
    PROVE  /\ Lawful(Head(pass), locks)
           /\ Orderly(Tail(pass), After(Head(pass), locks))
<1> DEFINE S == LockStep
           n == Len(pass)
<1>1. PICK held : held[1] = locks /\ Noted(pass, held)
    BY DEF Orderly
<1> HIDE DEF S
<1>2. /\ n \in Nat /\ n >= 1 /\ Head(pass) = pass[1]
      /\ Len(Tail(pass)) = n - 1
      /\ \A k \in 1 .. n - 1 : Tail(pass)[k] = pass[k + 1]
    BY DEF S
<1>3. /\ held[n + 1] = {}
      /\ \A k \in 1 .. n : Lawful(pass[k], held[k]) /\ held[k + 1] = After(pass[k], held[k])
    BY <1>1 DEF Noted
<1>4. Lawful(Head(pass), locks)
    BY <1>1, <1>2, <1>3
<1> DEFINE rest == [k \in 1 .. n |-> held[k + 1]]
<1>5. rest[1] = After(Head(pass), locks)
    BY <1>1, <1>2, <1>3
<1>6. Noted(Tail(pass), rest)
    <2>1. rest[Len(Tail(pass)) + 1] = {}
        BY <1>2, <1>3
    <2>2. ASSUME NEW k \in 1 .. Len(Tail(pass))
          PROVE  /\ Lawful(Tail(pass)[k], rest[k])
                 /\ rest[k + 1] = After(Tail(pass)[k], rest[k])
        <3>1. k \in 1 .. n - 1 /\ k + 1 \in 1 .. n /\ k \in 1 .. n
            BY <1>2
        <3>2. Tail(pass)[k] = pass[k + 1] /\ rest[k] = held[k + 1] /\ rest[k + 1] = held[k + 1 + 1]
            BY <1>2, <3>1
        <3>3. QED
            BY <1>3, <3>1, <3>2
    <2>3. QED
        BY <2>1, <2>2 DEF Noted
<1>7. QED
    BY <1>4, <1>5, <1>6 DEF Orderly

\* One pass after the other.
LEMMA BothOrderly ==
    ASSUME NEW p \in Seq(LockStep), NEW q \in Seq(LockStep), Orderly(p, {}), Orderly(q, {})
    PROVE  p \o q \in Seq(LockStep) /\ Orderly(p \o q, {})
<1> DEFINE S == LockStep
           m == Len(p)
           n == Len(q)
<1>1. PICK a : a[1] = {} /\ Noted(p, a)
    BY DEF Orderly
<1>2. PICK b : b[1] = {} /\ Noted(q, b)
    BY DEF Orderly
<1> HIDE DEF S
<1>3. /\ m \in Nat /\ n \in Nat /\ Len(p \o q) = m + n /\ p \o q \in Seq(S)
      /\ \A k \in 1 .. m + n : (p \o q)[k] = IF k <= m THEN p[k] ELSE q[k - m]
    BY DEF S
<1> DEFINE c == [k \in 1 .. m + n + 1 |-> IF k <= m THEN a[k] ELSE b[k - m]]
<1>4. /\ a[m + 1] = {} /\ b[n + 1] = {}
      /\ \A k \in 1 .. m : Lawful(p[k], a[k]) /\ a[k + 1] = After(p[k], a[k])
      /\ \A k \in 1 .. n : Lawful(q[k], b[k]) /\ b[k + 1] = After(q[k], b[k])
    BY <1>1, <1>2 DEF Noted
<1>5. ASSUME NEW k \in 1 .. m + 1
      PROVE  c[k] = a[k]
    <2>1. CASE k <= m
        BY <1>3, <2>1
    <2>2. CASE k = m + 1
        <3>1. k \in 1 .. m + n + 1 /\ ~(k <= m) /\ k - m = 1
            BY <1>3, <2>2
        <3>2. c[k] = b[k - m]
            BY <3>1
        <3>3. QED
            BY <1>2, <1>4, <2>2, <3>1, <3>2
    <2>3. QED
        BY <1>3, <2>1, <2>2
<1>6. ASSUME NEW k \in 1 .. n + 1
      PROVE  c[m + k] = b[k]
    <2>1. m + k \in 1 .. m + n + 1 /\ ~(m + k <= m) /\ (m + k) - m = k
        BY <1>3
    <2>2. c[m + k] = b[(m + k) - m]
        BY <2>1
    <2>3. QED
        BY <2>1, <2>2
<1> HIDE DEF c
<1>7. c[1] = {}
    BY <1>1, <1>3, <1>5
<1>8. c[m + n + 1] = {}
    <2>1. m + n + 1 = m + (n + 1) /\ n + 1 \in 1 .. n + 1
        BY <1>3
    <2>2. QED
        BY <1>4, <1>6, <2>1
<1>9. ASSUME NEW k \in 1 .. m + n
      PROVE  Lawful((p \o q)[k], c[k]) /\ c[k + 1] = After((p \o q)[k], c[k])
    <2>1. CASE k <= m
        <3>1. (p \o q)[k] = p[k] /\ k \in 1 .. m
            BY <1>3, <2>1
        <3>2. c[k] = a[k] /\ c[k + 1] = a[k + 1]
            BY <1>3, <1>5, <3>1
        <3>3. QED
            BY <1>4, <3>1, <3>2
    <2>2. CASE ~(k <= m)
        <3> DEFINE j == k - m
        <3>1. (p \o q)[k] = q[j] /\ j \in 1 .. n /\ k = m + j /\ k + 1 = m + (j + 1)
              /\ j + 1 \in 1 .. n + 1 /\ j \in 1 .. n + 1
            BY <1>3, <2>2
        <3> HIDE DEF j
        <3>2. c[k] = b[j] /\ c[k + 1] = b[j + 1]
            BY <1>6, <3>1
        <3>3. QED
            BY <1>4, <3>1, <3>2
    <2>3. QED
        BY <2>1, <2>2
<1>10. Noted(p \o q, c)
    BY <1>3, <1>8, <1>9 DEF Noted
<1>11. QED
    BY <1>3, <1>7, <1>10 DEF Orderly, S

\* The pieces the passes are made of.
LEMMA PieceOrderly ==
    /\ \A l \in Lock : /\ <<take(l), give(l)>> \in Seq(LockStep)
                       /\ Orderly(<<take(l), give(l)>>, {})
    /\ <<put>> \in Seq(LockStep) /\ Orderly(<<put>>, {})
    /\ <<get>> \in Seq(LockStep) /\ Orderly(<<get>>, {})
<1>1. ASSUME NEW l \in Lock
      PROVE  <<take(l), give(l)>> \in Seq(LockStep) /\ Orderly(<<take(l), give(l)>>, {})
    <2> DEFINE p == <<take(l), give(l)>>
               h == <<{}, {l}, {}>>
    <2>1. take(l) \in LockStep /\ give(l) \in LockStep
        BY DEF LockStep
    <2>2. Lawful(take(l), {}) /\ {l} = After(take(l), {})
        BY DEF Lawful, After, take
    <2>3. Lawful(give(l), {l}) /\ {} = After(give(l), {l})
        BY DEF Lawful, After, give
    <2>4. Noted(p, h)
        BY <2>2, <2>3 DEF Noted
    <2>5. QED
        BY <2>1, <2>4 DEF Orderly
<1>2. <<put>> \in Seq(LockStep) /\ Orderly(<<put>>, {})
    <2>1. put \in LockStep /\ Lawful(put, {}) /\ After(put, {}) = {}
        BY DEF LockStep, Lawful, After, put
    <2>2. Noted(<<put>>, <<{}, {}>>)
        BY <2>1 DEF Noted
    <2>3. QED
        BY <2>1, <2>2 DEF Orderly
<1>3. <<get>> \in Seq(LockStep) /\ Orderly(<<get>>, {})
    <2>1. get \in LockStep /\ Lawful(get, {}) /\ After(get, {}) = {}
        BY DEF LockStep, Lawful, After, get
    <2>2. Noted(<<get>>, <<{}, {}>>)
        BY <2>1 DEF Noted
    <2>3. QED
        BY <2>1, <2>2 DEF Orderly
<1>4. QED
    BY <1>1, <1>2, <1>3

\* The tick of the client takes all three locks, one inside the other.
LEMMA TickOrderly == \A p \in ClientTick : p \in Seq(LockStep) /\ Orderly(p, {})
<1>1. /\ take("state") \in LockStep /\ take("send") \in LockStep /\ take("recv") \in LockStep
      /\ give("state") \in LockStep /\ give("send") \in LockStep /\ give("recv") \in LockStep
    BY DEF LockStep, Lock
<1> DEFINE no == {}
           one == {"state"}
           two == {"state", "send"}
           three == {"state", "recv"}
<1>2. /\ Lawful(take("state"), no) /\ one = After(take("state"), no)
      /\ Lawful(take("send"), one) /\ two = After(take("send"), one)
      /\ Lawful(give("send"), two) /\ one = After(give("send"), two)
      /\ Lawful(take("recv"), one) /\ three = After(take("recv"), one)
      /\ Lawful(give("recv"), three) /\ one = After(give("recv"), three)
      /\ Lawful(give("state"), one) /\ no = After(give("state"), one)
    BY DEF Lawful, After, Before, take, give
<1>3. no = {}
    OBVIOUS
<1> HIDE DEF no, one, two, three
<1>4. LET p == <<take("state"), give("state")>>
      IN  p \in Seq(LockStep) /\ Orderly(p, {})
    BY PieceOrderly DEF Lock
<1>5. LET p == <<take("state"), take("send"), give("send"), take("recv"), give("recv"),
                 give("state")>>
      IN  p \in Seq(LockStep) /\ Orderly(p, {})
    <2> DEFINE p == <<take("state"), take("send"), give("send"), take("recv"), give("recv"),
                      give("state")>>
               h == <<no, one, two, one, three, one, no>>
    <2>1. Noted(p, h)
        <3>1. Len(p) = 6 /\ h[7] = {}
            BY <1>2, <1>3
        <3>2. Lawful(p[1], h[1]) /\ h[1 + 1] = After(p[1], h[1])
            BY <1>2, <1>3
        <3>3. Lawful(p[2], h[2]) /\ h[2 + 1] = After(p[2], h[2])
            BY <1>2, <1>3
        <3>4. Lawful(p[3], h[3]) /\ h[3 + 1] = After(p[3], h[3])
            BY <1>2, <1>3
        <3>5. Lawful(p[4], h[4]) /\ h[4 + 1] = After(p[4], h[4])
            BY <1>2, <1>3
        <3>6. Lawful(p[5], h[5]) /\ h[5 + 1] = After(p[5], h[5])
            BY <1>2, <1>3
        <3>7. Lawful(p[6], h[6]) /\ h[6 + 1] = After(p[6], h[6])
            BY <1>2, <1>3
        <3> HIDE DEF p, h
        <3>8. \A k \in 1 .. 6 : k \in {1, 2, 3, 4, 5, 6}
            OBVIOUS
        <3>9. \A k \in 1 .. 6 : Lawful(p[k], h[k]) /\ h[k + 1] = After(p[k], h[k])
            BY <3>2, <3>3, <3>4, <3>5, <3>6, <3>7, <3>8
        <3>10. QED
            BY <3>1, <3>9 DEF Noted
    <2>2. h[1] = {}
        BY <1>3
    <2>3. QED
        BY <1>1, <2>1, <2>2 DEF Orderly
<1>6. LET p == <<take("state"), take("send"), give("send"), take("recv"), give("recv"),
                 take("send"), give("send"), give("state")>>
      IN  p \in Seq(LockStep) /\ Orderly(p, {})
    <2> DEFINE p == <<take("state"), take("send"), give("send"), take("recv"), give("recv"),
                      take("send"), give("send"), give("state")>>
               h == <<no, one, two, one, three, one, two, one, no>>
    <2>1. Noted(p, h)
        <3>1. Len(p) = 8 /\ h[9] = {}
            BY <1>2, <1>3
        <3>2. Lawful(p[1], h[1]) /\ h[1 + 1] = After(p[1], h[1])
            BY <1>2, <1>3
        <3>3. Lawful(p[2], h[2]) /\ h[2 + 1] = After(p[2], h[2])
            BY <1>2, <1>3
        <3>4. Lawful(p[3], h[3]) /\ h[3 + 1] = After(p[3], h[3])
            BY <1>2, <1>3
        <3>5. Lawful(p[4], h[4]) /\ h[4 + 1] = After(p[4], h[4])
            BY <1>2, <1>3
        <3>6. Lawful(p[5], h[5]) /\ h[5 + 1] = After(p[5], h[5])
            BY <1>2, <1>3
        <3>7. Lawful(p[6], h[6]) /\ h[6 + 1] = After(p[6], h[6])
            BY <1>2, <1>3
        <3>8. Lawful(p[7], h[7]) /\ h[7 + 1] = After(p[7], h[7])
            BY <1>2, <1>3
        <3>9. Lawful(p[8], h[8]) /\ h[8 + 1] = After(p[8], h[8])
            BY <1>2, <1>3
        <3> HIDE DEF p, h
        <3>10. \A k \in 1 .. 8 : k \in {1, 2, 3, 4, 5, 6, 7, 8}
            OBVIOUS
        <3>11. \A k \in 1 .. 8 : Lawful(p[k], h[k]) /\ h[k + 1] = After(p[k], h[k])
            BY <3>2, <3>3, <3>4, <3>5, <3>6, <3>7, <3>8, <3>9, <3>10
        <3>12. QED
            BY <3>1, <3>11 DEF Noted
    <2>2. h[1] = {}
        BY <1>3
    <2>3. QED
        BY <1>1, <2>1, <2>2 DEF Orderly
<1>7. QED
    BY <1>4, <1>5, <1>6 DEF ClientTick

LEMMA RecvOrderly == \A p \in ClientRecv : p \in Seq(LockStep) /\ Orderly(p, {})
<1> DEFINE Good(p) == p \in Seq(LockStep) /\ Orderly(p, {})
           woken == <<take("state"), give("state")>>
           frames == woken \o <<take("recv"), give("recv")>>
           answer == <<take("send"), give("send")>>
<1>1. \A p, q : Good(p) /\ Good(q) => Good(p \o q)
    BY BothOrderly
<1>2. Good(woken) /\ Good(answer) /\ Good(<<take("recv"), give("recv")>>) /\ Good(<<put>>)
    BY PieceOrderly DEF Lock
<1>3. ClientRecv = {woken, frames, frames \o answer, frames \o <<put>>,
                    frames \o answer \o <<put>>, woken \o answer, woken \o <<put>>}
    BY DEF ClientRecv
<1> HIDE DEF Good, woken, answer
<1>4. Good(frames)
    BY <1>1, <1>2
<1> HIDE DEF frames
<1>5. Good(frames \o answer)
    BY <1>1, <1>2, <1>4
<1>6. \A p \in ClientRecv : Good(p)
    BY <1>1, <1>2, <1>3, <1>4, <1>5
<1>7. QED
    BY <1>6 DEF Good

LEMMA CallsOrderly == \A p \in ClientCalls : p \in Seq(LockStep) /\ Orderly(p, {})
<1>1. LET p == <<take("state"), give("state"), take("send"), give("send")>>
      IN  p \in Seq(LockStep) /\ Orderly(p, {})
    <2> DEFINE p == <<take("state"), give("state"), take("send"), give("send")>>
               h == <<{}, {"state"}, {}, {"send"}, {}>>
    <2>1. /\ take("state") \in LockStep /\ take("send") \in LockStep
          /\ give("state") \in LockStep /\ give("send") \in LockStep
        BY DEF LockStep, Lock
    <2>2. /\ Lawful(take("state"), {}) /\ {"state"} = After(take("state"), {})
          /\ Lawful(give("state"), {"state"}) /\ {} = After(give("state"), {"state"})
          /\ Lawful(take("send"), {}) /\ {"send"} = After(take("send"), {})
          /\ Lawful(give("send"), {"send"}) /\ {} = After(give("send"), {"send"})
        BY DEF Lawful, After, Before, take, give
    <2>3. Noted(p, h)
        <3>1. Len(p) = 4 /\ h[5] = {}
            BY <2>2
        <3>2. Lawful(p[1], h[1]) /\ h[1 + 1] = After(p[1], h[1])
            BY <2>2
        <3>3. Lawful(p[2], h[2]) /\ h[2 + 1] = After(p[2], h[2])
            BY <2>2
        <3>4. Lawful(p[3], h[3]) /\ h[3 + 1] = After(p[3], h[3])
            BY <2>2
        <3>5. Lawful(p[4], h[4]) /\ h[4 + 1] = After(p[4], h[4])
            BY <2>2
        <3> HIDE DEF p, h
        <3>6. \A k \in 1 .. 4 : k \in {1, 2, 3, 4}
            OBVIOUS
        <3>7. \A k \in 1 .. 4 : Lawful(p[k], h[k]) /\ h[k + 1] = After(p[k], h[k])
            BY <3>2, <3>3, <3>4, <3>5, <3>6
        <3>8. QED
            BY <3>1, <3>7 DEF Noted
    <2>4. QED
        BY <2>1, <2>3 DEF Orderly
<1>2. LET p == <<take("send"), take("recv"), give("recv"), give("send")>>
      IN  p \in Seq(LockStep) /\ Orderly(p, {})
    <2> DEFINE p == <<take("send"), take("recv"), give("recv"), give("send")>>
               h == <<{}, {"send"}, {"send", "recv"}, {"send"}, {}>>
    <2>1. /\ take("send") \in LockStep /\ take("recv") \in LockStep
          /\ give("send") \in LockStep /\ give("recv") \in LockStep
        BY DEF LockStep, Lock
    <2>2. /\ Lawful(take("send"), {}) /\ {"send"} = After(take("send"), {})
          /\ Lawful(take("recv"), {"send"}) /\ {"send", "recv"} = After(take("recv"), {"send"})
          /\ Lawful(give("recv"), {"send", "recv"}) /\ {"send"} = After(give("recv"), {"send", "recv"})
          /\ Lawful(give("send"), {"send"}) /\ {} = After(give("send"), {"send"})
        BY DEF Lawful, After, Before, take, give
    <2>3. Noted(p, h)
        <3>1. Len(p) = 4 /\ h[5] = {}
            BY <2>2
        <3>2. Lawful(p[1], h[1]) /\ h[1 + 1] = After(p[1], h[1])
            BY <2>2
        <3>3. Lawful(p[2], h[2]) /\ h[2 + 1] = After(p[2], h[2])
            BY <2>2
        <3>4. Lawful(p[3], h[3]) /\ h[3 + 1] = After(p[3], h[3])
            BY <2>2
        <3>5. Lawful(p[4], h[4]) /\ h[4 + 1] = After(p[4], h[4])
            BY <2>2
        <3> HIDE DEF p, h
        <3>6. \A k \in 1 .. 4 : k \in {1, 2, 3, 4}
            OBVIOUS
        <3>7. \A k \in 1 .. 4 : Lawful(p[k], h[k]) /\ h[k + 1] = After(p[k], h[k])
            BY <3>2, <3>3, <3>4, <3>5, <3>6
        <3>8. QED
            BY <3>1, <3>7 DEF Noted
    <2>4. QED
        BY <2>1, <2>3 DEF Orderly
<1>3. LET p == <<take("state"), give("state")>>
      IN  p \in Seq(LockStep) /\ Orderly(p, {})
    BY PieceOrderly DEF Lock
<1>4. QED
    BY <1>1, <1>2, <1>3 DEF ClientCalls

\* Every pass of a client keeps to the order of the locks.
LEMMA ClientOrderly == \A p \in ClientPass : p \in Seq(LockStep) /\ Orderly(p, {})
BY TickOrderly, RecvOrderly, CallsOrderly, PieceOrderly DEF ClientPass, ClientReader

-----------------------------------------------------------------------------
(* The invariant. *)

LEMMA LocksInitially == LockInit => LockInv
<1> SUFFICES ASSUME LockInit
             PROVE  LockInv
    OBVIOUS
<1>1. /\ todo \in [Task -> Seq(LockStep)] /\ holder \in [Lock -> SUBSET Task]
      /\ \A l \in Lock : holder[l] = {}
    BY DEF LockInit
<1>2. Orderly(<<>>, {})
    <2>1. Noted(<<>>, <<{}>>)
        BY DEF Noted
    <2>2. QED
        BY <2>1 DEF Orderly
<1>3. \A t \in Task : todo[t] = <<>> /\ Holding(t) = {}
    BY <1>1 DEF LockInit, Holding
<1>4. \A t \in Task : Orderly(todo[t], Holding(t))
    BY <1>2, <1>3
<1>5. QED
    BY <1>1, <1>4 DEF LockInv

\* Who is between two passes holds nothing.
LEMMA IdleHoldsNothing ==
    ASSUME NEW locks, Orderly(<<>>, locks)
    PROVE  locks = {}
BY DEF Orderly, Noted

\* A step takes the locks of its task along, and those of no other.
LEMMA StepHolds ==
    ASSUME LockInv, NEW t \in Task, Step(t)
    PROVE  /\ Holding(t)' = After(Head(todo[t]), Holding(t))
           /\ \A u \in Task \ {t} : Holding(u)' = Holding(u)
           /\ holder' \in [Lock -> SUBSET Task]
           /\ \A l \in Lock : \A x, y \in holder'[l] : x = y
<1> DEFINE s == Head(todo[t])
<1>1. /\ holder \in [Lock -> SUBSET Task]
      /\ \A l \in Lock : \A x, y \in holder[l] : x = y
    BY DEF LockInv
<1>2. s \in LockStep
    <2> DEFINE S == LockStep
    <2>1. todo[t] \in Seq(S) /\ todo[t] # <<>>
        BY DEF LockInv, Step
    <2> HIDE DEF S
    <2>2. s \in S
        BY <2>1
    <2>3. QED
        BY <2>2 DEF S
<1>3. s.op \in {"take", "give", "put", "get"} /\ (s.op \in {"take", "give"} => s.on \in Lock)
    BY <1>2, StepShapes
<1>4. /\ Possible(t, s)
      /\ holder' = CASE s.op = "take" -> [holder EXCEPT ![s.on] = {t}]
                     [] s.op = "give" -> [holder EXCEPT ![s.on] = {}]
                     [] OTHER -> holder
    BY DEF Step
<1> HIDE DEF s
<1>5. CASE s.op = "take"
    <2>1. holder' = [holder EXCEPT ![s.on] = {t}] /\ holder[s.on] = {} /\ s.on \in Lock
        BY <1>3, <1>4, <1>5 DEF Possible
    <2>2. After(s, Holding(t)) = Holding(t) \cup {s.on}
        BY <1>5 DEF After
    <2>3. Holding(t)' = Holding(t) \cup {s.on}
        BY <1>1, <2>1 DEF Holding
    <2>4. \A u \in Task \ {t} : Holding(u)' = Holding(u)
        BY <1>1, <2>1 DEF Holding
    <2>5. QED
        BY <1>1, <2>1, <2>2, <2>3, <2>4 DEF s
<1>6. CASE s.op = "give"
    <2>1. holder' = [holder EXCEPT ![s.on] = {}] /\ holder[s.on] = {t} /\ s.on \in Lock
        BY <1>3, <1>4, <1>6 DEF Possible
    <2>2. After(s, Holding(t)) = Holding(t) \ {s.on}
        BY <1>6 DEF After
    <2>3. Holding(t)' = Holding(t) \ {s.on}
        BY <1>1, <2>1 DEF Holding
    <2>4. \A u \in Task \ {t} : Holding(u)' = Holding(u)
        BY <1>1, <2>1 DEF Holding
    <2>5. QED
        BY <1>1, <2>1, <2>2, <2>3, <2>4 DEF s
<1>7. CASE s.op \in {"put", "get"}
    <2>1. holder' = holder
        BY <1>4, <1>7
    <2>2. After(s, Holding(t)) = Holding(t)
        BY <1>7 DEF After
    <2>3. QED
        BY <1>1, <2>1, <2>2 DEF Holding, s
<1>8. QED
    BY <1>3, <1>5, <1>6, <1>7

LEMMA LocksInductive ==
    ASSUME \A t \in Task : Passes[t] \subseteq ClientPass, LockInv, [LockNext]_lockVars
    PROVE  LockInv'
<1>1. /\ todo \in [Task -> Seq(LockStep)]
      /\ \A t \in Task : Orderly(todo[t], Holding(t))
    BY DEF LockInv
<1>2. ASSUME NEW t \in Task, Step(t)
      PROVE  LockInv'
    <2>1. todo[t] \in Seq(LockStep) /\ todo[t] # <<>> /\ todo' = [todo EXCEPT ![t] = Tail(todo[t])]
        BY <1>1, <1>2 DEF Step
    <2>2. /\ Holding(t)' = After(Head(todo[t]), Holding(t))
          /\ \A u \in Task \ {t} : Holding(u)' = Holding(u)
          /\ holder' \in [Lock -> SUBSET Task]
          /\ \A l \in Lock : \A x, y \in holder'[l] : x = y
        BY <1>2, StepHolds
    <2>3. Orderly(Tail(todo[t]), After(Head(todo[t]), Holding(t)))
        BY <1>1, <2>1, TailOrderly
    <2>4. Tail(todo[t]) \in Seq(LockStep)
        <3> DEFINE S == LockStep
        <3> HIDE DEF S
        <3>1. todo[t] \in Seq(S) => Tail(todo[t]) \in Seq(S)
            BY <2>1
        <3>2. QED
            BY <2>1, <3>1 DEF S
    <2>5. todo' \in [Task -> Seq(LockStep)]
        BY <1>1, <2>1, <2>4
    <2>6. \A u \in Task : Orderly(todo'[u], Holding(u)')
        BY <1>1, <2>1, <2>2, <2>3
    <2>7. QED
        BY <2>2, <2>5, <2>6 DEF LockInv
<1>3. ASSUME NEW t \in Task, NEW pass \in Passes[t], Begin(t, pass)
      PROVE  LockInv'
    <2>1. pass \in Seq(LockStep) /\ Orderly(pass, {})
        BY ClientOrderly
    <2>2. todo[t] = <<>> /\ todo' = [todo EXCEPT ![t] = pass] /\ holder' = holder
        BY <1>3 DEF Begin
    <2>3. Holding(t) = {}
        BY <1>1, <2>2, IdleHoldsNothing
    <2>4. \A u \in Task : Holding(u)' = Holding(u)
        BY <2>2 DEF Holding
    <2>5. todo' \in [Task -> Seq(LockStep)]
        BY <1>1, <2>1, <2>2
    <2>6. \A u \in Task : Orderly(todo'[u], Holding(u)')
        BY <1>1, <2>1, <2>2, <2>3, <2>4
    <2>7. QED
        BY <2>2, <2>5, <2>6 DEF LockInv
<1>4. CASE UNCHANGED lockVars
    BY <1>4 DEF lockVars, LockInv, Holding
<1>5. QED
    BY <1>2, <1>3, <1>4 DEF LockNext

\* The inductive invariant, for every set of tasks whose passes are those of
\* a client: what each has left keeps to the order of the locks.
THEOREM LocksInvariance ==
    ASSUME \A t \in Task : Passes[t] \subseteq ClientPass
    PROVE  LockSpec => []LockInv
<1>1. LockInit => LockInv
    BY LocksInitially
<1>2. LockInv /\ [LockNext]_lockVars => LockInv'
    BY LocksInductive
<1>3. QED
    BY <1>1, <1>2, PTL DEF LockSpec

-----------------------------------------------------------------------------
(* What follows from it. *)

\* Who waits for a lock holds only locks before it.
LEMMA WaitsInOrder ==
    ASSUME LockInv, NEW t \in Task, todo[t] # <<>>, Head(todo[t]).op = "take"
    PROVE  Head(todo[t]).on \in Lock /\ Holding(t) \subseteq Before(Head(todo[t]).on)
<1>1. todo[t] \in Seq(LockStep) /\ Orderly(todo[t], Holding(t))
    BY DEF LockInv
<1>2. Head(todo[t]) \in LockStep
    <2> DEFINE S == LockStep
    <2> HIDE DEF S
    <2>1. todo[t] \in Seq(S) => Head(todo[t]) \in S
        OBVIOUS
    <2>2. QED
        BY <1>1, <2>1 DEF S
<1>3. Lawful(Head(todo[t]), Holding(t))
    BY <1>1, TailOrderly
<1>4. QED
    BY <1>2, <1>3, StepShapes DEF Lawful

\* Tasks of a client never wait for one another in a circle, however many of
\* them call it at once: tick, receive task and calls take the locks on the
\* state, the send queue and the receive queue in one order (client/mod.rs).
THEOREM NoCircleOfClients ==
    ASSUME \A t \in Task : Passes[t] \subseteq ClientPass
    PROVE  LockSpec => []NoWaitCircle
<1>1. LockInv => NoWaitCircle
    <2> SUFFICES ASSUME LockInv, NEW circle \in (SUBSET Task) \ {{}},
                        \A t \in circle : WaitsFor(t) \cap circle # {}
                 PROVE  FALSE
        BY DEF NoWaitCircle
    <2> DEFINE on(t) == Head(todo[t]).on
    <2>1. ASSUME NEW t \in circle
          PROVE  /\ on(t) \in Lock /\ Holding(t) \subseteq Before(on(t))
                 /\ \E u \in circle : on(t) \in Holding(u)
        <3>1. todo[t] # <<>> /\ Head(todo[t]).op = "take" /\ WaitsFor(t) = holder[on(t)]
            BY DEF WaitsFor
        <3>2. on(t) \in Lock /\ Holding(t) \subseteq Before(on(t))
            BY <3>1, WaitsInOrder
        <3>3. QED
            BY <3>1, <3>2 DEF Holding
    <2> HIDE DEF on
    <2>2. \A t \in circle : on(t) # "recv"
        BY <2>1 DEF Before, Lock
    <2>3. \A t \in circle : on(t) # "send"
        BY <2>1, <2>2 DEF Before, Lock
    <2>4. \A t \in circle : on(t) # "state"
        BY <2>1, <2>2, <2>3 DEF Before, Lock
    <2>5. QED
        BY <2>1, <2>2, <2>3, <2>4 DEF Lock
<1>2. QED
    BY <1>1, LocksInvariance, PTL

\* A task of a client that waits for the application to read holds no lock, so
\* that tick and calls go on without it (recv_body!, client/mod.rs).
THEOREM ReaderDelaysNoLock ==
    ASSUME \A t \in Task : Passes[t] \subseteq ClientPass
    PROVE  LockSpec => []WaitsForReaderAlone
<1>1. LockInv => WaitsForReaderAlone
    <2> SUFFICES ASSUME LockInv, NEW t \in Task, todo[t] # <<>>, Head(todo[t]).op = "put"
                 PROVE  Holding(t) = {}
        BY DEF WaitsForReaderAlone
    <2>1. todo[t] \in Seq(LockStep) /\ Orderly(todo[t], Holding(t))
        BY DEF LockInv
    <2>2. Lawful(Head(todo[t]), Holding(t))
        BY <2>1, TailOrderly
    <2>3. QED
        BY <2>2 DEF Lawful
<1>2. QED
    BY <1>1, LocksInvariance, PTL

\* The tasks the runs look at are such tasks.
LEMMA ClientTasks ==
    ASSUME Passes = ClientPasses
    PROVE  \A t \in Task : Passes[t] \subseteq ClientPass
BY DEF Task, ClientPasses, ClientPass

-----------------------------------------------------------------------------
(* The life of the client.  Only the application, which owns it, ever starts *)
(* a client again; its tasks and the passing of time leave a Disconnected    *)
(* one as it is.                                                             *)

\* Flags are truth values, whatever step is taken.
LEMMA ClientFlagsKept ==
    ASSUME spent \in BOOLEAN, tasks \in BOOLEAN, [ClientNext]_clientVars
    PROVE  spent' \in BOOLEAN /\ tasks' \in BOOLEAN
<1> USE DEF UnchangedTasks, applicationVars
<1>1. CASE Application
    BY <1>1, Zenon DEF Application, ConnectRefused, ConnectTimesOut, ConnectFails, ConnectBegins,
                       HandshakeEnds, Spawn, Check, Announce, UserReceives, UserTold, Close,
                       CloseNotifies, CloseAborts, Drop
<1>2. CASE TaskStep
    BY <1>2, Zenon DEF TaskStep, SocketPasses, RecvTakes, RecvWakes, RecvDelivers, TickLoads,
                       TickBody
<1>3. CASE Stop \/ Elapse \/ SocketReads
    BY <1>3, Zenon DEF Stop, SocketStops, RecvStops, TickStops, Elapse, SocketReads
<1>4. ASSUME NEW t \in Role, Dropped(t)
      PROVE  spent' \in BOOLEAN /\ tasks' \in BOOLEAN
    BY <1>4, Zenon DEF Dropped
<1>5. CASE UNCHANGED clientVars
    BY <1>5, Zenon DEF clientVars
<1>6. QED
    BY <1>1, <1>2, <1>3, <1>4, <1>5, Zenon DEF ClientNext

\* The types but for the flags.
ClientKinds ==
    /\ state \in State
    /\ user \in {"idle", "failing", "handshake", "spawn", "check", "announce", "told",
                 "notify", "abort", "closed", "gone"}
    /\ socket \in {"select", "holding", "done"}
    /\ recv \in {"select", "holding", "deliver", "done"}
    /\ tick \in {"sleep", "loaded", "done"}
    /\ net \in 0 .. NetRoom /\ inbox \in 0 .. InboxRoom
    /\ heard \in Age /\ seen \in Age
    /\ doomed \subseteq Role

LEMMA ClientKindsKept == ClientKinds /\ [ClientNext]_clientVars => ClientKinds'
<1> SUFFICES ASSUME ClientKinds, [ClientNext]_clientVars
             PROVE  ClientKinds'
    OBVIOUS
<1> USE RoomAssumption DEF UnchangedTasks, applicationVars, ClientKinds, Age, Never, Timeout
<1>1. CASE ConnectRefused \/ ConnectTimesOut \/ ConnectFails \/ ConnectBegins \/ HandshakeEnds
    BY <1>1 DEF ConnectRefused, ConnectTimesOut, ConnectFails, ConnectBegins, HandshakeEnds, State
<1>2. CASE Spawn \/ Check \/ Announce
    BY <1>2 DEF Spawn, Check, Announce, State
<1>3. CASE UserReceives \/ UserTold \/ Close \/ CloseNotifies \/ CloseAborts \/ Drop
    BY <1>3 DEF UserReceives, UserTold, Close, CloseNotifies, CloseAborts, Drop, State
<1>4. CASE SocketReads \/ SocketPasses \/ SocketStops
    BY <1>4 DEF SocketReads, SocketPasses, SocketStops
<1>5. CASE RecvTakes \/ RecvWakes \/ RecvDelivers \/ RecvStops
    BY <1>5 DEF RecvTakes, RecvWakes, RecvDelivers, RecvStops, Awake, State
<1>6. CASE TickLoads \/ TickBody \/ TickStops
    BY <1>6 DEF TickLoads, TickBody, TickStops, State
<1>7. CASE Elapse
    BY <1>7 DEF Elapse, Older
<1>8. ASSUME NEW t \in Role, Dropped(t)
      PROVE  ClientKinds'
    BY <1>8 DEF Dropped
<1>9. CASE UNCHANGED clientVars
    BY <1>9 DEF clientVars
<1>10. QED
    BY <1>1, <1>2, <1>3, <1>4, <1>5, <1>6, <1>7, <1>8, <1>9
       DEF ClientNext, Application, TaskStep, Stop

\* The client and its tasks stay in their states and the channels inside their
\* capacities, for channels of any capacity.
THEOREM ClientTypeCorrect == ClientSpec => []ClientTypeOK
<1> DEFINE Flagged == spent \in BOOLEAN /\ tasks \in BOOLEAN
<1>1. ClientInit => ClientKinds /\ Flagged
    <2>1. ClientInit => ClientKinds
        BY RoomAssumption DEF ClientInit, ClientKinds, State, Age, Never, Timeout
    <2>2. ClientInit => Flagged
        BY Zenon DEF ClientInit
    <2>3. QED
        BY <2>1, <2>2
<1>2. Flagged /\ [ClientNext]_clientVars => Flagged'
    BY ClientFlagsKept, Zenon
<1>3. ClientKinds /\ Flagged => ClientTypeOK
    BY Zenon DEF ClientKinds, ClientTypeOK
<1> HIDE DEF Flagged
<1>4. QED
    BY <1>1, <1>2, <1>3, ClientKindsKept, PTL DEF ClientSpec

\* A client the tick has given up does not come back by itself, however the
\* tasks and the application interleave: only a connect() or a close() of the
\* application's moves it, and what the receive task had in hand does not.
THEOREM TimeoutStays == ClientSpec => TimeoutIsFinal
<1>1. ASSUME ClientNext, state = "Disconnected", state' # state
      PROVE  UNCHANGED <<socket, recv, tick>>
    <2>1. CASE Application
        BY <1>1, <2>1 DEF Application, ConnectRefused, ConnectTimesOut, ConnectFails,
              ConnectBegins, HandshakeEnds, Spawn, Check, Announce, UserReceives, UserTold, Close,
              CloseNotifies, CloseAborts, Drop, UnchangedTasks
    <2>2. CASE TaskStep
        BY <1>1, <2>2 DEF TaskStep, SocketPasses, RecvTakes, RecvWakes, RecvDelivers, TickLoads,
              TickBody, Awake
    <2>3. CASE Stop \/ Elapse \/ SocketReads
        BY <1>1, <2>3 DEF Stop, SocketStops, RecvStops, TickStops, Elapse, SocketReads
    <2>4. ASSUME NEW t \in Role, Dropped(t)
          PROVE  FALSE
        BY <1>1, <2>4 DEF Dropped
    <2>5. QED
        BY <1>1, <2>1, <2>2, <2>3, <2>4 DEF ClientNext
<1>2. [ClientNext]_clientVars =>
          [state = "Disconnected" /\ state' # state => UNCHANGED <<socket, recv, tick>>]_clientVars
    BY <1>1
<1>3. QED
    BY <1>2, PTL DEF ClientSpec, TimeoutIsFinal

=============================================================================
