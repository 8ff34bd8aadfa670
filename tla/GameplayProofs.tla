--------------------------- MODULE GameplayProofs ---------------------------
(***************************************************************************)
(* Proofs about Gameplay, for every world of blocks, kinds of blocks and   *)
(* items, every limit of attempts and whatever the server reports when.    *)
(*                                                                         *)
(* The six properties the runs check follow from the types and from Sound, *)
(* about the flags of MovementValidation: a target is set, a break begun   *)
(* and a probe out all at once or not at all; a pick-up after RTP belongs  *)
(* to a probe whose break is confirmed; a failed pick-up is terminal; and  *)
(* with no item chosen every item cached has been rejected.  A packet      *)
(* keeps it because what could disturb it is let through only when the bot *)
(* is idle (Heard); the drive, part by part.                               *)
(***************************************************************************)
EXTENDS Gameplay, TLAPS

\* The fields the proofs speak of are fields of the record.
Named(s) ==
    /\ "completed" \in DOMAIN s /\ "reported" \in DOMAIN s /\ "frames" \in DOMAIN s
    /\ "corrected" \in DOMAIN s /\ "movementOk" \in DOMAIN s
    /\ "chatProbe" \in DOMAIN s /\ "pos" \in DOMAIN s /\ "serverPos" \in DOMAIN s
    /\ "placeholder" \in DOMAIN s /\ "held" \in DOMAIN s /\ "equipped" \in DOMAIN s
    /\ "menu" \in DOMAIN s /\ "inventoryProbe" \in DOMAIN s /\ "cmdSent" \in DOMAIN s
    /\ "commands" \in DOMAIN s /\ "clicked" \in DOMAIN s /\ "clicks" \in DOMAIN s
    /\ "hint" \in DOMAIN s /\ "marker" \in DOMAIN s /\ "terrain" \in DOMAIN s
    /\ "terrainFailed" \in DOMAIN s /\ "waitDone" \in DOMAIN s /\ "probe" \in DOMAIN s
    /\ "breaking" \in DOMAIN s /\ "stop" \in DOMAIN s /\ "confirmed" \in DOMAIN s
    /\ "breakFailed" \in DOMAIN s /\ "placeSent" \in DOMAIN s /\ "pickup" \in DOMAIN s
    /\ "prebreak" \in DOMAIN s /\ "pickupFailed" \in DOMAIN s
    /\ "terminal" \in DOMAIN s /\ "target" \in DOMAIN s /\ "targetRt" \in DOMAIN s
    /\ "rejT" \in DOMAIN s /\ "rejR" \in DOMAIN s /\ "attempts" \in DOMAIN s
    /\ "candidate" \in DOMAIN s /\ "seen" \in DOMAIN s /\ "item" \in DOMAIN s
    /\ "items" \in DOMAIN s /\ "rejI" \in DOMAIN s /\ "breakingOk" \in DOMAIN s
    /\ "placingOk" \in DOMAIN s /\ "failed" \in DOMAIN s

\* The types of the fields, one by one.
Typed(s) ==
    /\ s.equipped \in BOOLEAN /\ s.completed \in BOOLEAN /\ s.reported \in BOOLEAN
    /\ s.frames \in BOOLEAN /\ s.corrected \in BOOLEAN /\ s.movementOk \in BOOLEAN
    /\ s.chatProbe \in BOOLEAN /\ s.placeholder \in BOOLEAN /\ s.held \in BOOLEAN
    /\ s.inventoryProbe \in BOOLEAN /\ s.cmdSent \in BOOLEAN /\ s.clicked \in BOOLEAN
    /\ s.hint \in BOOLEAN /\ s.marker \in BOOLEAN /\ s.terrain \in BOOLEAN
    /\ s.terrainFailed \in BOOLEAN /\ s.waitDone \in BOOLEAN /\ s.probe \in BOOLEAN
    /\ s.breaking \in BOOLEAN /\ s.stop \in BOOLEAN /\ s.confirmed \in BOOLEAN
    /\ s.breakFailed \in BOOLEAN /\ s.placeSent \in BOOLEAN /\ s.prebreak \in BOOLEAN
    /\ s.pickupFailed \in BOOLEAN /\ s.terminal \in BOOLEAN
    /\ s.breakingOk \in BOOLEAN /\ s.placingOk \in BOOLEAN /\ s.failed \in BOOLEAN
    /\ s.pos \in Block /\ s.serverPos \in Block \cup {None}
    /\ s.menu \in MenuItem
    /\ s.commands \in 0 .. MaxCommands /\ s.clicks \in 0 .. MaxClicks
    /\ s.attempts \in 0 .. MaxBreaks
    /\ s.pickup \in {None, "running", "expired"}
    /\ s.target \in Block \cup {None} /\ s.candidate \in Block \cup {None}
    /\ s.targetRt \in Runtime \cup {None} /\ s.rejT \subseteq Block
    /\ s.rejR \subseteq Runtime /\ s.seen \in [Block -> Runtime \cup {None}]
    /\ s.item \in Item \cup {None} /\ s.items \subseteq Item /\ s.rejI \subseteq Item

\* The bot is at work: a target is set, or a pick-up runs.
Busy(s) == s.target # None \/ s.pickup # None

\* Without a chosen item there is none left to try.
ItemsTried(s) == s.item = None => s.items \subseteq s.rejI

Sound(s) ==
    /\ Named(s) /\ Typed(s)
    /\ ~s.failed
    /\ s.probe <=> s.target # None
    /\ s.breaking <=> s.probe
    /\ s.probe => s.inventoryProbe
    /\ s.pickup # None /\ ~s.prebreak => s.confirmed /\ s.probe
    /\ s.pickupFailed => s.terminal /\ s.pickup # None
    /\ s.attempts >= MaxBreaks => s.terminal /\ s.probe
    /\ ItemsTried(s)

\* What hearing of something, and the parts of the drive that only look and
\* move, leave alone ...
Kept(s, r) ==
    /\ Named(r) /\ Typed(r)
    /\ r.failed <=> s.failed
    /\ r.probe <=> s.probe
    /\ r.breaking <=> s.breaking
    /\ r.prebreak <=> s.prebreak
    /\ r.pickupFailed <=> s.pickupFailed
    /\ s.confirmed => r.confirmed
    /\ r.target = s.target /\ r.pickup = s.pickup /\ r.attempts = s.attempts
    /\ r.rejT = s.rejT /\ r.rejR = s.rejR
    /\ ItemsTried(s) => ItemsTried(r)

\* ... and a packet, when the bot is at work.
Heard(s, r) ==
    /\ Kept(s, r)
    /\ Busy(s) => /\ r.waitDone = s.waitDone
                  /\ r.inventoryProbe = s.inventoryProbe
                  /\ r.terminal = s.terminal

LEMMA HeardKeeps ==
    ASSUME NEW s, NEW r, Sound(s), Heard(s, r)
    PROVE  Sound(r)
BY DEF Sound, Heard, Kept, Busy

LEMMA HeardTwice ==
    ASSUME NEW s, NEW q, NEW r, Heard(s, q), Heard(q, r)
    PROVE  Heard(s, r)
BY DEF Heard, Kept, Busy

-----------------------------------------------------------------------------
(* What the server reports. *)

LEMMA ReopenHeard ==
    ASSUME NEW s, Sound(s), Idle(s)
    PROVE  Heard(s, Reopen(s))
BY DEF Sound, Named, Typed, Idle, Reopen, Heard, Kept, Busy, ItemsTried

LEMMA AcceptHintHeard ==
    ASSUME NEW s, Sound(s), ~s.probe, NEW p \in Block
    PROVE  Heard(s, AcceptHint(s, p))
<1> DEFINE r == AcceptHint(s, p)
<1>1. r = [s EXCEPT !.serverPos = p, !.pos = p, !.placeholder = (p = Hub),
                    !.hint = TRUE, !.terrain = TRUE, !.terrainFailed = FALSE,
                    !.target = None, !.targetRt = None, !.breaking = FALSE, !.stop = FALSE]
    BY DEF Sound, Named, AcceptHint, MoveTo
<1>2. (p = Hub) \in BOOLEAN
    OBVIOUS
<1> HIDE DEF r
<1>3. Named(r)
    BY <1>1 DEF Sound, Named
<1>4. Typed(r)
    BY <1>1, <1>2 DEF Sound, Named, Typed
<1>5. Heard(s, r)
    BY <1>1, <1>3, <1>4 DEF Sound, Named, Heard, Kept, Busy, ItemsTried
<1>6. QED
    BY <1>5 DEF r

LEMMA ReopenIfLateHeard ==
    ASSUME NEW s, Sound(s)
    PROVE  Heard(s, ReopenIfLate(s))
<1>1. Heard(s, s)
    BY DEF Sound, Heard, Kept
<1>2. CASE CanAcceptLate(s)
    <2>1. Heard(s, Reopen(s))
        BY <1>2, ReopenHeard DEF CanAcceptLate
    <2>2. QED
        BY <1>1, <2>1 DEF ReopenIfLate
<1>3. CASE ~CanAcceptLate(s)
    BY <1>1, <1>3 DEF ReopenIfLate
<1>4. QED
    BY <1>2, <1>3

\* What is noted in fields that none of the five properties is about.
LEMMA NotedHeard ==
    ASSUME NEW s, Sound(s)
    PROVE  /\ Heard(s, s)
           /\ Heard(s, StopClicks(s)) /\ Heard(s, ForgetItems(s)) /\ Heard(s, RecordHeld(s))
           /\ \A p \in Block : /\ Heard(s, MoveTo(s, p)) /\ Heard(s, InitialHint(s, p))
                             /\ Heard(s, RecordServerPosition(s, p))
           /\ \A c \in Block \cup {None} : Heard(s, [s EXCEPT !.candidate = c])
           /\ Heard(s, [s EXCEPT !.corrected = TRUE])
           /\ Heard(s, [s EXCEPT !.hint = TRUE, !.marker = TRUE])
<1>1. Heard(s, s)
    BY DEF Sound, Heard, Kept
<1>2. Heard(s, StopClicks(s))
    <2> DEFINE r == [s EXCEPT !.clicks = MaxClicks]
    <2>1. Typed(r)
        BY GameplayAssumption DEF Sound, Named, Typed
    <2>2. Heard(s, r)
        BY <2>1 DEF Sound, Named, Heard, Kept, Busy, ItemsTried
    <2>3. QED
        BY <1>1, <2>2 DEF StopClicks
<1>3. Heard(s, ForgetItems(s))
    <2>1. Typed(ForgetItems(s))
        BY DEF Sound, Named, Typed, ForgetItems
    <2>2. QED
        BY <2>1 DEF Sound, Named, Heard, Kept, Busy, ItemsTried, ForgetItems
<1>4. Heard(s, RecordHeld(s))
    <2> DEFINE r == [s EXCEPT !.held = TRUE, !.equipped = FALSE]
    <2>1. Typed(r)
        BY DEF Sound, Named, Typed
    <2>2. Heard(s, r)
        BY <2>1 DEF Sound, Named, Heard, Kept, Busy, ItemsTried
    <2>3. QED
        BY <1>1, <2>2 DEF RecordHeld
<1>5. ASSUME NEW p \in Block
      PROVE  Heard(s, MoveTo(s, p))
    <2>1. \A h \in BOOLEAN :
              Heard(s, [s EXCEPT !.serverPos = p, !.pos = p, !.placeholder = h])
        <3> SUFFICES ASSUME NEW h \in BOOLEAN
                     PROVE  Heard(s, [s EXCEPT !.serverPos = p, !.pos = p, !.placeholder = h])
            OBVIOUS
        <3>1. Typed([s EXCEPT !.serverPos = p, !.pos = p, !.placeholder = h])
            BY DEF Sound, Named, Typed
        <3>2. QED
            BY <3>1 DEF Sound, Named, Heard, Kept, Busy, ItemsTried
    <2>2. (p = Hub) \in BOOLEAN
        OBVIOUS
    <2>3. QED
        BY <2>1, <2>2, Zenon DEF MoveTo
<1>6. ASSUME NEW p \in Block
      PROVE  Heard(s, InitialHint(s, p))
    BY <1>1 DEF Sound, Named, Typed, Heard, Kept, Busy, ItemsTried, InitialHint
<1>7. ASSUME NEW p \in Block
      PROVE  Heard(s, RecordServerPosition(s, p))
    BY <1>5 DEF Sound, Named, Typed, Heard, Kept, Busy, ItemsTried, RecordServerPosition
<1>8. ASSUME NEW p \in Block \cup {None}
      PROVE  Heard(s, [s EXCEPT !.candidate = p])
    BY DEF Sound, Named, Typed, Heard, Kept, Busy, ItemsTried
<1>9. Heard(s, [s EXCEPT !.corrected = TRUE])
    BY DEF Sound, Named, Typed, Heard, Kept, Busy, ItemsTried
<1>10. Heard(s, [s EXCEPT !.hint = TRUE, !.marker = TRUE])
    BY DEF Sound, Named, Typed, Heard, Kept, Busy, ItemsTried
<1>11. QED
    BY <1>1, <1>2, <1>3, <1>4, <1>5, <1>6, <1>7, <1>8, <1>9, <1>10

LEMMA RememberHeard ==
    ASSUME NEW s, Sound(s), NEW b \in Block, NEW rt \in Runtime \cup {Air, Marker}
    PROVE  Heard(s, Remember(s, b, rt))
<1>1. \A x \in Runtime \cup {None} : Heard(s, [s EXCEPT !.seen[b] = x])
    BY DEF Sound, Named, Typed, Heard, Kept, Busy, ItemsTried
<1>2. Heard(s, s)
    BY NotedHeard
<1>3. QED
    BY <1>1, <1>2 DEF Remember

LEMMA NoteBlockHeard ==
    ASSUME NEW s, Sound(s), NEW b \in Block, NEW rt \in Runtime \cup {Air, Marker}
    PROVE  Heard(s, NoteBlock(s, b, rt))
<1> DEFINE noted == Remember(s, b, rt)
           r == IF Far(s, b) THEN ReopenIfLate(noted) ELSE noted
<1>1. Heard(s, noted) /\ Sound(noted)
    BY RememberHeard, HeardKeeps
<1>2. Heard(s, ReopenIfLate(noted))
    BY <1>1, ReopenIfLateHeard, HeardTwice
<1>3. Heard(s, r)
    BY <1>1, <1>2
<1>4. Sound(r)
    BY <1>3, HeardKeeps
<1>5. NoteBlock(s, b, rt) =
          IF ~InRtpPhase(r) \/ rt = Marker THEN r
          ELSE IF rt = Air THEN [r EXCEPT !.candidate = IF @ = b THEN None ELSE @]
          ELSE [r EXCEPT !.candidate = b]
    BY DEF NoteBlock
<1> HIDE DEF r
<1>6. Heard(r, r) /\ \A c \in Block \cup {None} : Heard(r, [r EXCEPT !.candidate = c])
    BY <1>4, NotedHeard
<1>7. Heard(r, [r EXCEPT !.candidate = IF @ = b THEN None ELSE @])
    <2>1. [r EXCEPT !.candidate = IF @ = b THEN None ELSE @]
          = [r EXCEPT !.candidate = IF r.candidate = b THEN None ELSE r.candidate]
        BY <1>4 DEF Sound, Named
    <2>2. QED
        BY <1>4, <1>6, <2>1 DEF Sound, Typed
<1>8. Heard(r, NoteBlock(s, b, rt))
    BY <1>5, <1>6, <1>7
<1>9. QED
    BY <1>3, <1>8, HeardTwice

LEMMA RecordUpdateBlockHeard ==
    ASSUME NEW s, Sound(s), NEW b \in Block, NEW rt \in Runtime \cup {Air, Marker}
    PROVE  Heard(s, RecordUpdateBlock(s, b, rt))
<1> DEFINE r == NoteBlock(s, b, rt)
           expected == r.marker \/ r.clicked \/ r.cmdSent
<1>1. Heard(s, r) /\ Sound(r)
    BY NoteBlockHeard, HeardKeeps
<1>2. RecordUpdateBlock(s, b, rt) =
          IF ~Far(s, b) \/ ~InRtpPhase(r) \/ rt = Air THEN r
          ELSE IF rt = Marker THEN [r EXCEPT !.hint = TRUE, !.marker = TRUE]
          ELSE IF ~expected \/ r.terrain THEN r
          ELSE StopClicks(ForgetItems(AcceptHint(r, b)))
    BY DEF RecordUpdateBlock
<1> HIDE DEF r, expected
<1>3. Heard(r, r) /\ Heard(r, [r EXCEPT !.hint = TRUE, !.marker = TRUE])
    BY <1>1, NotedHeard
<1>4. ASSUME InRtpPhase(r)
      PROVE  Heard(r, StopClicks(ForgetItems(AcceptHint(r, b))))
    <2> DEFINE q == AcceptHint(r, b)
    <2>1. Heard(r, q) /\ Sound(q)
        BY <1>1, <1>4, AcceptHintHeard, HeardKeeps DEF InRtpPhase
    <2> HIDE DEF q
    <2>2. Heard(q, ForgetItems(q)) /\ Sound(ForgetItems(q))
        BY <2>1, NotedHeard, HeardKeeps
    <2>3. Heard(ForgetItems(q), StopClicks(ForgetItems(q)))
        BY <2>2, NotedHeard
    <2>4. Heard(r, StopClicks(ForgetItems(q)))
        BY <2>1, <2>2, <2>3, HeardTwice
    <2>5. QED
        BY <2>4 DEF q
<1>5. Heard(r, RecordUpdateBlock(s, b, rt))
    BY <1>2, <1>3, <1>4
<1>6. QED
    BY <1>1, <1>5, HeardTwice

LEMMA UpdateBlockHeard ==
    ASSUME NEW s, Sound(s), NEW b \in Block, NEW rt \in Runtime \cup {Air, Marker}
    PROVE  Heard(s, UpdateBlock(s, b, rt))
<1> DEFINE r == RecordUpdateBlock(s, b, rt)
<1>1. Heard(s, r) /\ Sound(r)
    BY RecordUpdateBlockHeard, HeardKeeps
<1> HIDE DEF r
<1>2. Heard(r, ApplyEvidence(r, b, rt))
    <2>1. Heard(r, r)
        BY <1>1, NotedHeard
    <2>2. Heard(r, [r EXCEPT !.confirmed = @ \/ rt = Air,
                             !.breakingOk = @ \/ rt = Air,
                             !.placingOk = @ \/ (r.placeSent /\ rt # Air)])
        BY <1>1 DEF Sound, Named, Typed, Heard, Kept, Busy, ItemsTried
    <2>3. QED
        BY <2>1, <2>2 DEF ApplyEvidence
<1>3. Heard(s, ApplyEvidence(r, b, rt))
    BY <1>1, <1>2, HeardTwice
<1>4. QED
    BY <1>3 DEF UpdateBlock, r

LEMMA ItemHintHeard ==
    ASSUME NEW s, Sound(s), NEW p \in Block
    PROVE  Heard(s, ItemHint(s, p))
<1> DEFINE region == s.clicked /\ s.menu.prio >= 120
           r == IF region THEN ReopenIfLate(s) ELSE s
<1>1. Heard(s, r) /\ Sound(r)
    BY ReopenIfLateHeard, NotedHeard, HeardKeeps
<1>2. ItemHint(s, p) = IF region /\ ~r.waitDone /\ ~r.probe /\ ~r.terrain /\ Far(r, p)
                       THEN StopClicks(AcceptHint(r, p)) ELSE r
    BY DEF ItemHint
<1> HIDE DEF r, region
<1>3. ASSUME ~r.probe
      PROVE  Heard(r, StopClicks(AcceptHint(r, p)))
    <2>1. Heard(r, AcceptHint(r, p)) /\ Sound(AcceptHint(r, p))
        BY <1>1, <1>3, AcceptHintHeard, HeardKeeps
    <2>2. Heard(AcceptHint(r, p), StopClicks(AcceptHint(r, p)))
        BY <2>1, NotedHeard
    <2>3. QED
        BY <2>1, <2>2, HeardTwice
<1>4. Heard(r, ItemHint(s, p))
    <2>1. Heard(r, r)
        BY <1>1, NotedHeard
    <2>2. QED
        BY <1>2, <1>3, <2>1
<1>5. QED
    BY <1>1, <1>4, HeardTwice


-----------------------------------------------------------------------------
(* The cached items. *)

\* Among places whose distances are classes one is nearest.
LEMMA NearestExists ==
    ASSUME NEW S, NEW d, NEW x \in S, \A i \in S : d[i] \in 0 .. 4
    PROVE  \E i \in S : \A j \in S : d[i] <= d[j]
<1>1. \A k \in 0 .. 4 : (\A j \in S : d[j] >= k) /\ (\E i \in S : d[i] = k)
                        => \E i \in S : \A j \in S : d[i] <= d[j]
    OBVIOUS
<1>2. \E k \in 0 .. 4 : (\A j \in S : d[j] >= k) /\ (\E i \in S : d[i] = k)
    <2>1. CASE \E i \in S : d[i] = 0
        BY <2>1
    <2>2. CASE (\A j \in S : d[j] >= 1) /\ \E i \in S : d[i] = 1
        BY <2>2
    <2>3. CASE (\A j \in S : d[j] >= 2) /\ \E i \in S : d[i] = 2
        BY <2>3
    <2>4. CASE (\A j \in S : d[j] >= 3) /\ \E i \in S : d[i] = 3
        BY <2>4
    <2>5. CASE \A j \in S : d[j] = 4
        BY <2>5
    <2>6. QED
        BY <2>1, <2>2, <2>3, <2>4, <2>5
<1>3. QED
    BY <1>1, <1>2

\* select_observed_item_entity() finds an item not rejected if there is one.
LEMMA SelectItemFinds ==
    ASSUME NEW s, s.items \subseteq Item, NEW from \in Block
    PROVE  /\ SelectItem(s, from) \in Item \cup {None}
           /\ SelectItem(s, from) = None => s.items \subseteq s.rejI
<1> DEFINE open == s.items \ s.rejI
           d == [i \in open |-> Dist[from][ItemPlace[i]]]
           Is(i) == i \in open /\ \A j \in open : Dist[from][ItemPlace[i]] <= Dist[from][ItemPlace[j]]
<1>1. \A i \in open : d[i] \in 0 .. 4 /\ d[i] = Dist[from][ItemPlace[i]]
    BY GameplayAssumption
<1>2. CASE open = {}
    BY <1>2 DEF SelectItem
<1>3. ASSUME open # {}
      PROVE  \E i : Is(i)
    <2>1. PICK x : x \in open
        BY <1>3
    <2> HIDE DEF open, d
    <2>2. \E i \in open : \A j \in open : d[i] <= d[j]
        BY <1>1, <2>1, NearestExists
    <2>3. QED
        BY <1>1, <2>2
<1>4. ASSUME open # {}
      PROVE  SelectItem(s, from) \in open
    <2>1. SelectItem(s, from) = CHOOSE i \in open :
                   \A j \in open : Dist[from][ItemPlace[i]] <= Dist[from][ItemPlace[j]]
        BY <1>4 DEF SelectItem
    <2>2. \E i \in open : \A j \in open : Dist[from][ItemPlace[i]] <= Dist[from][ItemPlace[j]]
        BY <1>3, <1>4
    <2> HIDE DEF open
    <2>3. QED
        BY <2>1, <2>2, Zenon
<1>5. None \notin Item
    BY NamesAssumption
<1>6. QED
    BY <1>2, <1>4, <1>5

LEMMA RecordItemHeard ==
    ASSUME NEW s, Sound(s), NEW i \in Item
    PROVE  Heard(s, RecordItem(s, i))
<1> DEFINE place == ItemPlace[i]
           h == InitialHint(s, place)
           r == ItemHint(h, place)
           from == IF r.target # None THEN r.target ELSE r.pos
           kept == [r EXCEPT !.items = @ \cup {i}]
           chosen == SelectItem(kept, from)
<1>1. place \in Block
    BY GameplayAssumption
<1> HIDE DEF place
<1>2. Heard(s, h) /\ Sound(h)
    BY <1>1, NotedHeard, HeardKeeps
<1> HIDE DEF h
<1>3. Heard(s, r) /\ Sound(r)
    BY <1>1, <1>2, ItemHintHeard, HeardTwice, HeardKeeps
<1>4. RecordItem(s, i) = IF r.target # None /\ Dist[from][place] > 0 THEN r
                         ELSE [kept EXCEPT !.item = chosen]
    BY DEF RecordItem, place, h
<1> HIDE DEF r
<1>5. from \in Block
    BY <1>3 DEF Sound, Typed
<1>6. kept.items = r.items \cup {i} /\ kept.rejI = r.rejI /\ kept.items \subseteq Item
    BY <1>3 DEF Sound, Named, Typed
<1> HIDE DEF from
<1>7. chosen \in Item \cup {None} /\ (chosen = None => r.items \cup {i} \subseteq r.rejI)
    BY <1>5, <1>6, SelectItemFinds
<1>8. [kept EXCEPT !.item = chosen] = [r EXCEPT !.items = r.items \cup {i}, !.item = chosen]
    BY <1>3 DEF Sound, Named
<1> HIDE DEF chosen, kept
<1>9. Heard(r, [r EXCEPT !.items = r.items \cup {i}, !.item = chosen])
    <2>1. Typed([r EXCEPT !.items = r.items \cup {i}, !.item = chosen])
        BY <1>3, <1>7 DEF Sound, Named, Typed
    <2>2. QED
        BY <1>3, <1>7, <2>1 DEF Sound, Named, Heard, Kept, Busy, ItemsTried
<1>10. Heard(r, r)
    BY <1>3, NotedHeard
<1>11. Heard(r, RecordItem(s, i))
    BY <1>4, <1>8, <1>9, <1>10
<1>12. QED
    BY <1>3, <1>11, HeardTwice

LEMMA RecordTakeHeard ==
    ASSUME NEW s, Sound(s), NEW i \in Item
    PROVE  Heard(s, RecordTake(s, i))
<1> DEFINE r == [s EXCEPT !.items = @ \ {i}]
           chosen == SelectItem(r, r.pos)
<1>1. r = [s EXCEPT !.items = s.items \ {i}]
    BY DEF Sound, Named
<1>2. Heard(s, r)
    <2>1. Typed(r)
        BY DEF Sound, Named, Typed
    <2>2. QED
        BY <2>1 DEF Sound, Named, Heard, Kept, Busy, ItemsTried
<1>3. Sound(r)
    BY <1>2, HeardKeeps
<1> HIDE DEF r
<1>4. chosen \in Item \cup {None} /\ (chosen = None => r.items \subseteq r.rejI)
    BY <1>3, SelectItemFinds DEF Sound, Typed
<1> HIDE DEF chosen
<1>5. Heard(r, [r EXCEPT !.item = chosen])
    <2>1. Typed([r EXCEPT !.item = chosen])
        BY <1>3, <1>4 DEF Sound, Named, Typed
    <2>2. QED
        BY <1>3, <1>4, <2>1 DEF Sound, Named, Heard, Kept, Busy, ItemsTried
<1>6. Heard(s, [r EXCEPT !.item = chosen])
    BY <1>2, <1>5, HeardTwice
<1>7. QED
    BY <1>2, <1>6 DEF RecordTake, r, chosen

LEMMA RecordMenuItemHeard ==
    ASSUME NEW s, Sound(s), NEW p \in Priority
    PROVE  Heard(s, RecordMenuItem(s, p))
<1> DEFINE second == s.clicked /\ s.menu.prio = 110 /\ p \in Neutral
           q == IF second THEN 220 ELSE p
           item == [after |-> s.commands, prio |-> q]
           clicks == IF s.clicked THEN 0 ELSE s.clicks
           fresh == [s EXCEPT !.menu = item, !.clicks = clicks, !.clicked = FALSE]
           r == IF q > s.menu.prio THEN fresh ELSE s
<1>1. item \in MenuItem
    BY DEF Sound, Typed, MenuItem
<1>2. clicks \in 0 .. MaxClicks
    BY GameplayAssumption DEF Sound, Typed
<1>3. Heard(s, s)
    BY NotedHeard
<1>4. RecordMenuItem(s, p) = RecoverLateMenu(r)
    BY DEF RecordMenuItem, Sound, Named
<1> HIDE DEF item, clicks, q, second
<1>5. Heard(s, fresh)
    <2>1. Typed(fresh)
        BY <1>1, <1>2 DEF Sound, Named, Typed
    <2>2. QED
        BY <2>1 DEF Sound, Named, Heard, Kept, Busy, ItemsTried
<1>6. Heard(s, r) /\ Sound(r)
    BY <1>3, <1>5, HeardKeeps
<1> HIDE DEF r
<1>7. Heard(r, RecoverLateMenu(r))
    BY <1>6, NotedHeard, ReopenHeard DEF RecoverLateMenu
<1>8. QED
    BY <1>4, <1>6, <1>7, HeardTwice

\* Whatever the server reports keeps what the properties are about.
LEMMA ReceiveHeard ==
    ASSUME Sound(m), Receive
    PROVE  Heard(m, m')
<1>1. \A p \in Block : Heard(m, RecordServerPosition(m, p))
    BY NotedHeard
<1>2. Heard(m, [m EXCEPT !.corrected = TRUE]) /\ Heard(m, RecordHeld(m)) /\ Heard(m, m)
    BY NotedHeard
<1>3. \A b \in Block, rt \in Runtime \cup {Air, Marker} : Heard(m, UpdateBlock(m, b, rt))
    BY UpdateBlockHeard
<1>4. \A i \in Item : Heard(m, RecordItem(m, i)) /\ Heard(m, RecordTake(m, i))
    BY RecordItemHeard, RecordTakeHeard
<1>5. \A p \in Priority : Heard(m, RecordMenuItem(m, p))
    BY RecordMenuItemHeard
<1>6. \A b \in Block, rt \in Runtime : Heard(m, RecordSample(m, b, rt))
    BY <1>2, RememberHeard DEF RecordSample
<1>7. m' \in Positions(m) \cup Contents(m) \cup Observations(m)
    BY DEF Receive
<1>8. \A r \in Positions(m) : Heard(m, r)
    BY <1>1, <1>2 DEF Positions
<1>9. \A r \in Contents(m) : Heard(m, r)
    BY <1>2, <1>3 DEF Contents
<1>10. \A r \in Observations(m) : Heard(m, r)
    BY <1>4, <1>5, <1>6 DEF Observations
<1>11. QED
    BY <1>7, <1>8, <1>9, <1>10

-----------------------------------------------------------------------------
(* The drive: what one call of drive_movement_validation() may do to the    *)
(* flags, and its parts.                                                   *)

\* A call keeps the invariant, starts on no target given up before, and lets
\* the pick-up before RTP give up only when every item was tried.
Driven(s, r) ==
    /\ Sound(r)
    /\ r.target \notin {s.target, None} /\ ~r.held =>
           r.target \notin s.rejT /\ r.targetRt \notin s.rejR
    /\ s.prebreak /\ r.pickupFailed /\ ~s.terminal /\ r.terminal => r.items \subseteq r.rejI

\* A part of the call that what Driven speaks of does not notice.
Same(q, r) ==
    /\ Sound(r)
    /\ r.target = q.target /\ r.targetRt = q.targetRt
    /\ r.items = q.items /\ r.rejI = q.rejI
    /\ r.held <=> q.held
    /\ r.terminal <=> q.terminal
    /\ r.pickupFailed <=> q.pickupFailed

\* A part before another.
Leads(s, q) ==
    /\ Sound(q)
    /\ q.target = s.target /\ q.rejT = s.rejT /\ q.rejR = s.rejR
    /\ q.terminal <=> s.terminal
    /\ s.prebreak => q.prebreak

LEMMA DrivenSame ==
    ASSUME NEW s, NEW q, NEW r, Driven(s, q), Same(q, r)
    PROVE  Driven(s, r)
BY DEF Driven, Same

LEMMA LeadsDriven ==
    ASSUME NEW s, NEW q, NEW r, Leads(s, q), Driven(q, r)
    PROVE  Driven(s, r)
BY DEF Driven, Leads

LEMMA StaysDriven ==
    ASSUME NEW s, Sound(s)
    PROVE  Driven(s, s)
BY DEF Driven, Sound

\* Where a target is given up: a failure is being dealt with and the attempts
\* are not used up.
Failing(e) ==
    /\ Named(e) /\ Typed(e)
    /\ ~e.failed
    /\ e.probe <=> e.target # None
    /\ e.breaking <=> e.probe
    /\ e.probe => e.inventoryProbe
    /\ e.pickup # None /\ ~e.prebreak => e.confirmed /\ e.probe
    /\ e.attempts < MaxBreaks
    /\ ItemsTried(e)

LEMMA ClearActionSound ==
    ASSUME NEW r, Named(r), Typed(r), ~r.failed, r.attempts < MaxBreaks
    PROVE  /\ Sound(ClearAction(r)) /\ ClearAction(r).target = None
           /\ ~ClearAction(r).pickupFailed /\ ~ClearAction(r).confirmed
           /\ Sound([ClearAction(r) EXCEPT !.terminal = FALSE, !.held = FALSE, !.equipped = FALSE])
<1> DEFINE q == ClearAction(r)
           x == [q EXCEPT !.terminal = FALSE, !.held = FALSE, !.equipped = FALSE]
<1>1. Named(q)
    BY DEF Named, ClearAction
<1>2. Typed(q)
    BY DEF Named, Typed, ClearAction
<1>3. ~q.failed /\ q.target = None /\ ~q.probe /\ ~q.breaking /\ q.pickup = None
      /\ ~q.pickupFailed /\ q.attempts = r.attempts /\ q.items = {} /\ ~q.confirmed
    BY DEF Named, ClearAction
<1>4. r.attempts \in Nat /\ MaxBreaks \in Nat
    BY GameplayAssumption DEF Typed
<1>5. Sound(q)
    <2> HIDE DEF q
    <2>1. QED
        BY <1>1, <1>2, <1>3, <1>4 DEF Sound, ItemsTried
<1> HIDE DEF q
<1>6. Sound(x)
    <2>1. Named(x)
        BY <1>1 DEF Named
    <2>2. Typed(x)
        BY <1>1, <1>2 DEF Named, Typed
    <2>3. ~x.failed /\ x.target = None /\ ~x.probe /\ ~x.breaking /\ x.pickup = None
          /\ ~x.pickupFailed /\ x.attempts = r.attempts /\ x.items = {}
        BY <1>1, <1>3 DEF Named
    <2> HIDE DEF x
    <2>4. QED
        BY <1>4, <2>1, <2>2, <2>3 DEF Sound, ItemsTried
<1>7. QED
    BY <1>3, <1>5, <1>6 DEF q

LEMMA ResetSound ==
    ASSUME NEW r, Named(r), Typed(r), ~r.failed, r.attempts < MaxBreaks
    PROVE  LET q == ResetForRtpRetry(r)
           IN  Sound(q) /\ q.target = None /\ ~q.pickupFailed /\ ~q.confirmed
<1> DEFINE c == ClearAction(r)
           q == ResetForRtpRetry(r)
<1>1. Sound(c) /\ c.target = None /\ ~c.pickupFailed /\ ~c.confirmed
    BY ClearActionSound
<1>2. q = [c EXCEPT
             !.inventoryProbe = FALSE, !.cmdSent = FALSE, !.clicked = FALSE,
             !.clicks = 0, !.hint = FALSE, !.marker = FALSE, !.terrain = FALSE,
             !.terrainFailed = FALSE, !.waitDone = FALSE, !.terminal = FALSE,
             !.held = FALSE, !.equipped = FALSE, !.rejT = {}, !.attempts = 0,
             !.candidate = None, !.seen = [b \in Block |-> None]]
    BY DEF ResetForRtpRetry
<1> HIDE DEF c
<1>3. c.pickup = None /\ ~c.probe
    BY DEF c, ClearAction, Named
<1>4. Named(q)
    BY <1>1, <1>2 DEF Sound, Named
<1>5. Typed(q)
    <2>1. [b \in Block |-> None] \in [Block -> Runtime \cup {None}]
        OBVIOUS
    <2> DEFINE none == [b \in Block |-> None]
    <2> HIDE DEF none
    <2>2. QED
        BY <1>1, <1>2, <2>1, GameplayAssumption DEF Sound, Named, Typed, none
<1>6. /\ ~q.failed /\ q.target = None /\ ~q.probe /\ ~q.breaking /\ q.pickup = None
      /\ ~q.pickupFailed /\ ~q.confirmed /\ q.attempts = 0
      /\ q.item = c.item /\ q.items = c.items /\ q.rejI = c.rejI
    BY <1>1, <1>2, <1>3 DEF Sound, Named
<1> HIDE DEF q
<1>7. Sound(q)
    BY <1>1, <1>4, <1>5, <1>6, GameplayAssumption DEF Sound, ItemsTried
<1>8. QED
    BY <1>6, <1>7 DEF q

\* The target given up is noted and the rest stays.
LEMMA RejectTargetKeeps ==
    ASSUME NEW e, Failing(e), e.target # None
    PROVE  LET r == RejectTarget(e)
           IN  /\ Named(r) /\ Typed(r) /\ ~r.failed
               /\ r.probe /\ r.breaking /\ r.inventoryProbe
               /\ r.target = e.target /\ r.attempts = e.attempts + 1
               /\ r.pickup = e.pickup /\ r.prebreak = e.prebreak
               /\ r.confirmed = e.confirmed /\ r.pickupFailed = e.pickupFailed
               /\ ItemsTried(r)
<1> DEFINE b == e.target
           rt == IF e.targetRt # None THEN e.targetRt ELSE e.seen[b]
           cand == IF e.candidate = b THEN None ELSE e.candidate
           rejR == e.rejR \cup ({rt} \ {None})
           rejT == e.rejT \cup {b}
           seen == [e.seen EXCEPT ![b] = None]
           r == RejectTarget(e)
<1>1. r = [e EXCEPT !.rejT = rejT, !.rejR = rejR, !.seen = seen,
                    !.candidate = cand, !.attempts = e.attempts + 1]
    BY DEF RejectTarget, Failing, Named
<1>2. b \in Block /\ rt \in Runtime \cup {None} /\ cand \in Block \cup {None}
    BY DEF Failing, Typed
<1>3. rejT \subseteq Block
    BY <1>2 DEF Failing, Typed
<1>4. rejR \subseteq Runtime
    <2> HIDE DEF rt
    <2>1. QED
        BY <1>2 DEF Failing, Typed
<1>5. seen \in [Block -> Runtime \cup {None}]
    BY <1>2 DEF Failing, Typed
<1>6. e.attempts + 1 \in 0 .. MaxBreaks
    BY GameplayAssumption DEF Failing, Typed
<1> HIDE DEF rejT, rejR, seen, cand, rt, b, r
<1>7. Named(r)
    BY <1>1 DEF Failing, Named
<1>8. Typed(r)
    BY <1>1, <1>2, <1>3, <1>4, <1>5, <1>6 DEF Failing, Named, Typed
<1>9. /\ r.target = e.target /\ r.attempts = e.attempts + 1
      /\ r.pickup = e.pickup /\ r.prebreak = e.prebreak
      /\ r.confirmed = e.confirmed /\ r.pickupFailed = e.pickupFailed
      /\ r.probe = e.probe /\ r.breaking = e.breaking
      /\ r.inventoryProbe = e.inventoryProbe /\ r.failed = e.failed
      /\ r.item = e.item /\ r.items = e.items /\ r.rejI = e.rejI
    BY <1>1 DEF Failing, Named
<1>10. QED
    BY <1>7, <1>8, <1>9 DEF Failing, ItemsTried, r

\* A failure that cannot be helped is terminal.
LEMMA TerminalSound ==
    ASSUME NEW r, Named(r), Typed(r), ~r.failed, r.probe <=> r.target # None,
           r.breaking <=> r.probe, r.probe => r.inventoryProbe,
           r.pickup # None /\ ~r.prebreak => r.confirmed /\ r.probe,
           r.pickupFailed => r.pickup # None,
           r.attempts >= MaxBreaks => r.probe, ItemsTried(r)
    PROVE  LET q == [r EXCEPT !.terminal = TRUE]
           IN  /\ Sound(q) /\ q.terminal /\ q.target = r.target /\ q.pickupFailed = r.pickupFailed
               /\ q.confirmed = r.confirmed /\ q.items = r.items /\ q.rejI = r.rejI
<1> DEFINE q == [r EXCEPT !.terminal = TRUE]
<1>1. Named(q)
    BY DEF Named
<1>2. Typed(q)
    BY DEF Named, Typed
<1>3. /\ q.failed = r.failed /\ q.probe = r.probe /\ q.target = r.target
      /\ q.breaking = r.breaking /\ q.inventoryProbe = r.inventoryProbe
      /\ q.pickup = r.pickup /\ q.prebreak = r.prebreak /\ q.confirmed = r.confirmed
      /\ q.pickupFailed = r.pickupFailed /\ q.terminal /\ q.attempts = r.attempts
      /\ q.item = r.item /\ q.items = r.items /\ q.rejI = r.rejI
    BY DEF Named
<1> HIDE DEF q
<1>4. Sound(q)
    BY <1>1, <1>2, <1>3 DEF Sound, ItemsTried
<1>5. QED
    BY <1>3, <1>4 DEF q

LEMMA RetrySound ==
    ASSUME NEW r, Named(r), Typed(r), ~r.failed, r.attempts < MaxBreaks,
           r.probe <=> r.target # None, r.breaking <=> r.probe,
           r.probe => r.inventoryProbe,
           r.pickup # None /\ ~r.prebreak => r.confirmed /\ r.probe,
           r.pickupFailed => r.pickup # None, ItemsTried(r)
    PROVE  LET q == RetryRtpOrFail(r)
           IN  Sound(q) /\ q.target \in {r.target, None}
               /\ (q.pickupFailed => r.pickupFailed) /\ (q.confirmed => r.confirmed)
<1>1. CASE CanRetryRtp(r)
    <2>1. RetryRtpOrFail(r) = ResetForRtpRetry(r)
        BY <1>1 DEF RetryRtpOrFail
    <2>2. QED
        BY <2>1, ResetSound
<1>2. CASE ~CanRetryRtp(r)
    <2>1. RetryRtpOrFail(r) = [r EXCEPT !.terminal = TRUE]
        BY <1>2 DEF RetryRtpOrFail
    <2>2. ~(r.attempts >= MaxBreaks)
        BY GameplayAssumption DEF Typed
    <2>3. LET q == [r EXCEPT !.terminal = TRUE]
          IN  Sound(q) /\ q.target = r.target /\ q.pickupFailed = r.pickupFailed
              /\ q.confirmed = r.confirmed
        BY <2>2, TerminalSound
    <2>4. QED
        BY <2>1, <2>3
<1>3. QED
    BY <1>1, <1>2

\* prepare_next_break_target_after_*_failure(): the next target is not chosen
\* here, and what remains is sound.
LEMMA NextTargetSound ==
    ASSUME NEW e, Failing(e), e.target # None, e.pickupFailed => e.pickup # None
    PROVE  /\ LET q == NextAfterPickupFailure(e)
              IN  Sound(q) /\ q.target \in {e.target, None}
           /\ LET q == NextAfterBreakFailure(e)
              IN  Sound(q) /\ q.target \in {e.target, None}
                  /\ (q.pickupFailed => e.pickupFailed) /\ (q.confirmed => e.confirmed)
<1> DEFINE r == RejectTarget(e)
           over == [r EXCEPT !.terminal = TRUE]
           fresh == [ClearAction(r) EXCEPT !.terminal = FALSE, !.held = FALSE, !.equipped = FALSE]
           more == IF ~r.held THEN Walkable(r)
                   ELSE Within(r, FALSE, 3) # {} \/ Fallback(r) # {}
<1>1. /\ Named(r) /\ Typed(r) /\ ~r.failed
      /\ r.probe /\ r.breaking /\ r.inventoryProbe
      /\ r.target = e.target /\ r.attempts = e.attempts + 1
      /\ r.pickup = e.pickup /\ r.prebreak = e.prebreak
      /\ r.confirmed = e.confirmed /\ r.pickupFailed = e.pickupFailed
      /\ ItemsTried(r)
    BY RejectTargetKeeps
<1>2. NextAfterPickupFailure(e) =
          IF r.attempts >= MaxBreaks THEN over
          ELSE IF ~Walkable(r) THEN RetryRtpOrFail(r)
          ELSE fresh
    BY DEF NextAfterPickupFailure
<1>3. NextAfterBreakFailure(e) =
          IF r.attempts >= MaxBreaks THEN over
          ELSE IF ~more THEN RetryRtpOrFail(r)
          ELSE ClearAction(r)
    BY DEF NextAfterBreakFailure
<1> HIDE DEF r, more
<1>4. r.pickup # None /\ ~r.prebreak => r.confirmed /\ r.probe
    BY <1>1 DEF Failing
<1>5. Sound(over) /\ over.target = e.target /\ over.pickupFailed = e.pickupFailed
      /\ over.confirmed = e.confirmed
    BY <1>1, <1>4, TerminalSound
<1>6. ASSUME ~(r.attempts >= MaxBreaks)
      PROVE  r.attempts < MaxBreaks
    BY <1>1, <1>6, GameplayAssumption DEF Typed
<1>7. ASSUME r.attempts < MaxBreaks
      PROVE  LET q == RetryRtpOrFail(r)
             IN  Sound(q) /\ q.target \in {e.target, None}
                 /\ (q.pickupFailed => e.pickupFailed) /\ (q.confirmed => e.confirmed)
    BY <1>1, <1>4, <1>7, RetrySound
<1> DEFINE retry == RetryRtpOrFail(r)
           clear == ClearAction(r)
<1>8. ASSUME r.attempts < MaxBreaks
      PROVE  /\ Sound(clear) /\ clear.target = None
             /\ ~clear.pickupFailed /\ ~clear.confirmed
             /\ Sound(fresh)
    BY <1>1, <1>8, ClearActionSound
<1>9. fresh.target = None
    BY <1>1 DEF ClearAction, Named
<1> HIDE DEF over, fresh, retry, clear
<1>10. LET q == NextAfterPickupFailure(e) IN Sound(q) /\ q.target \in {e.target, None}
    BY <1>2, <1>5, <1>6, <1>7, <1>8, <1>9 DEF retry
<1>11. LET q == NextAfterBreakFailure(e)
       IN  Sound(q) /\ q.target \in {e.target, None}
           /\ (q.pickupFailed => e.pickupFailed) /\ (q.confirmed => e.confirmed)
    BY <1>3, <1>5, <1>6, <1>7, <1>8 DEF retry, clear
<1>12. QED
    BY <1>10, <1>11

\* prepare_next_item_entity_after_pickup_failure(): it gives up only when every
\* item was tried.
LEMMA NextItemSound ==
    ASSUME NEW e, Failing(e), e.prebreak, e.pickup # None
    PROVE  LET q == NextItem(e)
           IN  Sound(q) /\ q.target = e.target /\ (q.terminal => q.items \subseteq q.rejI)
<1> DEFINE items == e.items \ {e.item}
           rejI == e.rejI \cup {e.item}
           r == [e EXCEPT !.rejI = rejI, !.items = items]
           next == SelectItem(r, r.pos)
           done == [e EXCEPT !.terminal = TRUE]
           last == [e EXCEPT !.rejI = rejI, !.items = items, !.item = None, !.terminal = TRUE]
           goes == [e EXCEPT !.rejI = rejI, !.items = items, !.item = next, !.pickup = None,
                             !.pickupFailed = FALSE, !.terminal = FALSE]
<1>1. NextItem(e) = IF e.item = None THEN done ELSE IF next = None THEN last ELSE goes
    BY DEF NextItem, Failing, Named
<1>2. r.items = items /\ r.rejI = rejI /\ r.pos = e.pos
    BY DEF Failing, Named
<1>3. items \subseteq Item /\ (e.item # None => rejI \subseteq Item) /\ e.pos \in Block
    BY DEF Failing, Typed
<1> HIDE DEF r, items, rejI
<1>4. next \in Item \cup {None} /\ (next = None => items \subseteq rejI)
    BY <1>2, <1>3, SelectItemFinds
<1> HIDE DEF next
<1>5. CASE e.item = None
    <2>1. ~(e.attempts >= MaxBreaks) /\ e.items \subseteq e.rejI
        BY <1>5, GameplayAssumption DEF Failing, Typed, ItemsTried
    <2>2. Sound(done) /\ done.target = e.target /\ done.items = e.items /\ done.rejI = e.rejI
        BY <2>1, TerminalSound DEF Failing
    <2> HIDE DEF done
    <2>3. QED
        BY <1>1, <1>5, <2>1, <2>2
<1>6. CASE e.item # None /\ next = None
    <2>1. Named(last)
        BY DEF Failing, Named
    <2>2. Typed(last)
        BY <1>3, <1>6 DEF Failing, Named, Typed
    <2>3. /\ last.failed = e.failed /\ last.probe = e.probe /\ last.target = e.target
          /\ last.breaking = e.breaking /\ last.inventoryProbe = e.inventoryProbe
          /\ last.pickup = e.pickup /\ last.prebreak = e.prebreak
          /\ last.terminal /\ last.attempts = e.attempts
          /\ last.items = items /\ last.rejI = rejI
        BY DEF Failing, Named
    <2>4. e.attempts \in Nat /\ MaxBreaks \in Nat
        BY GameplayAssumption DEF Failing, Typed
    <2> HIDE DEF last
    <2>5. Sound(last)
        BY <1>4, <1>6, <2>1, <2>2, <2>3, <2>4 DEF Failing, Sound, ItemsTried
    <2>6. QED
        BY <1>1, <1>4, <1>6, <2>3, <2>5
<1>7. CASE e.item # None /\ next # None
    <2>1. Named(goes)
        BY DEF Failing, Named
    <2>2. Typed(goes)
        <3>1. next \in Item
            BY <1>4, <1>7
        <3>2. items \subseteq Item /\ rejI \subseteq Item
            BY <1>3, <1>7
        <3> DEFINE q == [e EXCEPT !.rejI = rejI, !.items = items, !.item = next]
        <3>3. Named(q)
            BY DEF Failing, Named
        <3>4. Typed(q)
            BY <3>1, <3>2 DEF Failing, Named, Typed
        <3>5. goes = [q EXCEPT !.pickup = None, !.pickupFailed = FALSE, !.terminal = FALSE]
            BY DEF Failing, Named
        <3> HIDE DEF q, goes
        <3>6. QED
            BY <3>3, <3>4, <3>5 DEF Named, Typed
    <2>3. /\ goes.failed = e.failed /\ goes.probe = e.probe /\ goes.target = e.target
          /\ goes.breaking = e.breaking /\ goes.inventoryProbe = e.inventoryProbe
          /\ goes.pickup = None /\ ~goes.pickupFailed
          /\ ~goes.terminal /\ goes.attempts = e.attempts /\ goes.item = next
        BY DEF Failing, Named
    <2>4. e.attempts \in Nat /\ MaxBreaks \in Nat
        BY GameplayAssumption DEF Failing, Typed
    <2> HIDE DEF goes
    <2>5. Sound(goes)
        BY <1>7, <2>1, <2>2, <2>3, <2>4 DEF Failing, Sound, ItemsTried
    <2>6. QED
        BY <1>1, <1>7, <2>3, <2>5
<1>8. QED
    BY <1>5, <1>6, <1>7

\* send_gameplay_action_probe(): the target is one not given up.
LEMMA ActionProbeDriven ==
    ASSUME NEW s, Sound(s), ~s.probe, s.inventoryProbe, ~s.terminal,
           NEW n \in ActionProbe(s)
    PROVE  Driven(s, n) /\ (n.probe => ~n.confirmed /\ ~n.stop)
<1> DEFINE Begun(b) == [s EXCEPT !.target = b, !.targetRt = s.seen[b],
                                 !.probe = TRUE, !.breaking = TRUE, !.stop = FALSE,
                                 !.confirmed = FALSE, !.breakFailed = FALSE]
           Ended(h) == [s EXCEPT !.terminal = h]
           drop == ~s.held
           near == Nearest(s, drop, 0)
           cand == {b \in {s.candidate} \ {None} :
                      /\ IF drop THEN AllowedDrop(s, b) ELSE Allowed(s, b)
                      /\ Dist[s.pos][b] = 0}
           pick == IF near # {} THEN near
                   ELSE IF cand # {} THEN cand
                   ELSE IF drop THEN {}
                   ELSE IF Fallback(s) # {} THEN Fallback(s)
                   ELSE {b \in Block : Dist[s.pos][b] = 0}
           Chosen(b) == [s EXCEPT !.target = b, !.targetRt = s.seen[b]]
<1>1. s.target = None
    BY DEF Sound
<1>2. EnsureTargets(s) = IF pick # {} THEN {Chosen(b) : b \in pick}
                         ELSE {Ended(s.terminal \/ ~Walkable(s))}
    BY <1>1, Zenon DEF EnsureTargets
<1>3. \A b \in pick : b \in Block /\ (~s.held => AllowedDrop(s, b))
    <2>1. near \subseteq Block /\ (~s.held => \A b \in near : AllowedDrop(s, b))
        BY DEF Nearest, Within
    <2>2. cand \subseteq Block /\ (~s.held => \A b \in cand : AllowedDrop(s, b))
        BY DEF Sound, Typed
    <2>3. Fallback(s) \subseteq Block /\ {b \in Block : Dist[s.pos][b] = 0} \subseteq Block
        BY DEF Fallback
    <2> HIDE DEF near, cand
    <2>4. QED
        BY <2>1, <2>2, <2>3
<1> HIDE DEF pick, near, cand, drop
<1>4. PICK r \in EnsureTargets(s) :
          n = IF r.target = None THEN r
              ELSE [r EXCEPT !.probe = TRUE, !.breaking = TRUE, !.stop = FALSE,
                             !.confirmed = FALSE, !.breakFailed = FALSE]
    BY DEF ActionProbe
<1>5. ASSUME NEW b \in pick
      PROVE  /\ Chosen(b).target = b /\ b # None
             /\ [Chosen(b) EXCEPT !.probe = TRUE, !.breaking = TRUE, !.stop = FALSE,
                                  !.confirmed = FALSE, !.breakFailed = FALSE] = Begun(b)
    <2>1. b # None
        BY <1>3, NamesAssumption
    <2>2. QED
        BY <2>1 DEF Sound, Named
<1>6. ASSUME NEW b \in pick
      PROVE  Driven(s, Begun(b)) /\ (Begun(b).probe => ~Begun(b).confirmed /\ ~Begun(b).stop)
    <2> DEFINE q == Begun(b)
    <2>1. b \in Block /\ b # None /\ s.seen[b] \in Runtime \cup {None}
        BY <1>3, <1>5 DEF Sound, Typed
    <2>2. ~s.held => b \notin s.rejT /\ s.seen[b] \notin s.rejR
        BY <1>3, <2>1, NamesAssumption DEF AllowedDrop, Allowed, Sound, Typed
    <2>3. Named(q)
        BY DEF Sound, Named
    <2>4. Typed(q)
        <3> DEFINE x == Chosen(b)
        <3>1. Named(x)
            BY DEF Sound, Named
        <3>2. Typed(x)
            BY <2>1 DEF Sound, Named, Typed
        <3>3. q = [x EXCEPT !.probe = TRUE, !.breaking = TRUE, !.stop = FALSE,
                            !.confirmed = FALSE, !.breakFailed = FALSE]
            BY <1>5
        <3> HIDE DEF q, x
        <3>4. QED
            BY <3>1, <3>2, <3>3 DEF Named, Typed
    <2>5. /\ q.target = b /\ q.targetRt = s.seen[b] /\ q.probe /\ q.breaking /\ ~q.confirmed
          /\ q.inventoryProbe = s.inventoryProbe /\ q.held = s.held /\ q.failed = s.failed
          /\ q.pickup = s.pickup /\ q.prebreak = s.prebreak /\ q.pickupFailed = s.pickupFailed
          /\ q.terminal = s.terminal /\ q.attempts = s.attempts /\ ~q.stop
          /\ q.item = s.item /\ q.items = s.items /\ q.rejI = s.rejI
        BY DEF Sound, Named
    <2> HIDE DEF q
    <2>6. Sound(q)
        BY <2>1, <2>3, <2>4, <2>5 DEF Sound, ItemsTried
    <2>7. Driven(s, q)
        BY <2>2, <2>5, <2>6 DEF Driven, Sound
    <2>8. QED
        BY <2>5, <2>7 DEF q
<1>7. ASSUME NEW h \in BOOLEAN
      PROVE  Driven(s, Ended(h)) /\ ~Ended(h).probe /\ Ended(h).target = None
    <2> DEFINE q == Ended(h)
    <2>1. Named(q)
        BY DEF Sound, Named
    <2>2. Typed(q)
        BY DEF Sound, Named, Typed
    <2>3. /\ q.target = s.target /\ q.probe = s.probe /\ q.breaking = s.breaking
          /\ q.inventoryProbe = s.inventoryProbe /\ q.failed = s.failed
          /\ q.pickup = s.pickup /\ q.prebreak = s.prebreak /\ q.pickupFailed = s.pickupFailed
          /\ q.attempts = s.attempts /\ q.confirmed = s.confirmed
          /\ q.item = s.item /\ q.items = s.items /\ q.rejI = s.rejI
        BY DEF Sound, Named
    <2> HIDE DEF q
    <2>4. Sound(q)
        BY <2>1, <2>2, <2>3 DEF Sound, ItemsTried
    <2>5. Driven(s, q)
        BY <2>3, <2>4 DEF Driven, Sound
    <2>6. QED
        BY <1>1, <2>3, <2>5 DEF q
<1>8. CASE pick # {}
    <2>1. PICK b \in pick : r = Chosen(b)
        BY <1>2, <1>4, <1>8
    <2>2. n = Begun(b)
        BY <1>4, <1>5, <2>1
    <2>3. QED
        BY <1>6, <2>2
<1>9. CASE pick = {}
    <2> DEFINE h == s.terminal \/ ~Walkable(s)
    <2>1. h \in BOOLEAN
        BY Zenon
    <2>2. r = Ended(h)
        BY <1>2, <1>4, <1>9
    <2> HIDE DEF h
    <2>3. Driven(s, Ended(h)) /\ ~Ended(h).probe /\ Ended(h).target = None
        BY <1>7, <2>1
    <2>4. n = Ended(h)
        BY <1>4, <2>2, <2>3
    <2>5. QED
        BY <2>3, <2>4
<1>10. QED
    BY <1>8, <1>9

\* drive_gameplay_break() of a break under way: a target given up is gone, and
\* no later part of the call finds the break confirmed.
LEMMA DriveBreakDriven ==
    ASSUME NEW s, Sound(s), NEW r \in DriveBreak(s)
    PROVE  Driven(s, r) /\ (r = s \/ ~r.confirmed)
<1> DEFINE stopped == [s EXCEPT !.stop = TRUE]
           e == [s EXCEPT !.breakFailed = TRUE]
<1>1. Driven(s, s)
    BY StaysDriven
<1>2. CASE ~s.probe \/ s.confirmed \/ s.terminal
    BY <1>1, <1>2 DEF DriveBreak
<1>3. CASE s.probe /\ ~s.confirmed /\ ~s.terminal
    <2>1. s.breaking /\ s.target # None /\ ~s.pickupFailed /\ s.attempts < MaxBreaks
        BY <1>3, GameplayAssumption DEF Sound, Typed
    <2>2. r \in {s, stopped, NextAfterBreakFailure(e)}
        BY <1>3, <2>1 DEF DriveBreak
    <2>3. Driven(s, stopped) /\ ~stopped.confirmed
        <3>1. Named(stopped)
            BY DEF Sound, Named
        <3>2. Typed(stopped)
            BY DEF Sound, Named, Typed
        <3>3. Kept(s, stopped) /\ stopped.terminal = s.terminal
              /\ stopped.inventoryProbe = s.inventoryProbe
              /\ stopped.confirmed = s.confirmed
            BY <3>1, <3>2 DEF Sound, Named, Kept, ItemsTried
        <3> HIDE DEF stopped
        <3>4. Sound(stopped)
            BY <1>3, <3>3 DEF Sound, Kept
        <3>5. QED
            BY <1>3, <2>1, <3>3, <3>4 DEF Driven, Kept
    <2>4. Failing(e) /\ e.target = s.target /\ ~e.pickupFailed /\ ~e.confirmed
        <3>1. Typed(e)
            BY DEF Sound, Named, Typed
        <3>2. QED
            BY <1>3, <2>1, <3>1 DEF Sound, Named, Failing, ItemsTried
    <2> HIDE DEF e, stopped
    <2> DEFINE q == NextAfterBreakFailure(e)
    <2>5. Sound(q) /\ q.target \in {s.target, None} /\ ~q.pickupFailed /\ ~q.confirmed
        BY <2>1, <2>4, NextTargetSound
    <2> HIDE DEF q
    <2>6. Driven(s, q)
        BY <2>5 DEF Driven
    <2>7. QED
        BY <1>1, <2>2, <2>3, <2>5, <2>6 DEF q
<1>4. QED
    BY <1>2, <1>3 DEF Sound, Typed

\* drive_gameplay_pickup(), before RTP or after a break that was confirmed.
LEMMA DrivePickupDriven ==
    ASSUME NEW s, Sound(s), s.prebreak \/ (s.probe /\ s.confirmed), NEW q \in DrivePickup(s)
    PROVE  Driven(s, q)
<1> DEFINE pk == IF s.pickup = None THEN "running" ELSE s.pickup
           r == [s EXCEPT !.pickup = pk]
           late == [s EXCEPT !.pickup = pk, !.pickupFailed = TRUE]
<1>1. r = [s EXCEPT !.pickup = IF @ = None THEN "running" ELSE @]
      /\ late = [r EXCEPT !.pickupFailed = TRUE]
    BY DEF Sound, Named
<1>2. pk \in {None, "running", "expired"} /\ pk # None
    BY DEF Sound, Typed, None
<1> HIDE DEF pk
<1>3. Named(r) /\ Named(late)
    BY DEF Sound, Named
<1>4. Typed(r)
    BY <1>2 DEF Sound, Named, Typed
<1>5. Typed(late)
    BY <1>2 DEF Sound, Named, Typed
<1>6. /\ r.target = s.target /\ r.probe = s.probe /\ r.breaking = s.breaking
      /\ r.inventoryProbe = s.inventoryProbe /\ r.failed = s.failed
      /\ r.pickup = pk /\ r.prebreak = s.prebreak /\ r.pickupFailed = s.pickupFailed
      /\ r.attempts = s.attempts /\ r.confirmed = s.confirmed /\ r.held = s.held
      /\ r.item = s.item /\ r.items = s.items /\ r.rejI = s.rejI
      /\ r.terminal = s.terminal /\ r.targetRt = s.targetRt
    BY DEF Sound, Named
<1>7. /\ late.target = s.target /\ late.probe = s.probe /\ late.breaking = s.breaking
      /\ late.inventoryProbe = s.inventoryProbe /\ late.failed = s.failed
      /\ late.pickup = pk /\ late.prebreak = s.prebreak
      /\ late.attempts = s.attempts /\ late.confirmed = s.confirmed
      /\ late.item = s.item /\ late.items = s.items /\ late.rejI = s.rejI
    BY DEF Sound, Named
<1>8. q \in (IF s.terminal THEN {s}
             ELSE IF r.pickup = "running" THEN {r} \cup PickupFrame(r)
             ELSE IF r.held \/ r.pickupFailed THEN {r}
             ELSE IF r.prebreak THEN {NextItem(late)}
             ELSE {NextAfterPickupFailure(late)})
    BY <1>1 DEF DrivePickup
<1> HIDE DEF r, late
<1>9. Sound(r)
    BY <1>2, <1>3, <1>4, <1>6 DEF Sound, ItemsTried
<1>10. Driven(s, s)
    BY StaysDriven
<1>11. ASSUME ~s.terminal
       PROVE  Driven(s, r)
    BY <1>6, <1>9, <1>11 DEF Driven
<1>12. ASSUME ~s.terminal, NEW p \in Block
       PROVE  Driven(s, [r EXCEPT !.pos = p])
    <2> DEFINE x == [r EXCEPT !.pos = p]
    <2>1. Typed(x)
        BY <1>3, <1>4 DEF Named, Typed
    <2>2. Kept(r, x) /\ x.terminal = r.terminal /\ x.inventoryProbe = r.inventoryProbe
          /\ x.confirmed = r.confirmed
        BY <1>3, <2>1 DEF Named, Kept, ItemsTried
    <2> HIDE DEF x
    <2>3. Sound(x)
        BY <1>9, <2>2 DEF Sound, Kept
    <2>4. Driven(s, x)
        BY <1>6, <1>12, <2>2, <2>3 DEF Driven, Kept
    <2>5. QED
        BY <2>4 DEF x
<1>13. PickupPosition(r) \subseteq Block
    BY <1>4, GameplayAssumption DEF PickupPosition, Typed
<1>14. ASSUME ~s.terminal, NEW x \in {r} \cup PickupFrame(r)
       PROVE  Driven(s, x)
    BY <1>11, <1>12, <1>13, <1>14 DEF PickupFrame
<1>15. ASSUME ~s.terminal
       PROVE  Failing(late)
    BY <1>3, <1>5, <1>7, <1>15, GameplayAssumption DEF Sound, Typed, Failing, ItemsTried
<1>16. ASSUME ~s.terminal, r.prebreak
       PROVE  Driven(s, NextItem(late))
    <2> DEFINE x == NextItem(late)
    <2>1. Sound(x) /\ x.target = s.target /\ (x.terminal => x.items \subseteq x.rejI)
        BY <1>2, <1>6, <1>7, <1>15, <1>16, NextItemSound
    <2> HIDE DEF x
    <2>2. Driven(s, x)
        BY <2>1 DEF Driven
    <2>3. QED
        BY <2>2 DEF x
<1>17. ASSUME ~s.terminal, ~r.prebreak
       PROVE  Driven(s, NextAfterPickupFailure(late))
    <2> DEFINE x == NextAfterPickupFailure(late)
    <2>1. s.target # None
        BY <1>6, <1>17 DEF Sound
    <2>2. Sound(x) /\ x.target \in {s.target, None}
        BY <1>2, <1>7, <1>15, <1>17, <2>1, NextTargetSound
    <2> HIDE DEF x
    <2>3. Driven(s, x)
        BY <1>6, <1>17, <2>2 DEF Driven
    <2>4. QED
        BY <2>3 DEF x
<1>18. QED
    BY <1>8, <1>10, <1>11, <1>14, <1>16, <1>17

\* send_place_action_probe() with a target at hand, which readiness implies:
\* it never fails and only notes that it was sent.
LEMMA PlaceProbeSame ==
    ASSUME NEW q, Sound(q), ReadyForPlace(q), NEW w \in PlaceProbe(Equip(q))
    PROVE  Same(q, w)
<1> DEFINE Placed(h) == [q EXCEPT !.equipped = h, !.placeSent = TRUE]
           h0 == q.equipped \/ q.held
           e == Equip(q)
<1>1. e = [q EXCEPT !.equipped = h0]
    BY DEF Equip, Sound, Named
<1>2. h0 \in BOOLEAN
    BY Zenon
<1> HIDE DEF h0, e
<1>3. e.target = q.target /\ q.target # None
    BY <1>1 DEF ReadyForPlace, Sound, Named
<1>4. EnsureTargets(e) = {e}
    BY <1>3, Zenon DEF EnsureTargets
<1>5. w = [e EXCEPT !.placeSent = TRUE]
    BY <1>3, <1>4 DEF PlaceProbe, e
<1>6. w = Placed(h0)
    BY <1>1, <1>5 DEF Sound, Named
<1>7. ASSUME NEW h \in BOOLEAN
      PROVE  Same(q, Placed(h))
    <2> DEFINE r == Placed(h)
    <2>1. Typed(r)
        BY DEF Sound, Named, Typed
    <2>2. Kept(q, r) /\ r.terminal = q.terminal /\ r.inventoryProbe = q.inventoryProbe
          /\ r.confirmed = q.confirmed /\ r.held = q.held /\ r.targetRt = q.targetRt
          /\ r.items = q.items /\ r.rejI = q.rejI
        BY <2>1 DEF Sound, Named, Kept, ItemsTried
    <2> HIDE DEF r
    <2>3. Same(q, r)
        BY <2>2 DEF Sound, Kept, Same
    <2>4. QED
        BY <2>3 DEF r
<1>8. QED
    BY <1>2, <1>6, <1>7

\* The break, the pick-up and the placing, one after the other.
LEMMA ActDriven ==
    ASSUME NEW s, Sound(s), NEW w \in Act(s)
    PROVE  Driven(s, w)
<1>1. PICK r \in DriveBreak(s) :
          w \in UNION {IF ReadyForPlace(q) THEN PlaceProbe(Equip(q)) ELSE {q} :
                         q \in IF ReadyForPickup(r) THEN DrivePickup(r) ELSE {r}}
    BY DEF Act
<1>2. PICK q \in IF ReadyForPickup(r) THEN DrivePickup(r) ELSE {r} :
          w \in IF ReadyForPlace(q) THEN PlaceProbe(Equip(q)) ELSE {q}
    BY <1>1
<1>3. Driven(s, r) /\ (r = s \/ ~r.confirmed)
    BY DriveBreakDriven
<1>4. Driven(s, q)
    <2>1. CASE ReadyForPickup(r)
        <3>1. r = s /\ s.probe /\ s.confirmed
            BY <1>3, <2>1 DEF ReadyForPickup
        <3>2. QED
            BY <1>2, <2>1, <3>1, DrivePickupDriven
    <2>2. CASE ~ReadyForPickup(r)
        BY <1>2, <1>3, <2>2
    <2>3. QED
        BY <2>1, <2>2
<1>5. CASE ReadyForPlace(q)
    BY <1>2, <1>4, <1>5, PlaceProbeSame, DrivenSame DEF Driven
<1>6. CASE ~ReadyForPlace(q)
    BY <1>2, <1>4, <1>6
<1>7. QED
    BY <1>5, <1>6

\* After a break has just begun, or none could be, the rest of the call at most
\* stops it and places.
LEMMA BegunActDriven ==
    ASSUME NEW s, NEW n, Driven(s, n), n.probe => ~n.confirmed /\ ~n.stop, NEW w \in Act(n)
    PROVE  Driven(s, w)
<1> DEFINE stopped == [n EXCEPT !.stop = TRUE]
<1>1. Sound(n)
    BY DEF Driven
<1>2. PICK r \in DriveBreak(n) :
          w \in UNION {IF ReadyForPlace(q) THEN PlaceProbe(Equip(q)) ELSE {q} :
                         q \in IF ReadyForPickup(r) THEN DrivePickup(r) ELSE {r}}
    BY DEF Act
<1>3. r = n \/ (r = stopped /\ n.probe)
    <2>1. CASE ~n.probe
        <3>1. DriveBreak(n) = {n}
            BY <2>1 DEF DriveBreak
        <3>2. QED
            BY <1>2, <3>1
    <2>2. CASE n.probe
        <3>1. n.breaking /\ n.target # None /\ ~n.stop
            BY <1>1, <2>2 DEF Sound
        <3>2. r \in {n, stopped}
            <4>1. DriveBreak(n) \subseteq {n, stopped}
                BY <3>1 DEF DriveBreak
            <4>2. QED
                BY <1>2, <4>1
        <3>3. QED
            BY <2>2, <3>2
    <2>3. QED
        BY <2>1, <2>2
<1>4. Same(n, n)
    BY <1>1 DEF Same
<1>5. Same(n, stopped) /\ stopped.probe = n.probe /\ stopped.confirmed = n.confirmed
    <2>1. Typed(stopped)
        BY <1>1 DEF Sound, Named, Typed
    <2>2. Kept(n, stopped) /\ stopped.terminal = n.terminal
          /\ stopped.inventoryProbe = n.inventoryProbe /\ stopped.probe = n.probe
          /\ stopped.confirmed = n.confirmed /\ stopped.held = n.held
          /\ stopped.targetRt = n.targetRt /\ stopped.items = n.items /\ stopped.rejI = n.rejI
        BY <1>1, <2>1 DEF Sound, Named, Kept, ItemsTried
    <2> HIDE DEF stopped
    <2>3. QED
        BY <1>1, <2>2 DEF Sound, Kept, Same
<1>6. Same(n, r) /\ ~ReadyForPickup(r)
    BY <1>3, <1>4, <1>5 DEF ReadyForPickup
<1>7. w \in IF ReadyForPlace(r) THEN PlaceProbe(Equip(r)) ELSE {r}
    BY <1>2, <1>6
<1>8. Driven(s, r) /\ Sound(r)
    BY <1>6, DrivenSame DEF Same
<1>9. CASE ReadyForPlace(r)
    BY <1>7, <1>8, <1>9, PlaceProbeSame, DrivenSame
<1>10. CASE ~ReadyForPlace(r)
    BY <1>7, <1>8, <1>10
<1>11. QED
    BY <1>9, <1>10

-----------------------------------------------------------------------------
(* The way there: random teleport and walking. *)

\* No part of the way touches the action; failures are only added.
Travelled(s, r) ==
    /\ Kept(s, r)
    /\ s.terminal => r.terminal
    /\ s.inventoryProbe => r.inventoryProbe

LEMMA TravelledDriven ==
    ASSUME NEW s, NEW r, Sound(s), Travelled(s, r)
    PROVE  Driven(s, r)
<1>1. Sound(r)
    BY DEF Sound, Travelled, Kept
<1>2. QED
    BY <1>1 DEF Driven, Sound, Travelled, Kept

LEMMA TravelledTwice ==
    ASSUME NEW s, NEW q, NEW r, Travelled(s, q), Travelled(q, r)
    PROVE  Travelled(s, r)
BY DEF Travelled, Kept

LEMMA TravelParts ==
    ASSUME NEW s, Sound(s)
    PROVE  /\ Travelled(s, s) /\ Travelled(s, InventoryProbe(s)) /\ Travelled(s, NextFrame(s))
           /\ s.commands < MaxCommands => Travelled(s, SendCommand(s))
           /\ CanClick(s) => Travelled(s, Click(s))
           /\ \A h \in BOOLEAN : Travelled(s, [s EXCEPT !.waitDone = h])
           /\ \A p \in Block : /\ Travelled(s, MoveTo(s, p))
                             /\ Travelled(s, [s EXCEPT !.pos = p])
           /\ ~s.probe => \A p \in Block : Travelled(s, ForgetItems(AcceptHint(s, p)))
           /\ \A h \in BOOLEAN : (s.terminal => h) =>
                  Travelled(s, [s EXCEPT !.terrainFailed = TRUE, !.terminal = h])
<1>1. Travelled(s, s)
    BY DEF Travelled, Kept, Sound
<1>2. Travelled(s, InventoryProbe(s))
    <2>1. Typed(InventoryProbe(s))
        BY DEF Sound, Named, Typed, InventoryProbe
    <2>2. QED
        BY <2>1 DEF Sound, Named, Kept, ItemsTried, Travelled, InventoryProbe
<1>3. Travelled(s, NextFrame(s))
    <2>1. Typed(NextFrame(s))
        BY DEF Sound, Named, Typed, NextFrame
    <2>2. QED
        BY <2>1 DEF Sound, Named, Kept, ItemsTried, Travelled, NextFrame
<1>4. ASSUME s.commands < MaxCommands
      PROVE  Travelled(s, SendCommand(s))
    <2> DEFINE k == s.commands + 1
    <2>1. k \in 0 .. MaxCommands
        BY <1>4, GameplayAssumption DEF Sound, Typed
    <2>2. SendCommand(s) = [s EXCEPT !.cmdSent = TRUE, !.commands = k]
        BY DEF SendCommand, Sound, Named
    <2> HIDE DEF k
    <2>3. Typed(SendCommand(s))
        BY <2>1, <2>2 DEF Sound, Named, Typed
    <2>4. QED
        BY <2>2, <2>3 DEF Sound, Named, Kept, ItemsTried, Travelled
<1>5. ASSUME CanClick(s)
      PROVE  Travelled(s, Click(s))
    <2> DEFINE k == s.clicks + 1
    <2>1. k \in 0 .. MaxClicks
        BY <1>5, GameplayAssumption DEF Sound, Typed, CanClick
    <2>2. Click(s) = [s EXCEPT !.clicked = TRUE, !.clicks = k]
        BY DEF Click, Sound, Named
    <2> HIDE DEF k
    <2>3. Typed(Click(s))
        BY <2>1, <2>2 DEF Sound, Named, Typed
    <2>4. QED
        BY <2>2, <2>3 DEF Sound, Named, Kept, ItemsTried, Travelled
<1>6. ASSUME NEW h \in BOOLEAN
      PROVE  Travelled(s, [s EXCEPT !.waitDone = h])
    <2>1. Typed([s EXCEPT !.waitDone = h])
        BY DEF Sound, Named, Typed
    <2>2. QED
        BY <2>1 DEF Sound, Named, Kept, ItemsTried, Travelled
<1>7. ASSUME NEW p \in Block
      PROVE  Travelled(s, MoveTo(s, p))
    <2>1. Kept(s, MoveTo(s, p))
        BY NotedHeard DEF Heard
    <2>2. MoveTo(s, p).terminal = s.terminal /\ MoveTo(s, p).inventoryProbe = s.inventoryProbe
        BY DEF MoveTo, Sound, Named
    <2>3. QED
        BY <2>1, <2>2 DEF Travelled
<1>8. ASSUME NEW p \in Block
      PROVE  Travelled(s, [s EXCEPT !.pos = p])
    <2>1. Typed([s EXCEPT !.pos = p])
        BY DEF Sound, Named, Typed
    <2>2. QED
        BY <2>1 DEF Sound, Named, Kept, ItemsTried, Travelled
<1>9. ASSUME ~s.probe, NEW p \in Block
      PROVE  Travelled(s, ForgetItems(AcceptHint(s, p)))
    <2> DEFINE q == AcceptHint(s, p)
               r == ForgetItems(q)
    <2>1. Heard(s, q) /\ Sound(q)
        BY <1>9, AcceptHintHeard, HeardKeeps
    <2>2. q.terminal = s.terminal /\ q.inventoryProbe = s.inventoryProbe
        BY DEF AcceptHint, MoveTo, Sound, Named
    <2> HIDE DEF q
    <2>3. Heard(q, r)
        BY <2>1, NotedHeard
    <2>4. r.terminal = q.terminal /\ r.inventoryProbe = q.inventoryProbe
        BY <2>1 DEF ForgetItems, Sound, Named
    <2> HIDE DEF r
    <2>5. Travelled(s, q) /\ Travelled(q, r)
        BY <2>1, <2>2, <2>3, <2>4 DEF Travelled, Heard
    <2>6. QED
        BY <2>5, TravelledTwice DEF q, r
<1>10. ASSUME NEW h \in BOOLEAN, s.terminal => h
       PROVE  Travelled(s, [s EXCEPT !.terrainFailed = TRUE, !.terminal = h])
    <2>1. Typed([s EXCEPT !.terrainFailed = TRUE, !.terminal = h])
        BY DEF Sound, Named, Typed
    <2>2. QED
        BY <1>10, <2>1 DEF Sound, Named, Kept, ItemsTried, Travelled
<1>11. QED
    BY <1>1, <1>2, <1>3, <1>4, <1>5, <1>6, <1>7, <1>8, <1>9, <1>10

LEMMA AdoptTerrainTravels ==
    ASSUME NEW s, Sound(s), ~s.probe, NEW r \in AdoptTerrain(s)
    PROVE  Travelled(s, r)
<1> DEFINE drop == ~s.held
           cand == {b \in {s.candidate} \ {None} :
                      IF drop THEN AllowedDrop(s, b) ELSE Allowed(s, b)}
           pick == IF cand # {} THEN cand ELSE Within(s, drop, 4)
<1>1. pick \subseteq Block
    BY DEF Sound, Typed, Within
<1>2. AdoptTerrain(s) \subseteq {s} \cup {ForgetItems(AcceptHint(s, b)) : b \in pick}
    BY DEF AdoptTerrain
<1> HIDE DEF pick
<1>3. Travelled(s, s) /\ \A p \in Block : Travelled(s, ForgetItems(AcceptHint(s, p)))
    BY TravelParts
<1>4. QED
    BY <1>1, <1>2, <1>3

LEMMA RtpWaitTravels ==
    ASSUME NEW s, Sound(s), ~s.probe, NEW r \in RtpWaitExpired(s)
    PROVE  Travelled(s, r)
<1> DEFINE Here(q) == IF q.serverPos = None THEN q ELSE MoveTo(q, q.serverPos)
           Arrived(q) == InventoryProbe([Here(q) EXCEPT !.waitDone = TRUE])
           Lost(q) == [q EXCEPT !.terrainFailed = TRUE, !.terminal = @ \/ ~q.terrainFailed]
           After(q) == IF q.marker /\ ~q.terrain THEN {q, Lost(q)} ELSE {Arrived(q)}
           from == IF ~s.hint /\ s.placeholder THEN AdoptTerrain(s) ELSE {s}
<1>1. \/ r = SendCommand(s) /\ s.commands \in 1 .. MaxCommands - 1
      \/ \E q \in from : r \in After(q)
    BY DEF RtpWaitExpired
<1>2. CASE r = SendCommand(s) /\ s.commands \in 1 .. MaxCommands - 1
    <2>1. s.commands < MaxCommands
        BY <1>2, GameplayAssumption
    <2>2. QED
        BY <1>2, <2>1, TravelParts
<1>3. ASSUME NEW q \in from
      PROVE  Travelled(s, q) /\ Sound(q)
    <2>1. Travelled(s, q)
        BY <1>3, AdoptTerrainTravels, TravelParts
    <2>2. QED
        BY <2>1, TravelledDriven DEF Driven
<1>4. ASSUME NEW q, Sound(q)
      PROVE  Travelled(q, Arrived(q))
    <2> DEFINE h == Here(q)
               w == [h EXCEPT !.waitDone = TRUE]
    <2>1. Travelled(q, h) /\ Sound(h)
        <3>1. q.serverPos = None \/ q.serverPos \in Block
            BY <1>4 DEF Sound, Typed
        <3>2. Travelled(q, h)
            BY <1>4, <3>1, TravelParts
        <3> HIDE DEF h
        <3>3. Sound(h)
            BY <1>4, <3>2, TravelledDriven DEF Driven
        <3>4. QED
            BY <3>2, <3>3
    <2> HIDE DEF h
    <2>2. Travelled(h, w)
        BY <2>1, TravelParts
    <2> HIDE DEF w
    <2>3. Sound(w)
        BY <2>1, <2>2, TravelledDriven DEF Driven
    <2>4. Travelled(w, InventoryProbe(w))
        BY <2>3, TravelParts
    <2>5. Travelled(q, InventoryProbe(w))
        BY <2>1, <2>2, <2>4, TravelledTwice
    <2>6. QED
        BY <2>5 DEF h, w
<1>5. ASSUME NEW q, Sound(q)
      PROVE  Travelled(q, Lost(q))
    <2> DEFINE h == q.terminal \/ ~q.terrainFailed
    <2>1. h \in BOOLEAN /\ (q.terminal => h)
        BY Zenon
    <2>2. Lost(q) = [q EXCEPT !.terrainFailed = TRUE, !.terminal = h]
        BY <1>5 DEF Sound, Named
    <2> HIDE DEF h
    <2>3. Travelled(q, [q EXCEPT !.terrainFailed = TRUE, !.terminal = h])
        BY <1>5, <2>1, TravelParts
    <2>4. QED
        BY <2>2, <2>3
<1> HIDE DEF Arrived, Lost
<1>6. ASSUME NEW q, Sound(q), NEW x \in After(q)
      PROVE  Travelled(q, x)
    BY <1>4, <1>5, <1>6, TravelParts
<1> HIDE DEF After, from
<1>7. CASE \E q \in from : r \in After(q)
    BY <1>3, <1>6, <1>7, TravelledTwice
<1>8. QED
    BY <1>1, <1>2, <1>7

LEMMA DriveRtpTravels ==
    ASSUME NEW s, Sound(s), ~s.probe, NEW r \in DriveRtp(s)
    PROVE  Travelled(s, r)
<1> DEFINE skip == Approachable(s)
           h == s.waitDone \/ skip
           q == [s EXCEPT !.waitDone = h]
<1>1. h \in BOOLEAN
    BY Zenon
<1>2. r \in (IF ~q.cmdSent /\ ~skip /\ q.commands < MaxCommands THEN {SendCommand(q)}
             ELSE IF ~q.cmdSent \/ q.waitDone THEN {InventoryProbe(q)}
             ELSE IF CanClick(q) THEN {q, Click(q)}
             ELSE {q} \cup RtpWaitExpired(q))
    <2>1. q = [s EXCEPT !.waitDone = @ \/ skip]
        BY DEF Sound, Named
    <2> HIDE DEF q, h, skip
    <2>2. QED
        BY <2>1 DEF DriveRtp, skip
<1> HIDE DEF h, skip
<1>3. Travelled(s, q)
    BY <1>1, TravelParts
<1>4. Sound(q) /\ ~q.probe
    <2>1. Sound(q)
        BY <1>3, TravelledDriven DEF Driven
    <2>2. QED
        BY <1>3, <2>1 DEF Travelled, Kept
<1> HIDE DEF q
<1>5. Travelled(q, r)
    BY <1>2, <1>4, TravelParts, RtpWaitTravels
<1>6. QED
    BY <1>3, <1>5, TravelledTwice

-----------------------------------------------------------------------------
(* The whole call and the steps of the specification. *)

LEMMA ReportLeads ==
    ASSUME NEW s, Sound(s)
    PROVE  LET r == IF s.reported THEN s
                    ELSE [s EXCEPT !.reported = TRUE, !.movementOk = ~s.corrected]
           IN  Leads(s, r) /\ Driven(s, r)
<1> DEFINE Reported(h) == [s EXCEPT !.reported = TRUE, !.movementOk = h]
           h0 == ~s.corrected
<1>1. h0 \in BOOLEAN
    BY Zenon
<1> HIDE DEF h0
<1>2. ASSUME NEW h \in BOOLEAN
      PROVE  Leads(s, Reported(h)) /\ Driven(s, Reported(h))
    <2> DEFINE r == Reported(h)
    <2>1. Typed(r)
        BY DEF Sound, Named, Typed
    <2>2. Travelled(s, r) /\ (r.terminal <=> s.terminal)
        BY <2>1 DEF Sound, Named, Kept, ItemsTried, Travelled
    <2> HIDE DEF r
    <2>3. Driven(s, r)
        BY <2>2, TravelledDriven
    <2>4. Leads(s, r)
        BY <2>2, <2>3 DEF Leads, Driven, Travelled, Kept
    <2>5. QED
        BY <2>3, <2>4 DEF r
<1>3. Leads(s, s) /\ Driven(s, s)
    BY StaysDriven DEF Leads
<1>4. Leads(s, Reported(h0)) /\ Driven(s, Reported(h0))
    BY <1>1, <1>2
<1>5. QED
    BY <1>3, <1>4 DEF h0

\* The pick-up before RTP begins.
LEMMA PrebreakLeads ==
    ASSUME NEW s, Sound(s), ReadyForPrebreak(s)
    PROVE  LET r == [s EXCEPT !.waitDone = TRUE, !.inventoryProbe = TRUE, !.prebreak = TRUE]
           IN  Leads(s, r) /\ r.prebreak
<1> DEFINE r == [s EXCEPT !.waitDone = TRUE, !.inventoryProbe = TRUE, !.prebreak = TRUE]
<1>1. Named(r)
    BY DEF Sound, Named
<1>2. Typed(r)
    BY DEF Sound, Named, Typed
<1>3. /\ r.target = s.target /\ r.probe = s.probe /\ r.breaking = s.breaking
      /\ r.failed = s.failed /\ r.pickup = s.pickup /\ r.prebreak
      /\ r.pickupFailed = s.pickupFailed /\ r.inventoryProbe /\ r.terminal = s.terminal
      /\ r.attempts = s.attempts /\ r.rejT = s.rejT /\ r.rejR = s.rejR
      /\ r.item = s.item /\ r.items = s.items /\ r.rejI = s.rejI
    BY DEF Sound, Named
<1> HIDE DEF r
<1>4. Sound(r)
    BY <1>1, <1>2, <1>3 DEF Sound, ItemsTried
<1>5. QED
    BY <1>3, <1>4 DEF Leads, r

LEMMA DriveDriven ==
    ASSUME NEW s, Sound(s), NEW r \in Drive(s)
    PROVE  Driven(s, r)
<1> DEFINE q == IF s.reported THEN s
                ELSE [s EXCEPT !.reported = TRUE, !.movementOk = ~s.corrected]
           pre == [q EXCEPT !.waitDone = TRUE, !.inventoryProbe = TRUE, !.prebreak = TRUE]
           chat == [q EXCEPT !.chatProbe = TRUE]
           Stage(x) == x \in (IF ~q.movementOk THEN {q}
                              ELSE IF ReadyForPrebreak(q) THEN DrivePickup(pre)
                              ELSE IF ~q.inventoryProbe THEN DriveRtp(q)
                              ELSE IF ~q.chatProbe THEN {chat}
                              ELSE IF q.probe \/ q.terminal THEN Act(q)
                              ELSE IF ~Sampled(q) /\ Walkable(q) THEN Approach(q)
                              ELSE UNION {Act(n) : n \in ActionProbe(q)})
<1>1. IF ~s.completed THEN r \in {s, NextFrame(s)} ELSE Stage(r)
    BY DEF Drive
<1>2. Leads(s, q) /\ Driven(s, q)
    BY ReportLeads
<1>3. Sound(q)
    BY <1>2 DEF Leads
<1> HIDE DEF q
<1>4. CASE ~s.completed
    BY <1>1, <1>4, TravelParts, TravelledDriven
<1>5. CASE Stage(r)
    <2>1. CASE ~q.movementOk
        BY <1>2, <1>5, <2>1
    <2>2. CASE q.movementOk /\ ReadyForPrebreak(q)
        <3>1. Leads(q, pre) /\ pre.prebreak
            BY <1>3, <2>2, PrebreakLeads
        <3> HIDE DEF pre
        <3>2. Driven(pre, r)
            BY <1>5, <2>2, <3>1, DrivePickupDriven DEF Leads
        <3>3. QED
            BY <1>2, <3>1, <3>2, LeadsDriven
    <2>3. CASE q.movementOk /\ ~ReadyForPrebreak(q) /\ ~q.inventoryProbe
        <3>1. ~q.probe
            BY <1>3, <2>3 DEF Sound
        <3>2. Travelled(q, r)
            BY <1>3, <1>5, <2>3, <3>1, DriveRtpTravels
        <3>3. QED
            BY <1>2, <1>3, <3>2, TravelledDriven, LeadsDriven
    <2> DEFINE late == q.movementOk /\ ~ReadyForPrebreak(q) /\ q.inventoryProbe
    <2>4. CASE late /\ ~q.chatProbe
        <3>1. Typed(chat)
            BY <1>3 DEF Sound, Named, Typed
        <3>2. Travelled(q, chat)
            BY <1>3, <3>1 DEF Sound, Named, Kept, ItemsTried, Travelled
        <3> HIDE DEF chat
        <3>3. r = chat
            BY <1>5, <2>4
        <3>4. QED
            BY <1>2, <1>3, <3>2, <3>3, TravelledDriven, LeadsDriven
    <2>5. CASE late /\ q.chatProbe /\ (q.probe \/ q.terminal)
        <3>1. r \in Act(q)
            BY <1>5, <2>5
        <3>2. QED
            BY <1>2, <1>3, <3>1, ActDriven, LeadsDriven
    <2>6. CASE late /\ q.chatProbe /\ ~(q.probe \/ q.terminal) /\ ~Sampled(q) /\ Walkable(q)
        <3>1. r \in Approach(q)
            BY <1>5, <2>6
        <3>2. r = q \/ \E b \in Block : r = [q EXCEPT !.pos = b]
            BY <3>1 DEF Approach, ApproachFrame, Nearest, Within
        <3>3. Travelled(q, r)
            BY <1>3, <3>2, TravelParts
        <3>4. QED
            BY <1>2, <1>3, <3>3, TravelledDriven, LeadsDriven
    <2>7. CASE late /\ q.chatProbe /\ ~(q.probe \/ q.terminal) /\ ~(~Sampled(q) /\ Walkable(q))
        <3>1. PICK n \in ActionProbe(q) : r \in Act(n)
            BY <1>5, <2>7
        <3>2. Driven(q, n) /\ (n.probe => ~n.confirmed /\ ~n.stop)
            BY <1>3, <2>7, ActionProbeDriven
        <3>3. Driven(q, r)
            BY <3>1, <3>2, BegunActDriven
        <3>4. QED
            BY <1>2, <3>3, LeadsDriven
    <2> HIDE DEF Stage, late
    <2>8. QED
        BY <2>1, <2>2, <2>3, <2>4, <2>5, <2>6, <2>7 DEF late
<1>6. QED
    BY <1>1, <1>4, <1>5

\* Ten seconds of movement, or eight of a pick-up, are over.
LEMMA ElapseDriven ==
    ASSUME Sound(m), Elapse
    PROVE  Driven(m, m')
<1> DEFINE moved == [m EXCEPT !.completed = TRUE]
           late == [m EXCEPT !.pickup = "expired"]
<1>1. m' = moved \/ (m' = late /\ m.pickup = "running")
    BY DEF Elapse
<1>2. Driven(m, moved)
    <2>1. Typed(moved)
        BY DEF Sound, Named, Typed
    <2>2. Travelled(m, moved)
        BY <2>1 DEF Sound, Named, Kept, ItemsTried, Travelled
    <2>3. QED
        BY <2>2, TravelledDriven
<1>3. ASSUME m.pickup = "running"
      PROVE  Driven(m, late)
    <2>1. Named(late)
        BY DEF Sound, Named
    <2>2. Typed(late)
        BY DEF Sound, Named, Typed
    <2>3. /\ late.target = m.target /\ late.probe = m.probe /\ late.breaking = m.breaking
          /\ late.inventoryProbe = m.inventoryProbe /\ late.failed = m.failed
          /\ late.pickup = "expired" /\ late.prebreak = m.prebreak
          /\ late.pickupFailed = m.pickupFailed /\ late.terminal = m.terminal
          /\ late.attempts = m.attempts /\ late.confirmed = m.confirmed
          /\ late.item = m.item /\ late.items = m.items /\ late.rejI = m.rejI
        BY DEF Sound, Named
    <2>4. m.pickup # None /\ "expired" # None
        BY <1>3 DEF None
    <2> HIDE DEF late
    <2>5. Sound(late)
        BY <2>1, <2>2, <2>3, <2>4 DEF Sound, ItemsTried
    <2>6. QED
        BY <2>3, <2>5 DEF Driven
<1>4. QED
    BY <1>1, <1>2, <1>3

\* Every step does what Driven allows.
LEMMA StepDriven ==
    ASSUME Sound(m), [GameplayNext]_gvars
    PROVE  Driven(m, m')
<1>1. CASE Receive
    <2>1. Heard(m, m')
        BY <1>1, ReceiveHeard
    <2>2. Sound(m')
        BY <2>1, HeardKeeps
    <2>3. QED
        BY <2>1, <2>2 DEF Driven, Sound, Heard, Kept
<1>2. CASE DriveMovementValidation
    BY <1>2, DriveDriven DEF DriveMovementValidation
<1>3. CASE Elapse
    BY <1>3, ElapseDriven
<1>4. CASE UNCHANGED gvars
    <2>1. m' = m
        BY <1>4 DEF gvars
    <2>2. QED
        BY <2>1, StaysDriven
<1>5. QED
    BY <1>1, <1>2, <1>3, <1>4 DEF GameplayNext

GameplayInv == Sound(m) /\ due \in BOOLEAN /\ inputs \in 0 .. MaxInputs

LEMMA NewSound == Sound(New)
<1>1. Named(New)
    BY DEF Named, New
<1>2. Typed(New)
    <2> DEFINE none == [b \in Block |-> None]
    <2>1. none \in [Block -> Runtime \cup {None}]
        OBVIOUS
    <2>2. NoMenu \in MenuItem
        BY GameplayAssumption DEF NoMenu, MenuItem
    <2>3. New.seen = none /\ New.menu = NoMenu
        BY DEF New
    <2> HIDE DEF none
    <2>4. QED
        BY <2>1, <2>2, <2>3, GameplayAssumption DEF Typed, New
<1>3. /\ ~New.failed /\ ~New.probe /\ New.target = None /\ ~New.breaking
      /\ New.pickup = None /\ ~New.pickupFailed /\ New.attempts = 0 /\ New.items = {}
    BY DEF New
<1>4. QED
    BY <1>1, <1>2, <1>3, GameplayAssumption DEF Sound, ItemsTried

LEMMA GameplayInvariance == GameplaySpec => []GameplayInv
<1>1. GameplayInit => GameplayInv
    <2> SUFFICES ASSUME GameplayInit
                 PROVE  GameplayInv
        OBVIOUS
    <2>1. Sound(m)
        BY NewSound, Zenon DEF GameplayInit
    <2>2. due \in BOOLEAN
        BY Zenon DEF GameplayInit
    <2>3. inputs \in 0 .. MaxInputs
        <3>1. inputs = 0
            BY Zenon DEF GameplayInit
        <3>2. QED
            BY <3>1, GameplayAssumption
    <2>4. QED
        BY <2>1, <2>2, <2>3 DEF GameplayInv
<1>2. GameplayInv /\ [GameplayNext]_gvars => GameplayInv'
    <2> SUFFICES ASSUME GameplayInv, [GameplayNext]_gvars
                 PROVE  GameplayInv'
        OBVIOUS
    <2>1. Sound(m')
        BY StepDriven DEF GameplayInv, Driven
    <2>2. due' \in BOOLEAN
        BY Zenon DEF GameplayInv, GameplayNext, Receive, DriveMovementValidation, Elapse, gvars
    <2>3. inputs' = inputs \/ (inputs < MaxInputs /\ inputs' = inputs + 1)
        BY Zenon DEF GameplayNext, Receive, DriveMovementValidation, Elapse, gvars
    <2>4. inputs' \in 0 .. MaxInputs
        BY <2>3, GameplayAssumption DEF GameplayInv
    <2>5. QED
        BY <2>1, <2>2, <2>4 DEF GameplayInv
<1>3. QED
    BY <1>1, <1>2, PTL DEF GameplaySpec

\* Whatever the server reports and however the retries run, every flag, target
\* and cache of MovementValidation keeps its range, and no more teleports are
\* asked for and no more targets tried than the limits allow.
THEOREM GameplayTypeCorrect == GameplaySpec => []GameplayTypeOK
<1>1. GameplayInv => GameplayTypeOK
    <2> SUFFICES ASSUME GameplayInv
                 PROVE  GameplayTypeOK
        OBVIOUS
    <2>1. Typed(m) /\ due \in BOOLEAN /\ inputs \in 0 .. MaxInputs
        BY DEF GameplayInv, Sound
    <2>2. \A f \in {"equipped", "completed", "reported", "frames", "corrected", "movementOk",
                    "chatProbe", "placeholder", "held", "inventoryProbe",
                    "cmdSent", "clicked", "hint", "marker", "terrain",
                    "terrainFailed", "waitDone", "probe", "breaking", "stop",
                    "confirmed", "breakFailed", "placeSent", "prebreak",
                    "pickupFailed", "terminal", "breakingOk", "placingOk",
                    "failed"} : m[f] \in BOOLEAN
        BY <2>1 DEF Typed
    <2>3. {m.target, m.candidate} \subseteq Block \cup {None} /\ m.items \cup m.rejI \subseteq Item
        BY <2>1 DEF Typed
    <2>4. QED
        BY <2>1, <2>2, <2>3, Zenon DEF Typed, GameplayTypeOK
<1>2. QED
    BY <1>1, GameplayInvariance, PTL

\* While a probe is under way there is a target: the errors that would end the
\* session over a missing one are never raised.
THEOREM ProbesHaveTargets == GameplaySpec => []ProbeHasTarget
<1>1. GameplayInv => ProbeHasTarget
    BY DEF GameplayInv, Sound, ProbeHasTarget
<1>2. QED
    BY <1>1, GameplayInvariance, PTL

\* A pick-up after RTP belongs to a break the server has confirmed, however
\* many targets and teleports came before it.
THEOREM PickupsAfterBreaks == GameplaySpec => []PickupNeedsBreak
<1>1. GameplayInv => PickupNeedsBreak
    BY DEF GameplayInv, Sound, PickupNeedsBreak
<1>2. QED
    BY <1>1, GameplayInvariance, PTL

\* A packet, however late, takes no target away from a bot at work.
THEOREM PacketsLeaveAction == GameplaySpec => PacketsKeepAction
<1> DEFINE Leaves == ~due /\ due' /\ m.target # None =>
                         m'.target = m.target /\ m'.probe = m.probe /\ m'.waitDone = m.waitDone
<1>1. GameplayInv /\ [GameplayNext]_gvars => [Leaves]_gvars
    <2> SUFFICES ASSUME GameplayInv, [GameplayNext]_gvars, ~due, due', m.target # None
                 PROVE  m'.target = m.target /\ m'.probe = m.probe /\ m'.waitDone = m.waitDone
        OBVIOUS
    <2>1. Receive
        BY DEF GameplayNext, DriveMovementValidation, Elapse, gvars
    <2>2. Heard(m, m') /\ Sound(m)
        BY <2>1, ReceiveHeard DEF GameplayInv
    <2>3. m.probe \in BOOLEAN /\ m'.probe \in BOOLEAN
        BY <2>2 DEF Sound, Heard, Kept, Typed
    <2>4. (m'.probe <=> m.probe) /\ m'.target = m.target /\ m'.waitDone = m.waitDone
        BY <2>2 DEF Heard, Kept, Busy
    <2>5. QED
        BY <2>3, <2>4
<1> HIDE DEF Leaves
<1>2. GameplaySpec => [][Leaves]_gvars
    BY <1>1, GameplayInvariance, PTL DEF GameplaySpec
<1>3. QED
    BY <1>2 DEF Leaves, PacketsKeepAction

\* A bot without an item never goes back to a target or a kind of block it gave
\* up.
THEOREM NothingRejectedRetried == GameplaySpec => RejectedNotRetried
<1> DEFINE Fresh == m'.breaking /\ m'.target # m.target /\ m'.target # None /\ ~m'.held =>
                        m'.target \notin m.rejT /\ m'.targetRt \notin m.rejR
<1>1. GameplayInv /\ [GameplayNext]_gvars => [Fresh]_gvars
    BY StepDriven DEF GameplayInv, Driven
<1> HIDE DEF Fresh
<1>2. GameplaySpec => [][Fresh]_gvars
    BY <1>1, GameplayInvariance, PTL DEF GameplaySpec
<1>3. QED
    BY <1>2 DEF Fresh, RejectedNotRetried

\* The pick-up before RTP gives up only when every item cached was tried.
THEOREM EveryItemTried == GameplaySpec => AllItemsTried
<1> DEFINE Tried == m.prebreak /\ m'.pickupFailed /\ ~m.terminal /\ m'.terminal =>
                        m'.items \subseteq m'.rejI
<1>1. GameplayInv /\ [GameplayNext]_gvars => [Tried]_gvars
    BY StepDriven DEF GameplayInv, Driven
<1> HIDE DEF Tried
<1>2. GameplaySpec => [][Tried]_gvars
    BY <1>1, GameplayInvariance, PTL DEF GameplaySpec
<1>3. QED
    BY <1>2 DEF Tried, AllItemsTried

=============================================================================
