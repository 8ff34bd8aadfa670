----------------------------- MODULE SessionProofs -----------------------------
(***************************************************************************)
(* Proofs about BedrockSession, for any server, whatever batches it sends, *)
(* any script, and any durations and limits.                               *)
(*                                                                         *)
(* Four invariants of the runs, each with what it needs to be inductive:   *)
(* InitAfterSpawn, that there is movement only after StartGame;            *)
(* SuccessIsEarned, that the loop handles no packet once it has remained;  *)
(* AskedIsAnswered, that what is owed is still to be handled;              *)
(* SessionTypeOK, that a script's chain of steps has a last one.           *)
(***************************************************************************)
EXTENDS BedrockSession, FiniteSetTheorems, WellFoundedInduction, TLAPS

\* A packet of a batch, decoded or not.
PacketType == [kind : Kind, raw : BOOLEAN]

-----------------------------------------------------------------------------
(* The player is initialised after the spawn. *)

InitInv == InitAfterSpawn /\ (movement => spawn)

\* The variables InitInv speaks of.
spawnVars == <<driver, spawn, player_spawn, movement, initSent>>

\* Only a few kinds of packets touch them, besides a new session.
LEMMA SpawnKept ==
    ASSUME \/ Connect \/ Login \/ Loop \/ TimePasses
           \/ SendFails \/ Ignored \/ PacksAnswered \/ StackAnswered \/ LatencyAnswered
           \/ ScriptTold \/ CapabilitySeen \/ Disconnected \/ BotStops \/ BotWaits
           \/ \E batch \in Batches :
                 \/ ReceiveBatch(batch)
                 \/ \E secures \in BOOLEAN : LoginBatch(batch, secures)
           \/ \E undecodable \in BOOLEAN : ReceiveFails(undecodable)
    PROVE  UNCHANGED spawnVars
<1>1. CASE Connect \/ Login
    BY <1>1 DEF Connect, Login, LoadSession, NetworkSettings, SendLogin, LoginFails, spawnVars,
                statusVars, loopVars
<1>2. CASE Loop
    BY <1>2 DEF Loop, LoopEnds, TakePending, Await, HoldOn, ReceiveTimesOut, ScriptReceives,
                TurnEnds, spawnVars, statusVars, loopVars
<1>3. CASE TimePasses
    BY <1>3 DEF TimePasses, spawnVars
<1>4. CASE SendFails \/ Ignored \/ PacksAnswered \/ StackAnswered \/ LatencyAnswered
    BY <1>4 DEF SendFails, Ignored, PacksAnswered, StackAnswered, LatencyAnswered, spawnVars,
                statusVars, loopVars
<1>5. CASE ScriptTold \/ CapabilitySeen \/ Disconnected \/ BotStops \/ BotWaits
    BY <1>5 DEF ScriptTold, CapabilitySeen, Disconnected, BotStops, BotWaits, UnchangedSession,
                spawnVars, statusVars, loopVars
<1>6. CASE \E batch \in Batches :
              ReceiveBatch(batch) \/ \E secures \in BOOLEAN : LoginBatch(batch, secures)
    BY <1>6 DEF ReceiveBatch, LoginBatch, spawnVars, statusVars, loopVars
<1>7. CASE \E undecodable \in BOOLEAN : ReceiveFails(undecodable)
    BY <1>7 DEF ReceiveFails, spawnVars
<1> QED BY <1>1, <1>2, <1>3, <1>4, <1>5, <1>6, <1>7

LEMMA InitKept == InitInv /\ [SessionNext]_sessionVars => InitInv'
<1> SUFFICES ASSUME InitInv, [SessionNext]_sessionVars
             PROVE  InitInv'
    OBVIOUS
<1>1. CASE UNCHANGED spawnVars
    BY <1>1 DEF InitInv, InitAfterSpawn, spawnVars
<1>2. ASSUME NEW ready, StatusSeen(ready), driver = "validate" /\ ready => player_spawn'
      PROVE  InitInv'
  <2>1. /\ driver' = driver /\ spawn' = spawn /\ movement' = movement
        /\ player_spawn => player_spawn'
        /\ initSent' => initSent \/ (ready /\ movement)
      BY <1>2, Zenon DEF StatusSeen, InitPlayer
  <2> QED BY <1>2, <2>1, Zenon DEF InitInv, InitAfterSpawn
<1>3. CASE TypedStatus
  <2>1. StatusSeen(player_spawn \/ Head1.kind = "Spawned")
      BY <1>3, Zenon DEF TypedStatus
  <2>2. player_spawn' = (player_spawn \/ Head1.kind = "Spawned")
      BY <2>1, Zenon DEF StatusSeen
  <2> QED BY <1>2, <2>1, <2>2, Zenon
<1>4. CASE RawStatus
  <2>1. StatusSeen(Head1.kind = "Spawned")
      BY <1>4, Zenon DEF RawStatus
  <2>2. player_spawn' = (player_spawn \/ Head1.kind = "Spawned")
      BY <2>1, Zenon DEF StatusSeen
  <2> QED BY <1>2, <2>1, <2>2, Zenon
<1>5. CASE ScriptStatus
  <2>1. StatusSeen(Head1.kind = "Spawned") /\ driver # "validate"
      BY <1>5 DEF ScriptStatus, Scripting
  <2> QED BY <1>2, <2>1, Zenon
<1>6. CASE TypedStart \/ RawStart \/ ScriptStart
    BY <1>6 DEF TypedStart, RawStart, ScriptStart, SessionBegins, InitPlayer, Validating, Scripting,
                InitInv, InitAfterSpawn
<1>7. CASE NextVersion \/ Reconnect
    BY <1>7 DEF NextVersion, Reconnect, Restart, InitInv, InitAfterSpawn
<1>8. CASE UNCHANGED sessionVars
    BY <1>1, <1>8 DEF sessionVars, spawnVars, statusVars, loopVars
<1> QED BY <1>1, <1>3, <1>4, <1>5, <1>6, <1>7, <1>8, SpawnKept DEF SessionNext, Packet, LiteBot

\* On every way to it, a validation initialises the player only after StartGame
\* and PlayerSpawn, whatever the server sends.
THEOREM InitialisedAfterSpawn == SessionSpec => []InitAfterSpawn
<1>1. SessionInit => InitInv
    BY DEF SessionInit, Fresh, InitInv, InitAfterSpawn
<1>2. InitInv => InitAfterSpawn
    BY DEF InitInv
<1> QED BY <1>1, <1>2, InitKept, PTL DEF SessionSpec

-----------------------------------------------------------------------------
(* Success is earned. *)

\* Once the session has lasted, the loop handles no more packets: a StartGame
\* cannot set its age back before the report.  Movement is shown only by frames,
\* which follow the initialisation.
EarnedInv ==
    /\ SuccessIsEarned
    /\ outcome = "success" => stage = "Closed"
    /\ remained => age >= Required /\ stage \in {"Head"} \union Ended
    /\ "movement" \in shown => initSent

LEMMA EarnedKept == EarnedInv /\ [SessionNext]_sessionVars => EarnedInv'
<1> SUFFICES ASSUME EarnedInv, [SessionNext]_sessionVars
             PROVE  EarnedInv'
    OBVIOUS
<1> USE DEF EarnedInv, SuccessIsEarned, Ended, statusVars, loopVars, batchVars, botVars
<1>1. CASE Connect \/ Login
    BY <1>1 DEF Connect, Login, LoadSession, NetworkSettings, SendLogin, LoginFails, Fails
<1>2. CASE Loop
  <2>1. CASE LoopEnds
      BY <2>1 DEF LoopEnds, Closes, Succeeded, Capability
  <2>2. CASE TakePending \/ Await \/ HoldOn
      BY <2>2 DEF TakePending, Await, HoldOn, Goes
  <2>3. CASE ReceiveTimesOut \/ ScriptReceives
      BY <2>3 DEF ReceiveTimesOut, ScriptReceives, Fails
  <2>4. CASE TurnEnds
      BY <2>4 DEF TurnEnds, DriveSends, Fails
  <2> QED BY <1>2, <2>1, <2>2, <2>3, <2>4 DEF Loop
<1>3. CASE TimePasses
    BY <1>3 DEF TimePasses
<1>4. CASE SendFails \/ Disconnected
    BY <1>4 DEF SendFails, Disconnected, Turn, Scripting, Fails, Closes, Succeeded, Capability
<1>5. CASE Ignored \/ PacksAnswered \/ StackAnswered \/ LatencyAnswered \/ ScriptTold
    BY <1>5 DEF Ignored, PacksAnswered, StackAnswered, LatencyAnswered, ScriptTold, Turn,
                Scripting, Past
<1>6. CASE TypedStatus \/ RawStatus \/ ScriptStatus
  <2>1. initSent => initSent'
      BY <1>6, Zenon DEF TypedStatus, RawStatus, ScriptStatus, StatusSeen, InitPlayer
  <2> QED BY <1>6, <2>1 DEF TypedStatus, RawStatus, ScriptStatus, StatusSeen, Turn, Validating,
                            Scripting, Past
<1>7. CASE TypedStart \/ RawStart \/ ScriptStart
  <2>1. initSent => initSent'
      BY <1>7, Zenon DEF TypedStart, RawStart, ScriptStart, InitPlayer
  <2>2. stage = "Packets"
      BY <1>7, Zenon DEF TypedStart, RawStart, ScriptStart, Turn, Validating, Scripting
  <2>3. outcome' = outcome /\ remained' = remained /\ shown' = shown
      BY <1>7, Zenon DEF TypedStart, RawStart, ScriptStart, SessionBegins
  <2> QED BY <2>1, <2>2, <2>3
<1>8. CASE CapabilitySeen
    BY <1>8 DEF CapabilitySeen, Turn, Past
<1>9. CASE NextVersion \/ Reconnect
    BY <1>9 DEF NextVersion, Reconnect, Restart
<1>10. CASE BotStops \/ BotWaits
    BY <1>10 DEF BotStops, BotWaits, UnchangedSession
<1>11. CASE \E batch \in Batches :
              ReceiveBatch(batch) \/ \E secures \in BOOLEAN : LoginBatch(batch, secures)
    BY <1>11 DEF ReceiveBatch, LoginBatch, Fails
<1>12. ASSUME NEW undecodable \in BOOLEAN, ReceiveFails(undecodable)
       PROVE  EarnedInv'
  <2>1. /\ stage = "Wait"
        /\ age' = age /\ shown' = shown /\ initSent' = initSent
      BY <1>12 DEF ReceiveFails
  <2>2. CASE stage' = "Head" /\ remained' = (age >= Required) /\ outcome' = outcome
    <3>1. remained' => age >= Required
        BY <2>2, Zenon
    <3> QED BY <2>1, <2>2, <3>1
  <2>3. CASE remained' = (age >= Required) /\ Closes(remained')
    <3>1. remained' => age >= Required
        BY <2>3, Zenon
    <3>2. outcome' = "success" => remained' /\ shown = Capability
        BY <2>3 DEF Closes, Succeeded
    <3>3. stage' = "Closed"
        BY <2>3 DEF Closes
    <3> QED BY <2>1, <3>1, <3>2, <3>3 DEF Capability
  <2>4. CASE Fails("error") /\ UNCHANGED remained
      BY <2>1, <2>4 DEF Fails
  <2> QED BY <1>12, <2>2, <2>3, <2>4, Zenon DEF ReceiveFails, AfterError
<1>13. CASE UNCHANGED sessionVars
    BY <1>13 DEF sessionVars
<1> QED BY <1>1, <1>2, <1>3, <1>4, <1>5, <1>6, <1>7, <1>8, <1>9, <1>10, <1>11, <1>12, <1>13
        DEF SessionNext, Packet, LiteBot

\* Whenever and however a session has ended, a report of success is one of a
\* session that has lasted and has moved (finalize_status()).
THEOREM SuccessEarned == SessionSpec => []SuccessIsEarned
<1>1. SessionInit => EarnedInv
    BY DEF SessionInit, Fresh, EarnedInv, SuccessIsEarned
<1>2. EarnedInv => SuccessIsEarned
    BY DEF EarnedInv
<1> QED BY <1>1, <1>2, EarnedKept, PTL DEF SessionSpec

-----------------------------------------------------------------------------
(* What is asked is answered. *)

\* A packet that would answer k: of the latency requests the raw ones.
Answers(packet, k) == packet.kind = k /\ (k = "Latency" => packet.raw)

\* It waits for the loop, or is in the batch at hand.
InHand(k) ==
    \/ k # "Latency" /\ \E i \in DOMAIN pending : pending[i] = k
    \/ \E i \in DOMAIN todo : Answers(todo[i], k)

\* A batch is done before the next is received; until then what it asks is there.
AskedInv ==
    /\ todo \in Seq(PacketType) /\ pending \in Seq(Kind) /\ owed \subseteq Answerable
    /\ stage \notin {"Packets"} \union Ended => todo = <<>>
    /\ driver = "validate" => \A k \in owed : InHand(k)

\* The packets after the first keep their answers.
LEMMA PastKeeps ==
    ASSUME AskedInv, stage = "Packets", todo # <<>>, Past,
           pending' = pending, driver' = driver, owed' \subseteq owed,
           driver = "validate" => \A k \in owed' : ~Answers(todo[1], k)
    PROVE  AskedInv'
<1>1. /\ todo \in Seq(PacketType) /\ Len(todo) \in Nat /\ DOMAIN todo = 1 .. Len(todo)
      /\ Len(todo) # 0
    BY DEF AskedInv
<1>2. /\ todo' = Tail(todo) /\ todo' \in Seq(PacketType) /\ DOMAIN todo' = 1 .. Len(todo) - 1
      /\ \A i \in 1 .. Len(todo) - 1 : todo'[i] = todo[i + 1]
    BY <1>1 DEF Past
<1>3. stage' \notin {"Packets"} \union Ended => todo' = <<>>
    BY <1>1, <1>2 DEF Past, Ended
<1>4. stage' \in {"Packets", "Tail"}
    BY DEF Past
<1>5. ASSUME driver' = "validate", NEW k \in owed'
      PROVE  InHand(k)'
  <2>1. CASE k # "Latency" /\ \E i \in DOMAIN pending : pending[i] = k
      BY <2>1 DEF InHand
  <2>2. CASE \E i \in DOMAIN todo : Answers(todo[i], k)
    <3>1. PICK i \in DOMAIN todo : Answers(todo[i], k)
        BY <2>2
    <3>2. i # 1
        BY <3>1, <1>5
    <3>3. i - 1 \in DOMAIN todo' /\ todo'[i - 1] = todo[i]
        BY <1>1, <1>2, <3>2
    <3> QED BY <3>1, <3>3 DEF InHand, Answers
  <2> QED BY <1>5, <2>1, <2>2 DEF AskedInv, InHand
<1> QED BY <1>2, <1>3, <1>5 DEF AskedInv

\* Marking the packets of a batch leaves their order.
LEMMA TypedIs ==
    ASSUME NEW batch \in Seq(Kind)
    PROVE  /\ Typed(batch) \in Seq(PacketType) /\ Raw(batch) \in Seq(PacketType)
           /\ Len(Typed(batch)) = Len(batch) /\ DOMAIN Typed(batch) = DOMAIN batch
           /\ \A i \in DOMAIN batch : Typed(batch)[i] = [kind |-> batch[i], raw |-> FALSE]
<1>1. /\ Len(batch) \in Nat /\ DOMAIN batch = 1 .. Len(batch)
      /\ \A i \in 1 .. Len(batch) : batch[i] \in Kind
    OBVIOUS
<1>2. \A kind \in Kind, raw \in BOOLEAN : [kind |-> kind, raw |-> raw] \in PacketType
    BY DEF PacketType
<1>3. /\ Typed(batch) = [i \in 1 .. Len(batch) |-> [kind |-> batch[i], raw |-> FALSE]]
      /\ Raw(batch) = [i \in 1 .. Len(batch) |-> [kind |-> batch[i], raw |-> TRUE]]
    BY <1>1 DEF Typed, Raw
<1> DEFINE typed(i) == [kind |-> batch[i], raw |-> FALSE]
           raw(i) == [kind |-> batch[i], raw |-> TRUE]
<1>4. \A i \in 1 .. Len(batch) : typed(i) \in PacketType /\ raw(i) \in PacketType
    BY <1>1, <1>2
<1>5. /\ Typed(batch) = [i \in 1 .. Len(batch) |-> typed(i)]
      /\ Raw(batch) = [i \in 1 .. Len(batch) |-> raw(i)]
    BY <1>3
<1>6. \A i \in 1 .. Len(batch) : typed(i) = [kind |-> batch[i], raw |-> FALSE]
    OBVIOUS
<1> HIDE DEF typed, raw
<1> QED BY <1>1, <1>4, <1>5, <1>6

\* The latency requests kept besides the typed packets are as many as there are.
LEMMA KeptRawIs ==
    ASSUME NEW batch \in Seq(Kind)
    PROVE  LET requests == {i \in DOMAIN batch : batch[i] = "Latency"}
               n == Cardinality(requests)
           IN /\ n \in Nat /\ (requests # {} => n # 0)
              /\ KeptRaw(batch) \in Seq(PacketType) /\ Len(KeptRaw(batch)) = n
              /\ \A i \in 1 .. n : KeptRaw(batch)[i] = [kind |-> "Latency", raw |-> TRUE]
<1> DEFINE requests == {i \in DOMAIN batch : batch[i] = "Latency"}
           request == [kind |-> "Latency", raw |-> TRUE]
<1>1. IsFiniteSet(requests) /\ Cardinality(requests) \in Nat
  <2>1. IsFiniteSet(1 .. Len(batch)) /\ requests \subseteq 1 .. Len(batch)
      BY FS_Interval
  <2> QED BY <2>1, FS_Subset, FS_CardinalityType
<1>2. requests # {} => Cardinality(requests) # 0
    BY <1>1, FS_EmptySet
<1>3. KeptRaw(batch) = [n \in 1 .. Cardinality(requests) |-> request]
    BY DEF KeptRaw
<1>4. request \in PacketType
    BY DEF PacketType, Kind
<1> HIDE DEF requests, request
<1>5. /\ KeptRaw(batch) \in Seq(PacketType) /\ Len(KeptRaw(batch)) = Cardinality(requests)
      /\ \A i \in 1 .. Cardinality(requests) : KeptRaw(batch)[i] = request
    BY <1>1, <1>3, <1>4
<1> QED BY <1>1, <1>2, <1>5 DEF requests, request

\* However a batch is decoded, it holds what it asks.
LEMMA BatchHolds ==
    ASSUME NEW batch \in Batches, NEW k \in Asked(batch)
    PROVE  /\ \E i \in DOMAIN Raw(batch) : Answers(Raw(batch)[i], k)
           /\ \E i \in DOMAIN Lossy(batch) : Answers(Lossy(batch)[i], k)
<1>1. batch \in Seq(Kind) /\ Len(batch) \in Nat /\ DOMAIN batch = 1 .. Len(batch)
    BY SessionAssumption
<1>2. PICK j \in DOMAIN batch : batch[j] = k
    BY DEF Asked, Has
<1>3. \E i \in DOMAIN Raw(batch) : Answers(Raw(batch)[i], k)
    BY <1>2 DEF Raw, Answers
<1>4. CASE Has(batch, {"Odd"})
    BY <1>3, <1>4 DEF Lossy
<1>5. CASE ~Has(batch, {"Odd"})
  <2> DEFINE requests == {i \in DOMAIN batch : batch[i] = "Latency"}
  <2>1. Cardinality(requests) \in Nat
      BY <1>1, KeptRawIs
  <2>2. /\ Typed(batch) \in Seq(PacketType) /\ Len(Typed(batch)) = Len(batch)
        /\ \A i \in DOMAIN batch : Typed(batch)[i] = [kind |-> batch[i], raw |-> FALSE]
      BY <1>1, TypedIs
  <2>3. /\ KeptRaw(batch) \in Seq(PacketType) /\ Len(KeptRaw(batch)) = Cardinality(requests)
        /\ \A i \in 1 .. Cardinality(requests) :
              KeptRaw(batch)[i] = [kind |-> "Latency", raw |-> TRUE]
      BY <1>1, KeptRawIs
  <2>4. Lossy(batch) = Typed(batch) \o KeptRaw(batch)
      BY <1>5 DEF Lossy
  <2> HIDE DEF requests
  <2>5. CASE k # "Latency"
    <3>1. j \in DOMAIN Lossy(batch) /\ Lossy(batch)[j] = [kind |-> k, raw |-> FALSE]
        BY <1>1, <1>2, <2>1, <2>2, <2>3, <2>4
    <3> QED BY <1>3, <2>5, <3>1 DEF Answers
  <2>6. CASE k = "Latency"
    <3>1. Cardinality(requests) # 0
      <4>1. j \in requests
          BY <1>2, <2>6 DEF requests
      <4> QED BY <1>1, <4>1, KeptRawIs DEF requests
    <3>2. /\ Len(batch) + 1 \in DOMAIN Lossy(batch)
          /\ Lossy(batch)[Len(batch) + 1] = [kind |-> "Latency", raw |-> TRUE]
      <4> DEFINE n == Cardinality(requests)
      <4>1. n \in Nat /\ n # 0 /\ 1 \in 1 .. n
          BY <2>1, <3>1
      <4>2. /\ Len(batch) + 1 \in DOMAIN Lossy(batch)
            /\ Lossy(batch)[Len(batch) + 1] = KeptRaw(batch)[1]
          BY <1>1, <4>1, <2>2, <2>3, <2>4
      <4> QED BY <2>3, <4>1, <4>2
    <3> QED BY <1>3, <2>6, <3>2 DEF Answers
  <2> QED BY <2>5, <2>6
<1> QED BY <1>3, <1>4, <1>5

\* A batch is received as a sequence of packets.
LEMMA BatchTyped ==
    ASSUME NEW batch \in Batches
    PROVE  Raw(batch) \in Seq(PacketType) /\ Lossy(batch) \in Seq(PacketType)
<1>1. batch \in Seq(Kind)
    BY SessionAssumption
<1>2. Raw(batch) \in Seq(PacketType) /\ Typed(batch) \in Seq(PacketType)
    BY <1>1, TypedIs
<1>3. KeptRaw(batch) \in Seq(PacketType)
    BY <1>1, KeptRawIs
<1> QED BY <1>2, <1>3 DEF Lossy

LEMMA AskedKept == AskedInv /\ [SessionNext]_sessionVars => AskedInv'
<1> SUFFICES ASSUME AskedInv, [SessionNext]_sessionVars
             PROVE  AskedInv'
    OBVIOUS
<1>1. ASSUME UNCHANGED <<driver, batchVars, owed>>,
             stage = "Packets" => stage' \in {"Packets"} \union Ended,
             stage' \in Ended \/ stage \notin Ended
      PROVE  AskedInv'
  <2>1. todo' = todo /\ pending' = pending /\ driver' = driver /\ owed' = owed
      BY <1>1 DEF batchVars
  <2>2. \A k \in owed : InHand(k) => InHand(k)'
      BY <2>1 DEF InHand, Answers
  <2> QED BY <1>1, <2>1, <2>2 DEF AskedInv, Ended
<1>2. CASE Connect \/ Login \/ TimePasses
    BY <1>1, <1>2 DEF Connect, Login, LoadSession, NetworkSettings, SendLogin, LoginFails, Fails,
                      TimePasses, Ended
<1>3. CASE LoopEnds \/ Await \/ HoldOn \/ ReceiveTimesOut \/ ScriptReceives \/ TurnEnds
    BY <1>1, <1>3 DEF LoopEnds, Closes, Await, HoldOn, ReceiveTimesOut, ScriptReceives, TurnEnds,
                      DriveSends, Fails, Ended
<1>4. CASE TakePending
  <2>1. /\ todo = <<>> /\ todo' = Typed(pending) /\ pending' = <<>> /\ stage' = "Packets"
        /\ driver' = driver /\ owed' = owed /\ pending \in Seq(Kind)
      BY <1>4 DEF TakePending, AskedInv, Ended
  <2>2. /\ DOMAIN todo' = DOMAIN pending
        /\ \A i \in DOMAIN pending : todo'[i] = [kind |-> pending[i], raw |-> FALSE]
        /\ todo' \in Seq(PacketType)
      BY <2>1, TypedIs
  <2>3. ASSUME driver' = "validate", NEW k \in owed'
        PROVE  InHand(k)'
    <3>1. k # "Latency" /\ \E i \in DOMAIN pending : pending[i] = k
        BY <2>1, <2>3 DEF AskedInv, InHand
    <3> QED BY <2>2, <3>1 DEF InHand, Answers
  <2> QED BY <2>1, <2>2, <2>3 DEF AskedInv
<1>5. ASSUME NEW batch \in Batches, ReceiveBatch(batch)
      PROVE  AskedInv'
  <2>1. /\ stage = "Wait" /\ todo = <<>> /\ pending' = pending /\ driver' = driver
      BY <1>5 DEF ReceiveBatch, AskedInv, Ended, batchVars
  <2>2. CASE Fails("error") /\ UNCHANGED <<todo, owed>>
      BY <1>1, <2>1, <2>2 DEF Fails, Ended, batchVars
  <2>3. CASE /\ stage' = "Packets" /\ todo' \in {Raw(batch), Lossy(batch)}
             /\ owed' = owed \union Asked(batch)
    <3>1. ASSUME driver' = "validate", NEW k \in owed'
          PROVE  InHand(k)'
      <4>1. CASE k \in Asked(batch)
          BY <2>3, <4>1, BatchHolds DEF InHand, Answers
      <4>2. CASE k \in owed
          BY <2>1, <3>1, <4>2 DEF AskedInv, InHand
      <4> QED BY <2>3, <4>1, <4>2
    <3>2. owed' \subseteq Answerable
        BY <2>3 DEF AskedInv, Asked
    <3>3. todo' \in Seq(PacketType)
        BY <2>3, BatchTyped
    <3> QED BY <2>1, <2>3, <3>1, <3>2, <3>3 DEF AskedInv
  <2> QED BY <1>5, <2>2, <2>3 DEF ReceiveBatch
<1>6. ASSUME NEW batch \in Batches, NEW secures \in BOOLEAN, LoginBatch(batch, secures)
      PROVE  AskedInv'
  <2>1. /\ stage = "Handshake" /\ todo = <<>> /\ todo' = todo /\ driver' = driver
      BY <1>6 DEF LoginBatch, AskedInv, Ended
  <2>2. CASE stage' = "Failed" /\ UNCHANGED <<pending, owed>>
      BY <1>1, <2>1, <2>2 DEF Ended, batchVars
  <2>3. CASE /\ pending' = pending \o batch /\ owed' = owed \union (Asked(batch) \ {"Latency"})
             /\ stage' \in {"Head", "Handshake"}
    <3>1. /\ pending \in Seq(Kind) /\ batch \in Seq(Kind)
        BY SessionAssumption DEF AskedInv
    <3>2. /\ pending' \in Seq(Kind) /\ Len(pending) \in Nat /\ Len(batch) \in Nat
          /\ DOMAIN pending = 1 .. Len(pending) /\ DOMAIN batch = 1 .. Len(batch)
          /\ DOMAIN pending' = 1 .. Len(pending) + Len(batch)
          /\ \A i \in DOMAIN pending : pending'[i] = pending[i]
          /\ \A i \in DOMAIN batch : pending'[Len(pending) + i] = batch[i]
        BY <2>3, <3>1
    <3>3. ASSUME driver' = "validate", NEW k \in owed'
          PROVE  InHand(k)'
      <4>1. CASE k \in Asked(batch) \ {"Latency"}
        <5>1. PICK i \in DOMAIN batch : batch[i] = k
            BY <4>1 DEF Asked, Has
        <5>2. Len(pending) + i \in DOMAIN pending' /\ pending'[Len(pending) + i] = k
            BY <3>2, <5>1
        <5> QED BY <4>1, <5>2 DEF InHand
      <4>2. CASE k \in owed
        <5>1. k # "Latency" /\ \E i \in DOMAIN pending : pending[i] = k
            BY <2>1, <3>3, <4>2 DEF AskedInv, InHand
        <5> QED BY <3>2, <5>1 DEF InHand
      <4> QED BY <2>3, <3>3, <4>1, <4>2
    <3>4. owed' \subseteq Answerable
        BY <2>3 DEF AskedInv, Asked
    <3> QED BY <2>1, <2>3, <3>2, <3>3, <3>4 DEF AskedInv
  <2> QED BY <1>6, <2>2, <2>3 DEF LoginBatch, Fails
<1>7. ASSUME NEW undecodable \in BOOLEAN, ReceiveFails(undecodable)
      PROVE  AskedInv'
  <2>1. stage' \in {"Head"} \union Ended
      BY <1>7 DEF ReceiveFails, AfterError, Fails, Closes, Ended
  <2>2. UNCHANGED <<driver, batchVars, owed>> /\ stage = "Wait"
      BY <1>7 DEF ReceiveFails, batchVars
  <2> QED BY <1>1, <2>1, <2>2 DEF Ended
<1>8. CASE SendFails \/ Disconnected
    BY <1>1, <1>8 DEF SendFails, Disconnected, Fails, Closes, Ended
<1>9. CASE Ignored \/ ScriptTold \/ CapabilitySeen
  <2>1. /\ stage = "Packets" /\ todo # <<>> /\ Past /\ pending' = pending /\ driver' = driver
        /\ owed' = owed
      BY <1>9, Zenon DEF Ignored, ScriptTold, CapabilitySeen, Turn, Scripting
  <2>2. ASSUME driver = "validate", NEW k \in Answerable
        PROVE  ~Answers(todo[1], k)
      BY <1>9, <2>2 DEF Ignored, ScriptTold, CapabilitySeen, Turn, Scripting, Heard, Head1,
                        Answers, Answerable, Kind
  <2> QED BY <2>1, <2>2, PastKeeps DEF AskedInv
<1>10. CASE TypedStatus \/ RawStatus \/ ScriptStatus \/ TypedStart \/ RawStart \/ ScriptStart
  <2>1. /\ stage = "Packets" /\ todo # <<>> /\ Past /\ pending' = pending /\ driver' = driver
        /\ owed' = owed /\ todo[1].kind \in StatusKind \union StartKind
      BY <1>10, Zenon DEF TypedStatus, RawStatus, ScriptStatus, TypedStart, RawStart, ScriptStart,
                          StatusSeen, SessionBegins, Turn, Validating, Scripting, Head1
  <2>2. ASSUME NEW k \in Answerable
        PROVE  ~Answers(todo[1], k)
      BY <2>1 DEF Answers, Answerable, StatusKind, StartKind
  <2> QED BY <2>1, <2>2, PastKeeps DEF AskedInv
<1>11. CASE PacksAnswered \/ StackAnswered \/ LatencyAnswered
  <2>1. /\ stage = "Packets" /\ todo # <<>> /\ Past /\ pending' = pending /\ driver' = driver
        /\ owed' = owed \ {todo[1].kind}
      BY <1>11 DEF PacksAnswered, StackAnswered, LatencyAnswered, Turn, Head1
  <2>2. \A k \in owed' : ~Answers(todo[1], k)
      BY <2>1 DEF Answers
  <2> QED BY <2>1, <2>2, PastKeeps
<1>12. CASE NextVersion \/ Reconnect
  <2>1. todo' = <<>> /\ pending' = <<>> /\ owed' = {}
      BY <1>12 DEF NextVersion, Reconnect, Restart
  <2> QED BY <2>1 DEF AskedInv
<1>13. CASE BotStops \/ BotWaits \/ UNCHANGED sessionVars
    BY <1>1, <1>13 DEF BotStops, BotWaits, UnchangedSession, sessionVars, Ended
<1> QED BY <1>2, <1>3, <1>4, <1>5, <1>6, <1>7, <1>8, <1>9, <1>10, <1>11, <1>12, <1>13
        DEF SessionNext, Packet, LiteBot, Loop

\* A validation leaves no request unanswered, however its packets come: with the
\* login, typed or raw, in whatever batches.
THEOREM AllAnswered == SessionSpec => []AskedIsAnswered
<1>1. SessionInit => AskedInv
    BY DEF SessionInit, Fresh, AskedInv
<1>2. AskedInv => AskedIsAnswered
    BY DEF AskedInv, AskedIsAnswered, InHand, Ended
<1> QED BY <1>1, <1>2, AskedKept, PTL DEF SessionSpec

-----------------------------------------------------------------------------
(* The types.  The counters of a session are bounded by its durations; the   *)
(* index of a script by its length or by the steps it skips, whichever is    *)
(* the larger, as skip_steps_on_respawn may lead past the end.               *)

LastIndex == IF SkipSteps > Len(Script) THEN SkipSteps ELSE Len(Script)
ScriptRecord == [index : 0 .. LastIndex, spawned : BOOLEAN, window : BOOLEAN, items : BOOLEAN]

LEMMA ScriptGiven ==
    /\ Len(Script) \in Nat /\ SkipSteps \in Nat /\ LastIndex \in Nat
    /\ SkipSteps <= LastIndex /\ Len(Script) <= LastIndex
BY ScriptAssumption DEF LastIndex

\* Steps up to the last one there is have a last one.
LEMMA LastOf ==
    ASSUME NEW top \in Nat, NEW S \in SUBSET (0 .. top), S # {}
    PROVE  \E n \in S : \A k \in S : k <= n
<1> DEFINE T == {top - n : n \in S}
<1>1. T \subseteq Nat /\ T # {}
    OBVIOUS
<1>2. PICK m \in T : \A j \in T : <<j, m>> \notin OpToRel(<, Nat)
    BY <1>1, WFMin, NatLessThanWellFounded
<1>3. m \in Nat /\ \A j \in T : j \in Nat /\ ~(j < m)
    BY <1>1, <1>2 DEF OpToRel
<1>4. PICK n \in S : m = top - n
    BY <1>2
<1>5. ASSUME NEW k \in S
      PROVE  k <= n
    <2>1. top - k \in T
        OBVIOUS
    <2>2. ~(top - k < top - n)
        BY <1>3, <1>4, <2>1
    <2>3. k \in Int /\ n \in Int
        BY <1>4
    <2>4. QED
        BY <2>2, <2>3
<1>6. QED
    BY <1>4, <1>5

\* run_chain() stops at a step of the script.
LEMMA RunChainKeeps ==
    ASSUME NEW s \in ScriptRecord
    PROVE  RunChain(s) \in ScriptRecord
<1> DEFINE chained(n) == \A i \in s.index + 1 .. n : Script[i] = "after_previous"
           ends == {n \in s.index .. Len(Script) : chained(n)}
           last == CHOOSE n \in ends : \A k \in ends : k <= n
<1>1. RunChain(s) = IF ends = {} THEN s ELSE [s EXCEPT !.index = last]
    BY DEF RunChain
<1>2. s.index \in Nat /\ ends \subseteq s.index .. Len(Script)
    BY ScriptGiven DEF ScriptRecord
<1> HIDE DEF chained, ends
<1>3. ends \in SUBSET (0 .. Len(Script))
    BY <1>2, ScriptGiven
<1>4. CASE ends # {}
    <2>1. last \in ends
        BY <1>3, <1>4, LastOf, ScriptGiven
    <2> HIDE DEF last
    <2>2. last \in 0 .. LastIndex
        BY <1>3, <2>1, ScriptGiven
    <2>3. QED
        BY <1>1, <1>4, <2>2 DEF ScriptRecord
<1>5. QED
    BY <1>1, <1>4

LEMMA StepIfKeeps ==
    ASSUME NEW s \in ScriptRecord, NEW triggers
    PROVE  StepIf(s, triggers) \in ScriptRecord
<1>1. CASE Waiting(s, triggers)
    <2>1. s.index + 1 \in 0 .. LastIndex
        BY <1>1, ScriptGiven DEF Waiting, ScriptRecord
    <2>2. [s EXCEPT !.index = @ + 1] \in ScriptRecord
        BY <2>1 DEF ScriptRecord
    <2>3. QED
        BY <1>1, <2>2, RunChainKeeps DEF StepIf, RunStep
<1>2. QED
    BY <1>1 DEF StepIf

\* No event takes a script out of its record.
LEMMA ScriptKept ==
    ASSUME NEW s \in ScriptRecord
    PROVE  /\ OnSpawn(s) \in ScriptRecord /\ OnInventoryGui(s) \in ScriptRecord
           /\ OnInventoryContent(s) \in ScriptRecord
<1>1. OnSpawn(s) \in ScriptRecord
    <2> DEFINE first == IF s.spawned THEN SkipSteps ELSE 0
               at == IF ResetOnSpawn THEN first ELSE s.index
               r == [s EXCEPT !.index = at, !.spawned = TRUE]
    <2>1. OnSpawn(s) = StepIf(r, {"on_spawn", "after_previous"})
        BY DEF OnSpawn
    <2>2. at \in 0 .. LastIndex
        BY ScriptGiven DEF ScriptRecord
    <2> HIDE DEF at
    <2>3. r \in ScriptRecord
        BY <2>2 DEF ScriptRecord
    <2> HIDE DEF r
    <2>4. QED
        BY <2>1, <2>3, StepIfKeeps
<1>2. [s EXCEPT !.window = TRUE] \in ScriptRecord /\ [s EXCEPT !.items = TRUE] \in ScriptRecord
    BY DEF ScriptRecord
<1>3. QED
    BY <1>1, <1>2, StepIfKeeps DEF OnInventoryGui, OnInventoryContent

LEMMA EventKept ==
    ASSUME script \in ScriptRecord, NEW kind
    PROVE  ScriptEvent(kind) \in ScriptRecord
BY ScriptKept DEF ScriptEvent

LEMMA NewScriptTyped == NewScript \in ScriptRecord
BY ScriptGiven DEF NewScript, ScriptRecord

SessionFlags ==
    /\ spawn \in BOOLEAN /\ player_spawn \in BOOLEAN /\ remained \in BOOLEAN
    /\ stackDone \in BOOLEAN /\ movement \in BOOLEAN /\ initSent \in BOOLEAN
    /\ hold \in BOOLEAN /\ again \in BOOLEAN

LEMMA StatusSeenFlags ==
    ASSUME SessionFlags, NEW ready, ready \in BOOLEAN, StatusSeen(ready)
    PROVE  SessionFlags'
<1>1. /\ initSent' = (initSent \/ (ready /\ movement))
      /\ player_spawn' = (player_spawn \/ Head1.kind = "Spawned")
      /\ UNCHANGED <<spawn, remained, stackDone, movement, hold, again>>
    BY Zenon DEF StatusSeen, InitPlayer, botVars
<1>2. QED
    BY <1>1, Zenon DEF SessionFlags

LEMMA SessionBeginsFlags ==
    ASSUME SessionFlags, NEW moves, NEW ready, moves \in BOOLEAN, ready \in BOOLEAN,
           SessionBegins(moves), InitPlayer(ready)
    PROVE  SessionFlags'
<1>1. /\ initSent' = (initSent \/ ready) /\ movement' = (movement \/ moves)
      /\ spawn' = TRUE /\ stackDone' = TRUE
      /\ UNCHANGED <<player_spawn, remained, hold, again>>
    BY Zenon DEF SessionBegins, InitPlayer, botVars
<1>2. QED
    BY <1>1, Zenon DEF SessionFlags

\* A comparison is TRUE or FALSE.
LEMMA AgeIsCompared == (age >= Required) \in BOOLEAN
OBVIOUS

LEMMA SessionFlagsKept == SessionFlags /\ [SessionNext]_sessionVars => SessionFlags'
<1> SUFFICES ASSUME SessionFlags, [SessionNext]_sessionVars
             PROVE  SessionFlags'
    OBVIOUS
<1> USE DEF statusVars, loopVars, botVars
<1>1. ASSUME UNCHANGED <<spawn, player_spawn, stackDone, movement, initSent, again>>,
             remained' \in BOOLEAN, hold' \in {hold, TRUE}
      PROVE  SessionFlags'
    BY <1>1, Zenon DEF SessionFlags
<1>2. ASSUME UNCHANGED <<spawn, player_spawn, remained, movement, initSent, hold, again>>,
             stackDone' \in {stackDone, TRUE}
      PROVE  SessionFlags'
    BY <1>2, Zenon DEF SessionFlags
<1>3. CASE Connect \/ Login
    BY <1>2, <1>3, Zenon DEF Connect, Login, LoadSession, NetworkSettings, SendLogin, LoginFails
<1>4. CASE LoopEnds \/ TakePending \/ Await \/ HoldOn \/ ReceiveTimesOut \/ ScriptReceives
    BY <1>2, <1>4, Zenon DEF LoopEnds, TakePending, Await, HoldOn, ReceiveTimesOut, ScriptReceives
<1>5. CASE TurnEnds
    <2>1. remained' = (driver = "validate" /\ spawn /\ age >= Required)
        BY <1>5, Zenon DEF TurnEnds
    <2>2. remained' \in BOOLEAN
        BY <2>1, Zenon
    <2>3. QED
        BY <1>1, <1>5, <2>2, Zenon DEF TurnEnds
<1>6. CASE TimePasses
    BY <1>2, <1>6, Zenon DEF TimePasses
<1>7. CASE SendFails \/ Ignored \/ PacksAnswered \/ StackAnswered \/ LatencyAnswered
    BY <1>2, <1>7, Zenon DEF SendFails, Ignored, PacksAnswered, StackAnswered, LatencyAnswered
<1>8. CASE ScriptTold \/ CapabilitySeen \/ Disconnected \/ BotStops \/ BotWaits
    BY <1>2, <1>8, Zenon DEF ScriptTold, CapabilitySeen, Disconnected, BotStops, BotWaits,
                             UnchangedSession
<1>9. CASE TypedStatus
    BY <1>9, StatusSeenFlags, Zenon DEF TypedStatus, SessionFlags
<1>10. CASE RawStatus \/ ScriptStatus
    BY <1>10, StatusSeenFlags, Zenon DEF RawStatus, ScriptStatus
<1>11. CASE TypedStart \/ ScriptStart
    BY <1>11, SessionBeginsFlags, Zenon DEF TypedStart, ScriptStart, SessionFlags
<1>12. CASE RawStart
    BY <1>12, SessionBeginsFlags, Zenon DEF RawStart
<1>13. CASE NextVersion \/ Reconnect
    BY <1>13, Zenon DEF NextVersion, Reconnect, Restart, SessionFlags
<1>14. ASSUME NEW batch \in Batches,
              ReceiveBatch(batch) \/ \E secures \in BOOLEAN : LoginBatch(batch, secures)
       PROVE  SessionFlags'
    BY <1>2, <1>14, Zenon DEF ReceiveBatch, LoginBatch
<1>15. ASSUME NEW undecodable \in BOOLEAN, ReceiveFails(undecodable)
       PROVE  SessionFlags'
    <2>1. /\ UNCHANGED <<spawn, player_spawn, stackDone, movement, initSent, again>>
          /\ hold' \in {hold, TRUE}
          /\ remained' = (age >= Required) \/ remained' = remained
        BY <1>15, Zenon DEF ReceiveFails, AfterError
    <2>2. remained' \in BOOLEAN
        BY <2>1, AgeIsCompared, Zenon DEF SessionFlags
    <2>3. QED
        BY <1>1, <2>1, <2>2, Zenon
<1>16. CASE UNCHANGED sessionVars
    BY <1>2, <1>16, Zenon DEF sessionVars
<1>17. QED
    BY <1>3, <1>4, <1>5, <1>6, <1>7, <1>8, <1>9, <1>10, <1>11, <1>12, <1>13, <1>14, <1>15, <1>16,
       Zenon DEF SessionNext, Loop, Packet, LiteBot

Stages ==
    {"Load", "Connect", "Settings", "Login", "Handshake", "Head", "Wait", "Packets", "Tail"}
        \union Ended
Outcomes == {"none", "settings", "refused", "error", "unloaded", "report", "success"}

SessionKinds ==
    /\ driver \in Driver /\ bot \in {"none", "running", "asleep", "stopped"}
    /\ version \in Attempts /\ script \in ScriptRecord
    /\ stage \in Stages /\ outcome \in Outcomes
    /\ elapsed \in 0 .. Required + Grace /\ age \in 0 .. Required
    /\ shown \subseteq Capability
    /\ stage = "Packets" => todo # <<>>

LEMMA TimesGiven ==
    /\ Required \in Nat /\ Required > 0 /\ Grace \in Nat /\ Versions \in Nat /\ Versions > 0
    /\ \A batch \in Batches : batch \in Seq(Kind) /\ batch # <<>>
BY SessionAssumption

\* A step of the session that counts nothing and shows nothing new.
LEMMA PlainKindsKept ==
    ASSUME SessionKinds, UNCHANGED <<driver, version, elapsed, age, shown>>,
           bot' \in {"none", "running", "asleep", "stopped"}, script' \in ScriptRecord,
           stage' \in Stages, outcome' \in Outcomes,
           stage' = "Packets" => todo' # <<>>
    PROVE  SessionKinds'
BY DEF SessionKinds

\* Past the packet there is another one, or the batch is done.
LEMMA PastGoesOn ==
    ASSUME Past, todo \in Seq(PacketType), todo # <<>>
    PROVE  stage' \in {"Packets", "Tail"} /\ (stage' = "Packets" => todo' # <<>>)
<1>1. Len(todo) \in Nat \ {0}
    OBVIOUS
<1>2. CASE Len(todo) = 1
    BY <1>2 DEF Past
<1>3. CASE Len(todo) # 1
    <2>1. Len(Tail(todo)) = Len(todo) - 1
        OBVIOUS
    <2>2. Tail(todo) # <<>>
        <3>1. Len(todo) - 1 # 0
            BY <1>1, <1>3
        <3>2. Len(<<>>) = 0
            OBVIOUS
        <3>3. QED
            BY <2>1, <3>1, <3>2, Zenon
    <2>3. todo' # <<>>
        BY <2>2 DEF Past
    <2>4. QED
        BY <1>3, <2>3 DEF Past
<1>4. QED
    BY <1>2, <1>3

\* The packets of a batch.
LEMMA PacketKindsKept ==
    ASSUME SessionKinds, AskedInv, Packet
    PROVE  SessionKinds'
<1> USE DEF statusVars, loopVars, botVars, batchVars
<1>0. /\ todo \in Seq(PacketType) /\ script \in ScriptRecord
      /\ bot \in {"none", "running", "asleep", "stopped"} /\ outcome \in Outcomes
    BY DEF SessionKinds, AskedInv
<1>1. CASE SendFails
    <2>1. /\ stage' = "Failed" /\ outcome' = "error" /\ script' = script /\ bot' = bot
          /\ UNCHANGED <<driver, version, elapsed, age, shown>>
        BY <1>1, Zenon DEF SendFails, Fails
    <2>2. QED
        BY <1>0, <2>1, PlainKindsKept DEF Stages, Ended, Outcomes
<1>2. CASE Disconnected
    <2>1. /\ stage' = "Closed" /\ outcome' \in {"success", "report"} /\ script' = script
          /\ bot' = bot /\ UNCHANGED <<driver, version, elapsed, age, shown>>
        BY <1>2, Zenon DEF Disconnected, Closes
    <2>2. QED
        BY <1>0, <2>1, PlainKindsKept DEF Stages, Ended, Outcomes
<1>3. ASSUME Past, todo # <<>>, UNCHANGED <<driver, outcome, bot, version, elapsed>>,
             age' \in {age, 0}, shown' \subseteq shown \union {"chat"}, script' \in ScriptRecord
      PROVE  SessionKinds'
    <2>1. stage' \in {"Packets", "Tail"} /\ (stage' = "Packets" => todo' # <<>>)
        BY <1>0, <1>3, PastGoesOn, Zenon
    <2>2. age' \in 0 .. Required /\ shown' \subseteq Capability
        BY <1>3, TimesGiven DEF SessionKinds, Capability
    <2>3. QED
        BY <1>3, <2>1, <2>2 DEF SessionKinds, Stages
<1>4. CASE Ignored \/ PacksAnswered \/ StackAnswered \/ LatencyAnswered
    <2>1. /\ Past /\ todo # <<>> /\ UNCHANGED <<driver, outcome, bot, version, elapsed, age, shown, script>>
        BY <1>4, Zenon DEF Ignored, PacksAnswered, StackAnswered, LatencyAnswered, Turn
    <2>2. QED
        BY <1>0, <1>3, <2>1
<1>5. CASE CapabilitySeen
    <2>1. /\ Past /\ todo # <<>> /\ UNCHANGED <<driver, outcome, bot, version, elapsed, age, script>>
          /\ shown' = shown \union {"chat"}
        BY <1>5, Zenon DEF CapabilitySeen, Turn
    <2>2. QED
        BY <1>0, <1>3, <2>1
<1>6. CASE ScriptTold
    <2>1. /\ Past /\ todo # <<>> /\ UNCHANGED <<driver, outcome, bot, version, elapsed, age, shown>>
          /\ script' = ScriptEvent(Head1.kind) \/ script' = OnInventoryContent(script)
        BY <1>6, Zenon DEF ScriptTold, Scripting, Turn
    <2>2. script' \in ScriptRecord
        BY <1>0, <2>1, EventKept, ScriptKept
    <2>3. QED
        BY <1>3, <2>1, <2>2
<1>7. CASE TypedStatus \/ RawStatus \/ ScriptStatus
    <2>1. /\ Past /\ todo # <<>> /\ UNCHANGED <<driver, outcome, bot, version, elapsed, age, shown>>
          /\ script' = ScriptEvent(Head1.kind) \/ script' = script
        BY <1>7, Zenon DEF TypedStatus, RawStatus, ScriptStatus, StatusSeen, Validating, Scripting, Turn
    <2>2. script' \in ScriptRecord
        BY <1>0, <2>1, EventKept
    <2>3. QED
        BY <1>3, <2>1, <2>2
<1>8. CASE TypedStart \/ RawStart \/ ScriptStart
    <2>1. /\ Past /\ todo # <<>> /\ UNCHANGED <<driver, outcome, bot, version, elapsed, shown>>
          /\ age' = 0
          /\ script' = ScriptEvent(Head1.kind) \/ script' = script
        BY <1>8, Zenon DEF TypedStart, RawStart, ScriptStart, SessionBegins, Validating, Scripting, Turn
    <2>2. script' \in ScriptRecord
        BY <1>0, <2>1, EventKept
    <2>3. QED
        BY <1>3, <2>1, <2>2
<1>9. QED
    BY <1>1, <1>2, <1>4, <1>5, <1>6, <1>7, <1>8 DEF Packet

\* The login, the loop and the lite bot.
LEMMA OtherKindsKept ==
    ASSUME SessionKinds, AskedInv,
           \/ Connect \/ Login \/ Loop \/ LiteBot \/ TimePasses
           \/ \E batch \in Batches :
                 ReceiveBatch(batch) \/ \E secures \in BOOLEAN : LoginBatch(batch, secures)
           \/ \E undecodable \in BOOLEAN : ReceiveFails(undecodable)
           \/ UNCHANGED sessionVars
    PROVE  SessionKinds'
<1> USE DEF statusVars, loopVars, botVars, batchVars, Ended
<1>0. /\ script \in ScriptRecord /\ pending \in Seq(Kind)
      /\ bot \in {"none", "running", "asleep", "stopped"} /\ stage \in Stages /\ outcome \in Outcomes
      /\ version \in Attempts
    BY DEF SessionKinds, AskedInv
<1>1. CASE Connect \/ Login
    <2>1. /\ UNCHANGED <<driver, version, elapsed, age, shown, script>>
          /\ stage' \in {"Connect", "Settings", "Login", "Handshake", "Failed"}
          /\ bot' \in {bot, "stopped", "asleep"}
          /\ outcome' \in {outcome, "settings", "error", "refused", "unloaded"}
        BY <1>1 DEF Connect, Login, LoadSession, NetworkSettings, SendLogin, LoginFails, Fails
    <2>2. QED
        BY <1>0, <2>1, PlainKindsKept DEF Stages, Outcomes
<1>2. CASE LoopEnds \/ Await \/ HoldOn \/ ReceiveTimesOut \/ ScriptReceives
    <2>1. /\ UNCHANGED <<driver, bot, version, elapsed, age, shown, script>>
          /\ stage' \in {"Closed", "Wait", "Tail", "Failed"}
          /\ outcome' \in {outcome, "success", "report", "error"}
        BY <1>2 DEF LoopEnds, Closes, Await, HoldOn, ReceiveTimesOut, ScriptReceives, Fails
    <2>2. QED
        BY <1>0, <2>1, PlainKindsKept DEF Stages, Outcomes
<1>3. CASE TakePending
    <2>1. /\ UNCHANGED <<driver, bot, version, elapsed, age, shown, script, outcome>>
          /\ stage' = "Packets" /\ todo' = Typed(pending) /\ pending # <<>>
        BY <1>3 DEF TakePending
    <2>2. Len(Typed(pending)) = Len(pending) /\ Len(pending) # 0
        BY <1>0, <2>1, TypedIs
    <2>3. todo' # <<>>
        BY <2>1, <2>2
    <2>4. QED
        BY <1>0, <2>1, <2>3, PlainKindsKept DEF Stages
<1>4. CASE TurnEnds
    <2>1. /\ UNCHANGED <<driver, bot, version, elapsed, age, script>>
          /\ stage' \in {"Head", "Failed"} /\ outcome' \in {outcome, "error"}
          /\ shown' \subseteq shown \union {"movement"}
        BY <1>4 DEF TurnEnds, DriveSends, Fails
    <2>2. QED
        BY <2>1 DEF SessionKinds, Stages, Outcomes, Capability
<1>5. CASE TimePasses
    <2>1. /\ UNCHANGED <<driver, bot, version, stage, outcome, todo, shown, script>>
          /\ elapsed < Limit /\ elapsed' = elapsed + 1
          /\ age' = age \/ (age < Required /\ age' = age + 1)
        BY <1>5 DEF TimePasses
    <2>2. elapsed' \in 0 .. Required + Grace /\ age' \in 0 .. Required
        BY <2>1, TimesGiven DEF SessionKinds, Limit
    <2>3. QED
        BY <2>1, <2>2 DEF SessionKinds
<1>6. ASSUME NEW batch \in Batches, ReceiveBatch(batch)
      PROVE  SessionKinds'
    <2>1. /\ UNCHANGED <<driver, bot, version, elapsed, age, shown, script>>
          /\ \/ stage' = "Failed" /\ outcome' = "error"
             \/ /\ stage' = "Packets" /\ outcome' = outcome
                /\ todo' \in {Raw(batch), Lossy(batch)}
        BY <1>6 DEF ReceiveBatch, Fails
    <2>2. Raw(batch) # <<>> /\ Lossy(batch) # <<>>
        <3>1. batch \in Seq(Kind) /\ Len(batch) \in Nat \ {0}
            BY TimesGiven
        <3>2. /\ Len(Typed(batch)) = Len(batch) /\ Typed(batch) \in Seq(PacketType)
            BY <3>1, TypedIs
        <3>3. Raw(batch) # <<>>
            <4>1. 1 \in DOMAIN Raw(batch)
                BY <3>1 DEF Raw
            <4>2. QED
                BY <4>1
        <3>4. KeptRaw(batch) \in Seq(PacketType)
            BY <3>1, KeptRawIs
        <3>5. Len(Typed(batch) \o KeptRaw(batch)) # 0
            BY <3>1, <3>2, <3>4
        <3>6. QED
            BY <3>3, <3>5 DEF Lossy
    <2>3. QED
        BY <1>0, <2>1, <2>2, PlainKindsKept DEF Stages, Outcomes
<1>7. ASSUME NEW batch \in Batches, NEW secures \in BOOLEAN, LoginBatch(batch, secures)
      PROVE  SessionKinds'
    <2>1. /\ UNCHANGED <<driver, bot, version, elapsed, age, shown, script>>
          /\ stage' \in {"Head", "Handshake", "Failed"}
          /\ outcome' \in {outcome, "refused", "error"}
        BY <1>7 DEF LoginBatch, Fails
    <2>2. QED
        BY <1>0, <2>1, PlainKindsKept DEF Stages, Outcomes
<1>8. ASSUME NEW undecodable \in BOOLEAN, ReceiveFails(undecodable)
      PROVE  SessionKinds'
    <2>1. /\ UNCHANGED <<driver, bot, version, elapsed, age, shown, script>>
          /\ stage' \in {"Head", "Closed", "Failed"}
          /\ outcome' \in {outcome, "success", "report", "error"}
        BY <1>8 DEF ReceiveFails, AfterError, Closes, Fails
    <2>2. QED
        BY <1>0, <2>1, PlainKindsKept DEF Stages, Outcomes
<1>9. CASE NextVersion \/ Reconnect
    <2>1. /\ driver' = driver /\ bot' = "running" /\ stage' = "Load" /\ outcome' = "none"
          /\ elapsed' = 0 /\ age' = 0 /\ shown' = {} /\ script' = NewScript
          /\ version' = 1 \/ (version' = version + 1 /\ version + 1 \in Attempts)
        BY <1>9, Zenon DEF NextVersion, Reconnect, Restart, SessionKinds
    <2>2. version' \in Attempts
        BY <2>1, TimesGiven DEF Attempts
    <2>3. QED
        BY <2>1, <2>2, TimesGiven, NewScriptTyped DEF SessionKinds, Stages, Outcomes
<1>10. CASE BotStops \/ BotWaits
    <2>1. /\ bot' \in {"stopped", "asleep"}
          /\ UNCHANGED <<driver, version, elapsed, age, shown, script, stage, outcome, todo>>
        BY <1>10 DEF BotStops, BotWaits, UnchangedSession
    <2>2. QED
        BY <2>1 DEF SessionKinds
<1>11. CASE UNCHANGED sessionVars
    BY <1>11 DEF sessionVars, SessionKinds
<1>12. QED
    BY <1>1, <1>2, <1>3, <1>4, <1>5, <1>6, <1>7, <1>8, <1>9, <1>10, <1>11 DEF Loop, LiteBot

\* A session keeps to its types, whatever batches the server sends and whatever
\* the script is: its times stay inside its durations, a script inside its steps
\* or those it skips, and the loop is never among packets when there is none.
THEOREM SessionTypeCorrect == SessionSpec => []SessionTypeOK
<1>1. SessionInit => SessionKinds /\ SessionFlags /\ AskedInv
    <2> SUFFICES ASSUME SessionInit
                 PROVE  SessionKinds /\ SessionFlags /\ AskedInv
        OBVIOUS
    <2>1. SessionKinds
        BY TimesGiven, NewScriptTyped DEF SessionInit, Fresh, LiteBotInit, SessionKinds, Stages,
                                          Outcomes, Ended, Attempts
    <2>2. SessionFlags
        BY Zenon DEF SessionInit, Fresh, LiteBotInit, SessionFlags
    <2>3. AskedInv
        BY DEF SessionInit, Fresh, AskedInv
    <2>4. QED
        BY <2>1, <2>2, <2>3
<1>2. SessionKinds /\ AskedInv /\ [SessionNext]_sessionVars => SessionKinds'
    BY PacketKindsKept, OtherKindsKept DEF SessionNext
<1>3. SessionKinds /\ SessionFlags /\ AskedInv => SessionTypeOK
    <2> SUFFICES ASSUME SessionKinds, SessionFlags, AskedInv
                 PROVE  SessionTypeOK
        OBVIOUS
    <2>1. ScriptTypeOK(script)
        <3>1. script.index \in 0 .. LastIndex
            BY DEF SessionKinds, ScriptRecord
        <3>2. {script.spawned, script.window, script.items} \subseteq BOOLEAN
            BY Zenon DEF SessionKinds, ScriptRecord
        <3>3. QED
            BY <3>1, <3>2 DEF ScriptTypeOK, LastIndex
    <2>2. \A i \in DOMAIN todo : todo[i].kind \in Kind /\ todo[i].raw \in BOOLEAN
        <3>1. \A i \in DOMAIN todo : todo[i] \in PacketType
            BY DEF AskedInv
        <3>2. \A packet \in PacketType : packet.kind \in Kind /\ packet.raw \in BOOLEAN
            BY DEF PacketType
        <3>3. QED
            BY <3>1, <3>2, Zenon
    <2>3. \A i \in DOMAIN pending : pending[i] \in Kind
        BY DEF AskedInv
    <2>4. {spawn, player_spawn, remained, stackDone, movement, initSent, hold} \subseteq BOOLEAN
          /\ again \in BOOLEAN
        BY Zenon DEF SessionFlags
    <2>5. QED
        BY <2>1, <2>2, <2>3, <2>4, Zenon DEF SessionTypeOK, SessionKinds, AskedInv, Stages, Outcomes
<1>4. QED
    BY <1>1, <1>2, <1>3, SessionFlagsKept, AskedKept, PTL DEF SessionSpec

=============================================================================
