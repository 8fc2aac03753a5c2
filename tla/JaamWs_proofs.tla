----------------------------- MODULE JaamWs_proofs -----------------------------
(***************************************************************************)
(* Three facts about the alert client that do not depend on the number of  *)
(* regions, messages, losses or sessions: the hand-over of the flags       *)
(* without a lock forgets nothing, a rejected client waits, and the table  *)
(* of alerts is the server's at the hash the component holds.              *)
(***************************************************************************)
EXTENDS JaamWs, SequenceTheorems, TLAPS

USE DEF server, wsTask, loopVars, out, note, link, env

-----------------------------------------------------------------------------
(* The hand-over *)

LEMMA HandOverInit == JaamInit => HandOverInv
  BY DEF JaamInit, HandOverInv, HandedOver

\* Steps that touch neither the flags nor where the tasks are with them.
LEMMA HandOverStutter ==
  ASSUME HandOverInv, UNCHANGED <<flags, pending, reported, mf, mn, ws>>
  PROVE  HandOverInv'
  BY DEF HandOverInv, HandedOver

\* Steps of the websocket task that end no update.
LEMMA HandOverWs ==
  ASSUME HandOverInv, UNCHANGED <<flags, pending, reported, mf, mn>>, ws # "pend"
  PROVE  HandOverInv'
  BY DEF HandOverInv, HandedOver

\* Steps of the main loop that are not about the flags.
LEMMA HandOverLoop ==
  ASSUME HandOverInv, UNCHANGED <<flags, pending, reported, mf, ws>>,
         mn \notin {"pend", "read", "report"}, mn' # "report"
  PROVE  HandOverInv'
  BY DEF HandOverInv, HandedOver

LEMMA HandOverWsStep == HandOverInv /\ WsStep => HandOverInv'
<1> SUFFICES ASSUME HandOverInv, WsStep PROVE HandOverInv'
  OBVIOUS
<1>1. CASE OnConnected
  BY <1>1, HandOverWs DEF OnConnected
<1>2. CASE ClearFusionState
  BY <1>2, HandOverWs DEF ClearFusionState
<1>3. CASE Rejected
  BY <1>3, HandOverWs DEF Rejected
<1>4. CASE RejectedEnds
  BY <1>4, HandOverWs DEF RejectedEnds, SessionEnded
<1>5. CASE ReceiveMessage
  <2>1. CASE ReceivePiece
    BY <2>1, HandOverStutter DEF ReceivePiece, Received
  <2>2. ASSUME NEW m, ReceiveAlerts(m) PROVE HandOverInv'
    BY <2>2, HandOverWs DEF ReceiveAlerts, Receive, Received, Readable
  <2>3. ASSUME NEW m, ReceiveBroken(m) PROVE HandOverInv'
    BY <2>3, HandOverStutter DEF ReceiveBroken, Receive, Received
  <2>4. ASSUME NEW m, ReceiveNotif(m) PROVE HandOverInv'
    BY <2>4, HandOverWs DEF ReceiveNotif, Receive, Received, Readable
  <2> QED
    BY <1>5, <2>1, <2>2, <2>3, <2>4 DEF ReceiveMessage
<1>6. CASE ArmNotif
  BY <1>6, HandOverWs DEF ArmNotif
<1>7. CASE WsCompute
  BY <1>7, HandOverWs DEF WsCompute
<1>8. CASE WsStore
  BY <1>8 DEF WsStore, HandOverInv, HandedOver
<1>9. CASE WsPend
  BY <1>9 DEF WsPend, HandOverInv, HandedOver
<1>10. CASE TaskStops
  BY <1>10, HandOverStutter DEF TaskStops, SessionEnded
<1> QED
  BY <1>1, <1>2, <1>3, <1>4, <1>5, <1>6, <1>7, <1>8, <1>9, <1>10 DEF WsStep

LEMMA HandOverLoopStep == HandOverInv /\ LoopStep => HandOverInv'
<1> SUFFICES ASSUME HandOverInv, LoopStep PROVE HandOverInv'
  OBVIOUS
<1> USE DEF AtLink, SameTasks
<1>1. CASE Expire \/ ExpireTimer \/ ExpireFlags
  BY <1>1, HandOverLoop DEF Expire, ExpireTimer, ExpireFlags
<1>2. CASE LoopCompute
  BY <1>2 DEF LoopCompute, HandOverInv, HandedOver
<1>3. CASE LoopStore
  BY <1>3 DEF LoopStore, HandOverInv, HandedOver
<1>4. CASE LoopPend
  BY <1>4 DEF LoopPend, HandOverInv, HandedOver
<1>5. CASE Offline \/ StillOffline \/ EndSession
  BY <1>5, HandOverLoop DEF Offline, StillOffline, EndSession
<1>6. CASE StoppedOffline \/ StoppedRetry
  BY <1>6, HandOverLoop DEF StoppedOffline, StoppedRetry
<1>7. CASE KeepSession \/ StartClient \/ AwaitReconnect
  BY <1>7, HandOverLoop DEF KeepSession, StartClient, AwaitReconnect
<1>8. CASE HandOver
  BY <1>8 DEF HandOver, HandOverInv, HandedOver
<1> QED
  BY <1>1, <1>2, <1>3, <1>4, <1>5, <1>6, <1>7, <1>8 DEF LoopStep

LEMMA HandOverOtherStep == HandOverInv /\ (Time \/ World) => HandOverInv'
<1> SUFFICES ASSUME HandOverInv, Time \/ World PROVE HandOverInv'
  OBVIOUS
<1>1. CASE Time
  BY <1>1, HandOverStutter
     DEF Time, TtlPasses, Ages, FallsSilent, BackoffPasses, SameButLink
<1>2. ASSUME NEW r \in Regions, NEW f \in AlertFlags, Change(r, f) \/ ChangeLost(r, f)
      PROVE  HandOverInv'
  BY <1>2, HandOverStutter DEF Change, ChangeLost, SameClient
<1>3. ASSUME NEW r \in Regions, NEW f \in NotifFlags, Notify(r, f)
      PROVE  HandOverInv'
  BY <1>3, HandOverStutter DEF Notify, SameClient
<1>4. CASE Disconnected
  BY <1>4, HandOverStutter DEF Disconnected
<1>5. CASE Refused
  BY <1>5, HandOverWs DEF Refused
<1>6. CASE PathDies \/ NetDown \/ NetUp
  BY <1>6, HandOverStutter DEF PathDies, NetDown, NetUp, SameClient
<1>7. CASE StartClientFails
  BY <1>7, HandOverLoop DEF StartClientFails, AtLink, SameTasks
<1>8. ASSUME NEW h \in Homes, SetRegion(h)
      PROVE  HandOverInv'
  BY <1>8 DEF SetRegion, HandOverInv, HandedOver
<1> QED
  BY <1>1, <1>2, <1>3, <1>4, <1>5, <1>6, <1>7, <1>8 DEF World

\* What the tables say of the region is never computed and then forgotten: the
\* two tasks hand flags_ over through pending_, without a lock, in an order
\* that loses no update (update_flags_from_fusion and the end of loop).
THEOREM NothingForgotten == JaamSpec => []HandedOver
<1>1. JaamInit => HandOverInv
  BY HandOverInit
<1>2. HandOverInv /\ [JaamNext]_vars => HandOverInv'
  <2>1. HandOverInv /\ UNCHANGED vars => HandOverInv'
    BY HandOverStutter DEF vars
  <2> QED
    BY <2>1, HandOverWsStep, HandOverLoopStep, HandOverOtherStep DEF JaamNext
<1>3. HandOverInv => HandedOver
  BY DEF HandOverInv
<1> QED
  BY <1>1, <1>2, <1>3, PTL DEF JaamSpec

-----------------------------------------------------------------------------
(* Rejections *)

LEMMA OwedInit == JaamInit => OwedInv
  BY DEF JaamInit, OwedInv

\* Steps that leave the session and what is owed alone and start no handler
\* without a session.
LEMMA OwedStutter ==
  ASSUME OwedInv, UNCHANGED <<session, owed, penalty>>,
         ws' = "idle" \/ ws' = ws \/ ws # "idle" \/ session = "open"
  PROVE  OwedInv'
  BY DEF OwedInv

\* The end of a session.
LEMMA OwedEnds ==
  ASSUME OwedInv, session \notin {"none", "over"}, session' = "over",
         ws' = "idle", UNCHANGED <<owed, penalty>>
  PROVE  OwedInv'
  BY DEF OwedInv

LEMMA OwedWsStep == OwedInv /\ WsStep => OwedInv'
<1> SUFFICES ASSUME OwedInv, WsStep PROVE OwedInv'
  OBVIOUS
<1>1. CASE OnConnected
  BY <1>1 DEF OnConnected, OwedInv
<1>2. CASE ClearFusionState \/ ArmNotif \/ WsCompute \/ WsStore \/ WsPend
  BY <1>2, OwedStutter DEF ClearFusionState, ArmNotif, WsCompute, WsStore, WsPend
<1>3. CASE Rejected
  BY <1>3 DEF Rejected, OwedInv
<1>4. CASE RejectedEnds
  BY <1>4, OwedEnds DEF RejectedEnds, SessionEnded, OwedInv
<1>5. CASE ReceiveMessage
  <2>1. CASE ReceivePiece
    BY <2>1, OwedStutter DEF ReceivePiece, Received
  <2>2. ASSUME NEW m, ReceiveAlerts(m) PROVE OwedInv'
    BY <2>2, OwedStutter DEF ReceiveAlerts, Receive, Received, Readable
  <2>3. ASSUME NEW m, ReceiveBroken(m) PROVE OwedInv'
    BY <2>3, OwedStutter DEF ReceiveBroken, Receive, Received
  <2>4. ASSUME NEW m, ReceiveNotif(m) PROVE OwedInv'
    BY <2>4, OwedStutter DEF ReceiveNotif, Receive, Received, Readable
  <2> QED
    BY <1>5, <2>1, <2>2, <2>3, <2>4 DEF ReceiveMessage
<1>6. CASE TaskStops
  <2>1. CASE session = "none"
    BY <1>6, <2>1 DEF TaskStops, SessionEnded, OwedInv
  <2>2. CASE session # "none"
    BY <1>6, <2>2, OwedEnds DEF TaskStops, SessionEnded
  <2> QED
    BY <2>1, <2>2
<1> QED
  BY <1>1, <1>2, <1>3, <1>4, <1>5, <1>6 DEF WsStep

LEMMA OwedLoopStep == OwedInv /\ LoopStep => OwedInv'
<1> SUFFICES ASSUME OwedInv, LoopStep PROVE OwedInv'
  OBVIOUS
<1> USE DEF SameTasks
<1>1. CASE Expire \/ ExpireTimer \/ ExpireFlags
  BY <1>1, OwedStutter DEF Expire, ExpireTimer, ExpireFlags
<1>2. CASE LoopCompute \/ LoopStore \/ LoopPend \/ HandOver
  BY <1>2, OwedStutter DEF LoopCompute, LoopStore, LoopPend, HandOver
<1>3. CASE Offline \/ EndSession \/ KeepSession \/ AwaitReconnect
  BY <1>3, OwedStutter DEF Offline, EndSession, KeepSession, AwaitReconnect
<1>4. CASE StillOffline
  BY <1>4 DEF StillOffline, OfflineReset, OwedInv
<1>5. CASE StoppedOffline
  BY <1>5 DEF StoppedOffline, OfflineReset, OwedInv
<1>6. CASE StoppedRetry
  BY <1>6 DEF StoppedRetry, ScheduleReconnect, NextBase, OwedInv
<1>7. CASE StartClient
  BY <1>7 DEF StartClient, OwedInv
<1> QED
  BY <1>1, <1>2, <1>3, <1>4, <1>5, <1>6, <1>7 DEF LoopStep

LEMMA OwedOtherStep == OwedInv /\ (Time \/ World) => OwedInv'
<1> SUFFICES ASSUME OwedInv, Time \/ World PROVE OwedInv'
  OBVIOUS
<1>1. CASE Time
  BY <1>1, OwedStutter
     DEF Time, TtlPasses, Ages, FallsSilent, BackoffPasses, SameButLink
<1>2. ASSUME NEW r \in Regions, NEW f \in AlertFlags, Change(r, f) \/ ChangeLost(r, f)
      PROVE  OwedInv'
  BY <1>2, OwedStutter DEF Change, ChangeLost, SameClient
<1>3. ASSUME NEW r \in Regions, NEW f \in NotifFlags, Notify(r, f)
      PROVE  OwedInv'
  BY <1>3, OwedStutter DEF Notify, SameClient
<1>4. CASE Disconnected
  BY <1>4, OwedEnds DEF Disconnected, SessionEnded
<1>5. CASE Refused
  BY <1>5 DEF Refused, OwedInv
<1>6. CASE PathDies \/ NetDown \/ NetUp
  BY <1>6 DEF PathDies, NetDown, NetUp, Dies, SameClient, OwedInv
<1>7. CASE StartClientFails
  BY <1>7 DEF StartClientFails, ScheduleReconnect, SameTasks, OwedInv
<1>8. ASSUME NEW h \in Homes, SetRegion(h)
      PROVE  OwedInv'
  BY <1>8, OwedStutter DEF SetRegion
<1> QED
  BY <1>1, <1>2, <1>3, <1>4, <1>5, <1>6, <1>7, <1>8 DEF World

\* A client that was refused, or closed with code 1008, is not started before
\* the longest wait (on_ws_rejected, schedule_reconnect), in whatever order
\* the two tasks run, unless Wi-Fi was lost meanwhile.
THEOREM RejectionServed == JaamSpec => RejectedWaits
<1>1. JaamInit => OwedInv
  BY OwedInit
<1>2. OwedInv /\ [JaamNext]_vars => OwedInv'
  <2>1. OwedInv /\ UNCHANGED vars => OwedInv'
    BY OwedStutter DEF vars
  <2> QED
    BY <2>1, OwedWsStep, OwedLoopStep, OwedOtherStep DEF JaamNext
<1>3. OwedInv => [StartClient => ~owed]_vars
  BY DEF OwedInv, StartClient
<1> QED
  BY <1>1, <1>2, <1>3, PTL DEF JaamSpec, RejectedWaits

-----------------------------------------------------------------------------
(* The table is the server's *)

USE JaamAssumption

\* A frame starts with its first event and a message ends with the last of a frame.
LEMMA FramedFacts ==
  ASSUME NEW e, Framed(e)
  PROVE  Len(e) \in Nat \ {0} /\ e[1].pos = 1 /\ e[Len(e)].pos = e[Len(e)].of
<1>1. e \in Seq(Event) /\ e # <<>>
  BY DEF Framed
<1>2. Len(e) \in Nat \ {0}
  BY <1>1, EmptySeq, LenProperties
<1> QED
  BY <1>2 DEF Framed

LEMMA OneEventFramed == Len(OneEvent) = 1 /\ OneEvent[1].pos = 1 /\ OneEvent[1].of = 1
BY DEF OneEvent

\* The entries of a 0xA1 name regions and alerts that exist, and what comes in several
\* events is a snapshot.
LEMMA MessageFacts ==
  ASSUME NEW m \in Messages
  PROVE  /\ m.type \in {"A1", "A2"} /\ Len(m.events) \in Nat \ {0}
         /\ Len(m.events) = 1 => m.events[1].pos = 1 /\ m.events[1].of = 1
         /\ Len(m.events) # 1 => m.type = "A1" /\ m.prev = 0
         /\ m.type = "A1" => /\ m.prev \in 0..MaxChanges + 1 /\ m.hash \in 1..MaxChanges + 1
                             /\ m.set \in Sets /\ DOMAIN m.set \subseteq Regions
                             /\ \A r \in DOMAIN m.set : m.set[r] \in AlertFlags
                             /\ m = [type |-> "A1", prev |-> m.prev, hash |-> m.hash, set |-> m.set,
                                     events |-> m.events]
         /\ m.type = "A2" => m.region \in Regions /\ m.flags \in NotifFlags
<1>1. /\ m.type \in {"A1", "A2"} /\ m.events \in {OneEvent} \cup Framings
      /\ m.events # OneEvent => m.type = "A1" /\ m.prev = 0
      /\ m.type = "A2" => m.region \in Regions /\ m.flags \in NotifFlags
  BY DEF Messages
<1>2. /\ Len(m.events) \in Nat \ {0} 
      /\ Len(m.events) = 1 => m.events[1].pos = 1 /\ m.events[1].of = 1
  <2>1. CASE m.events = OneEvent
    BY <2>1, OneEventFramed
  <2>2. CASE m.events \in Framings
    <3>1. Framed(m.events)
      BY <2>2
    <3> QED
      BY <3>1, FramedFacts
  <2> QED
    BY <1>1, <2>1, <2>2
<1>3. ASSUME m.type = "A1"
      PROVE  /\ m.prev \in 0..MaxChanges + 1 /\ m.hash \in 1..MaxChanges + 1
             /\ m.set \in Sets /\ DOMAIN m.set \subseteq Regions
             /\ \A r \in DOMAIN m.set : m.set[r] \in AlertFlags
             /\ m = [type |-> "A1", prev |-> m.prev, hash |-> m.hash, set |-> m.set, events |-> m.events]
  <2>1. /\ m.prev \in 0..MaxChanges + 1 /\ m.hash \in 1..MaxChanges + 1 /\ m.set \in Sets
        /\ m = [type |-> "A1", prev |-> m.prev, hash |-> m.hash, set |-> m.set, events |-> m.events]
    BY <1>3 DEF Messages, Hashes
  <2>2. PICK D \in SUBSET Regions : m.set \in [D -> AlertFlags]
    BY <2>1 DEF Sets
  <2> QED
    BY <2>1, <2>2
<1>4. Len(m.events) # 1 => m.type = "A1" /\ m.prev = 0
  BY <1>1, OneEventFramed
<1> QED
  BY <1>1, <1>2, <1>3, <1>4

\* There is always a current state of the alerts.
LEMMA HistFacts ==
  ASSUME JaamTypeOK
  PROVE  /\ hist \in Seq([Regions -> AlertFlags]) /\ Len(hist) \in Nat \ {0}
         /\ \A i \in 1..Len(hist) : hist[i] \in [Regions -> AlertFlags]
         /\ Truth \in [Regions -> AlertFlags] /\ Len(hist) <= MaxChanges + 1 /\ MaxChanges \in Nat
<1>1. hist \in Seq([Regions -> AlertFlags]) /\ Len(hist) \in 1..MaxChanges + 1 /\ MaxChanges \in Nat
  BY DEF JaamTypeOK
<1>2. \A i \in 1..Len(hist) : hist[i] \in [Regions -> AlertFlags]
  BY <1>1, ElementOfSeq
<1>3. Len(hist) \in 1..Len(hist)
  BY <1>1
<1> QED
  BY <1>1, <1>2, <1>3 DEF Truth

\* The state of the alerts a set of entries leads to is one of the table's kind.
LEMMA AppliedType ==
  ASSUME NEW s \in Sets, NEW t \in [Regions -> AlertFlags]
  PROVE  Applied(s, t) \in [Regions -> AlertFlags]
<1>1. PICK D \in SUBSET Regions : s \in [D -> AlertFlags]
  BY DEF Sets
<1> QED
  BY <1>1 DEF Applied

LEMMA ClearType == Clear \in [Regions -> AlertFlags]
BY DEF Clear

\* Every flag there can be is a bit of flags_.
LEMMA BitFacts ==
  /\ \A f \in AlertFlags \cup NotifFlags : f \subseteq Bits
  /\ \A f \in SUBSET Bits : Level(f) \in SUBSET Bits
<1>1. \A f \in AlertFlags \cup NotifFlags : f \subseteq Bits
  BY DEF Bits
<1>2. {"air", "yellow", "red"} \subseteq Bits
  BY DEF Bits
<1> QED
  BY <1>1, <1>2 DEF Level

LEMMA ChainFacts ==
  ASSUME NEW h \in Homes, NEW i \in Levels
  PROVE  Chain[h][i] \in Regions
<1>1. i \in DOMAIN Chain[h]
  BY DEF Levels
<1>2. Chain[h][i] \in Range(Chain[h])
  BY <1>1 DEF Range
<1> QED
  BY <1>2 DEF Regions

\* What either task computes is a set of flags.
LEMMA FusionType ==
  ASSUME NEW t \in [Regions -> AlertFlags], NEW n \in [Levels -> SUBSET Bits], NEW h \in Homes
  PROVE  Fusion(t, n, h) \in SUBSET Bits
<1>1. \A i \in Levels : t[Chain[h][i]] \cup n[i] \in SUBSET Bits
  <2> TAKE i \in Levels
  <2>1. t[Chain[h][i]] \in AlertFlags
    BY ChainFacts
  <2> QED
    BY <2>1, BitFacts
<1>2. UNION {t[Chain[h][i]] \cup n[i] : i \in Levels} \in SUBSET Bits
  BY <1>1
<1> QED
  BY <1>2, BitFacts DEF Fusion

LEMMA SessionInit == JaamInit => SessionSound
<1> SUFFICES ASSUME JaamInit PROVE SessionSound
  OBVIOUS
<1>1. PICK t \in [Regions -> AlertFlags] : hist = <<t>>
  <2>1. PICK t \in {Clear} \cup {[Clear EXCEPT ![r] = f] : r \in Regions, f \in AlertFlags} : hist = <<t>>
    BY DEF JaamInit
  <2>2. t \in [Regions -> AlertFlags]
    BY <2>1, ClearType
  <2> QED
    BY <2>1, <2>2
<1>2. hist \in Seq([Regions -> AlertFlags]) /\ Len(hist) = 1
  BY <1>1
<1>3. Len(hist) \in 1..MaxChanges + 1
  BY <1>2
<1>4. /\ 0 \in Nat /\ 0 \in 0..BufEvents /\ 0 \in 0..MaxChanges + 1
      /\ 0 \in 0..MaxNotifs /\ 0 \in 0..MaxUpsets /\ 0 \in 0..MaxMoves
  OBVIOUS
<1>5. {wf, mf, flags, reported} \subseteq SUBSET (Bits \cup Unset)
  BY DEF JaamInit, Unset
<1>6. notif \in [Levels -> SUBSET Bits]
  BY DEF JaamInit, Quiet
<1>7. {pending, connected, wasConnected, aged, silent, ended, requested,
       penalty, due, owed, cut, raced} \subseteq BOOLEAN
  BY DEF JaamInit
<1>8. /\ part = 0 /\ net \in BOOLEAN /\ session = "none" /\ ws = "idle" /\ rxLen = 0 /\ table = Clear
      /\ hasHash = FALSE /\ lastHash = 0 /\ mn = "compute" /\ home \in Homes /\ ttl = "off" /\ base = 0
      /\ notifs = 0 /\ upsets = 0 /\ moves = 0
  BY DEF JaamInit
<1>9. JaamTypeOK
  <2>1. part \in Nat
    BY <1>4, <1>8
  <2>2. rxLen \in 0..BufEvents /\ lastHash \in 0..MaxChanges + 1
    BY <1>4, <1>8
  <2>3. notifs \in 0..MaxNotifs /\ upsets \in 0..MaxUpsets /\ moves \in 0..MaxMoves
    BY <1>4, <1>8
  <2>4. table \in [Regions -> AlertFlags]
    BY <1>8, ClearType, Zenon
  <2>5. base \in 0..6
    BY <1>8
  <2>6. hasHash \in BOOLEAN
    BY <1>8, Zenon
  <2> QED
    BY <1>2, <1>3, <1>5, <1>6, <1>7, <1>8, <2>1, <2>2, <2>3, <2>4, <2>5, <2>6 DEF JaamTypeOK
<1>10. TableIsTruth /\ Chained /\ Assembled /\ SnapshotFirst
  BY DEF JaamInit, TableIsTruth, Chained, Assembled, SnapshotFirst
<1> QED
  BY <1>9, <1>10 DEF SessionSound

\* Steps that leave what has come and what is coming alone; a session only ends, or
\* starts while nothing is on the wire.
LEMMA SessionStutter ==
  ASSUME TableIsTruth, Chained, Assembled, SnapshotFirst,
         UNCHANGED <<hist, wire, part, cut, rxLen, table, hasHash, lastHash>>,
         session' = session \/ session' = "dead" \/ session \notin {"open", "dead"},
         session' = "open" => session = "open",
         ws' = "clear" <=> ws = "clear"
  PROVE  TableIsTruth' /\ Chained' /\ Assembled' /\ SnapshotFirst'
<1>1. Clear' = Clear
  BY DEF Clear
<1>2. TableIsTruth'
  BY DEF TableIsTruth
<1>3. Chained'
  BY <1>1 DEF Chained, Leads, Applied
<1>4. Assembled'
  BY DEF Assembled
<1>5. SnapshotFirst'
  BY <1>1 DEF SnapshotFirst
<1> QED
  BY <1>2, <1>3, <1>4, <1>5

\* The end of a session.
LEMMA SessionOver ==
  ASSUME TableIsTruth, Chained, SnapshotFirst, UNCHANGED <<hist, cut, table, hasHash, lastHash>>,
         session' = "over", wire' = <<>>, part' = 0
  PROVE  TableIsTruth' /\ Chained' /\ Assembled' /\ SnapshotFirst'
<1>1. Clear' = Clear
  BY DEF Clear
<1>2. TableIsTruth' /\ Chained'
  BY DEF TableIsTruth, Chained
<1>3. Assembled' /\ SnapshotFirst'
  BY <1>1 DEF Assembled, SnapshotFirst
<1> QED
  BY <1>2, <1>3

LEMMA SessionConnects ==
  ASSUME TableIsTruth, Chained, Assembled, SnapshotFirst, OnConnected
  PROVE  TableIsTruth' /\ Chained' /\ Assembled' /\ SnapshotFirst'
<1>1. wire = <<>> /\ wire' = wire /\ UNCHANGED <<hist, part, cut, table, hasHash, lastHash>> /\ ws' = "clear"
  BY DEF OnConnected, Assembled
<1>2. Clear' = Clear
  BY DEF Clear
<1>3. TableIsTruth' /\ Chained'
  BY <1>1 DEF TableIsTruth, Chained
<1>4. Assembled' /\ SnapshotFirst'
  BY <1>1, <1>2 DEF Assembled, SnapshotFirst
<1> QED
  BY <1>3, <1>4

\* What the server says of all regions, or of those with an alert, is the truth.
LEMMA SnapshotLeads ==
  ASSUME JaamTypeOK, NEW D \in {Alerting, Regions}, NEW e \in Framings
  PROVE  /\ Snapshot(D, e) \in Messages /\ Leads(Snapshot(D, e))
         /\ Snapshot(D, e).prev = 0 /\ Snapshot(D, e).type = "A1"
<1> DEFINE f == [r \in D |-> Truth[r]]
<1>1. D \subseteq Regions /\ f \in [D -> AlertFlags]
  BY HistFacts DEF Alerting
<1>2. f \in Sets
  BY <1>1 DEF Sets
<1>3. Len(hist) \in Hashes /\ Len(hist) \in 1..MaxChanges + 1
  BY HistFacts DEF Hashes
<1>4. hist[Len(hist)] = Applied(f, Clear)
  <2>1. \A r \in Regions : Truth[r] = IF r \in DOMAIN f THEN f[r] ELSE Clear[r]
    BY DEF Alerting, Clear
  <2>2. Truth = [r \in Regions |-> Truth[r]]
    BY HistFacts
  <2> QED
    BY <2>1, <2>2 DEF Applied, Truth
<1>5. Snapshot(D, e) = [type |-> "A1", prev |-> 0, hash |-> Len(hist), set |-> f, events |-> e]
  BY DEF Snapshot, A1
<1> HIDE DEF f
<1>6. Snapshot(D, e) \in Messages
  BY <1>2, <1>3, <1>5 DEF Messages
<1>7. Leads(Snapshot(D, e))
  BY <1>3, <1>4, <1>5, HistFacts DEF Leads
<1> QED
  BY <1>5, <1>6, <1>7

LEMMA SessionCleared ==
  ASSUME JaamTypeOK, ClearFusionState
  PROVE  TableIsTruth' /\ Chained' /\ Assembled' /\ SnapshotFirst'
<1>1. /\ ws' = "idle" /\ table' = Clear /\ hasHash' = FALSE /\ rxLen' = 0 /\ part' = 0
      /\ UNCHANGED <<hist, session>>
  BY DEF ClearFusionState, Emptied
<1>2. PICK m \in Messages :
        /\ Leads(m) /\ m.prev = 0 /\ m.type = "A1"
        /\ wire' = IF session = "open" THEN <<m>> ELSE <<>>
  BY SnapshotLeads DEF ClearFusionState
<1>3. m \in Messages /\ Leads(m) /\ m.prev = 0 /\ m.type = "A1" /\ Len(m.events) \in Nat \ {0}
  BY <1>2, MessageFacts
<1>4. wire' = IF session = "open" THEN <<m>> ELSE <<>>
  BY <1>2
<1>5. CASE session = "open"
  <2>1. wire' = <<m>> /\ wire' \in Seq(Messages) /\ Len(wire') = 1 /\ wire'[1] = m /\ Head(wire') = m
        /\ wire' # <<>>
    BY <1>3, <1>4, <1>5
  <2>2. \A i \in 1..Len(wire') : wire'[i] = m
    BY <2>1
  <2>3. Leads(m)'
    BY <1>1, <1>3 DEF Leads, Applied, Clear
  <2>4. \A i \in 1..Len(wire') : Leads(wire[i])'
    BY <2>2, <2>3 DEF Leads
  <2>5. Chained'
    BY <1>1, <2>1, <2>4 DEF Chained
  <2>6. Assembled'
    BY <1>1, <1>3, <1>5, <2>1 DEF Assembled
  <2>7. SnapshotFirst'
    BY <1>1, <1>3, <2>1 DEF SnapshotFirst, Clear
  <2> QED
    BY <1>1, <2>5, <2>6, <2>7 DEF TableIsTruth
<1>6. CASE session # "open"
  BY <1>1, <1>4, <1>6 DEF TableIsTruth, Chained, Assembled, SnapshotFirst
<1> QED
  BY <1>5, <1>6

\* The message being received is a good one, and not all of it has come.
LEMMA WireFacts ==
  ASSUME Chained, Assembled, wire # <<>>
  PROVE  /\ Head(wire) \in Messages /\ Leads(Head(wire)) /\ Tail(wire) \in Seq(Messages)
         /\ \A i \in 1..Len(Tail(wire)) : Leads(Tail(wire)[i])
         /\ part < Len(Head(wire).events) /\ Len(Head(wire).events) \in Nat \ {0}
<1>1. wire \in Seq(Messages) /\ \A i \in 1..Len(wire) : Leads(wire[i])
  BY DEF Chained
<1> DEFINE t == Tail(wire)
<1>2. /\ Len(wire) \in Nat \ {0} /\ Head(wire) = wire[1] /\ Head(wire) \in Messages
      /\ t \in Seq(Messages) /\ Len(t) = Len(wire) - 1 /\ \A i \in 1..Len(t) : t[i] = wire[i + 1]
  <2>1. Len(wire) \in Nat \ {0} /\ t \in Seq(Messages)
    BY <1>1, EmptySeq, HeadTailProperties, Zenon
  <2> QED
    BY <1>1, <2>1, HeadTailProperties
<1> HIDE DEF t
<1>3. Leads(Head(wire)) /\ \A i \in 1..Len(t) : Leads(t[i])
  <2> DEFINE n == Len(wire)
  <2>1. n \in Nat \ {0} /\ Len(t) = n - 1 /\ \A i \in 1..n : Leads(wire[i])
    BY <1>1, <1>2
  <2> HIDE DEF n
  <2>2. 1 \in 1..n /\ \A i \in 1..Len(t) : i + 1 \in 1..n
    BY <2>1
  <2> QED
    BY <1>2, <2>1, <2>2
<1>4. part < Len(Head(wire).events)
  BY DEF Assembled
<1> QED
  BY <1>2, <1>3, <1>4, MessageFacts DEF t

\* What is parsed is the message, or some entries of a snapshot.
LEMMA ParsedFacts ==
  ASSUME JaamTypeOK, Chained, Assembled, wire # <<>>, NEW m \in Parsed
  PROVE  \/ m = Head(wire)
         \/ /\ Len(Head(wire).events) # 1
            /\ Head(wire).type = "A1" /\ m.type = "A1"
            /\ Head(wire).prev = 0 /\ m.prev = 0 /\ m.hash = Head(wire).hash
            /\ m.set \in Sets /\ DOMAIN m.set \subseteq DOMAIN Head(wire).set
            /\ \A r \in DOMAIN m.set : m.set[r] = Head(wire).set[r]
<1> DEFINE h == Head(wire)
<1>1. h \in Messages /\ part \in Nat /\ part < Len(h.events) /\ Len(h.events) \in Nat \ {0}
  BY WireFacts DEF JaamTypeOK
<1>2. CASE Len(h.events) = 1
  <2>0. part = 0
    <3> DEFINE n == Len(h.events)
    <3>1. n = 1 /\ part \in Nat /\ part < n
      BY <1>1, <1>2
    <3> HIDE DEF n
    <3> QED
      BY <3>1
  <2>1. Arriving.pos = 1 /\ Arriving.of = 1
    BY <1>1, <1>2, <2>0, MessageFacts DEF Arriving
  <2>2. Handed /\ Held + 1 = Len(h.events)
    BY <1>2, <2>1 DEF Handed, Held, Alone
  <2> QED
    BY <2>2 DEF Parsed
<1>3. CASE Len(h.events) # 1 /\ m # h
  <2>1. Len(h.events) # 1 /\ h.type = "A1" /\ h.prev = 0 /\ h.set \in Sets
    BY <1>1, <1>3, MessageFacts
  <2> HIDE DEF h
  <2>2. PICK D \in SUBSET DOMAIN h.set : m = [h EXCEPT !.set = Restrict(h.set, D)]
    BY <1>3 DEF Parsed, h
  <2>3. h = [type |-> "A1", prev |-> h.prev, hash |-> h.hash, set |-> h.set, events |-> h.events]
    BY <1>1, <2>1, MessageFacts
  <2>4. /\ m.type = "A1" /\ m.prev = 0 /\ m.hash = h.hash
        /\ m.set = [r \in D |-> h.set[r]]
    BY <2>1, <2>2, <2>3 DEF Restrict
  <2>5. m.set \in Sets
    <3>1. PICK E \in SUBSET Regions : h.set \in [E -> AlertFlags]
      BY <2>1 DEF Sets
    <3>2. D \in SUBSET Regions /\ m.set \in [D -> AlertFlags]
      BY <2>2, <2>4, <3>1
    <3> QED
      BY <3>2 DEF Sets
  <2> QED
    BY <2>1, <2>4, <2>5 DEF h
<1> QED
  BY <1>2, <1>3

\* What remains of the wire after an event.
LEMMA SessionReceived ==
  ASSUME JaamTypeOK, Chained, Assembled, Received
  PROVE  /\ wire # <<>> /\ session = "open" /\ ws = "idle" /\ hist' = hist /\ session' = session
         /\ wire' \in Seq(Messages) /\ \A i \in 1..Len(wire') : Leads(wire[i])'
         /\ Assembled' \/ ws' = "clear"
         /\ part' \in Nat /\ rxLen' \in 0..BufEvents /\ cut' \in BOOLEAN
         /\ cut => cut'
         /\ Len(Head(wire).events) # 1 => cut'
<1> DEFINE n == Len(Head(wire).events)
<1>1. /\ wire # <<>> /\ session = "open" /\ ws = "idle" /\ hist' = hist /\ session' = session
      /\ wire' = (IF part + 1 = n THEN Tail(wire) ELSE wire)
      /\ part' = (IF part + 1 = n THEN 0 ELSE part + 1)
      /\ cut' = (cut \/ n > 1)
  BY DEF Received, Readable
<1>2. n \in Nat \ {0} /\ part \in Nat /\ part < n
  BY <1>1, WireFacts DEF JaamTypeOK
<1>3. /\ wire' \in Seq(Messages)
      /\ \A i \in 1..Len(wire') : Leads(wire'[i])
  <2>1. CASE part + 1 = n
    BY <1>1, <2>1, WireFacts
  <2>2. CASE part + 1 # n
    BY <1>1, <2>2 DEF Chained
  <2> QED
    BY <2>1, <2>2
<1>4. \A i \in 1..Len(wire') : Leads(wire[i])'
  BY <1>1, <1>3 DEF Leads
<1>5. wire' # <<>> => part' < Len(Head(wire').events)
  <2>1. CASE part + 1 = n
    <3>1. wire' # <<>> => Head(wire') \in Messages
      BY <1>3, HeadTailProperties
    <3>2. wire' # <<>> => Len(Head(wire').events) \in Nat \ {0}
      BY <3>1, MessageFacts
    <3> QED
      BY <1>1, <2>1, <3>2
  <2>2. CASE part + 1 # n
    <3> HIDE DEF n
    <3>1. part + 1 < n
      BY <1>2, <2>2
    <3> QED
      BY <1>1, <2>2, <3>1 DEF n
  <2> QED
    BY <2>1, <2>2
<1> HIDE DEF n
<1>6. part' > 0 => cut'
  <2>1. CASE part + 1 = n
    BY <1>1, <2>1
  <2>2. CASE part + 1 # n
    <3>1. n > 1
      BY <1>2, <2>2
    <3> QED
      BY <1>1, <3>1
  <2> QED
    BY <2>1, <2>2
<1>7. wire' = <<>> => part' = 0
  BY <1>1
<1>8. Assembled' \/ ws' = "clear"
  BY <1>1, <1>5, <1>6, <1>7 DEF Assembled
<1>9. rxLen' \in 0..BufEvents
  <2>1. rxLen' = IF Alone THEN rxLen ELSE IF Fits /\ ~Handed THEN Held + 1 ELSE 0
    BY DEF Received
  <2>2. Held \in Nat /\ rxLen \in 0..BufEvents
    BY DEF Held, JaamTypeOK
  <2>3. Fits => Held + 1 \in 0..BufEvents
    BY <2>2 DEF Fits
  <2> QED
    BY <2>1, <2>2, <2>3
<1>10. part' \in Nat
  BY <1>1, <1>2
<1>11. cut' \in BOOLEAN /\ (cut => cut')
  BY <1>1
<1>12. n # 1 => cut'
  <2>1. n # 1 => n > 1
    BY <1>2
  <2> QED
    BY <1>1, <2>1
<1> QED
  BY <1>1, <1>3, <1>4, <1>8, <1>9, <1>10, <1>11, <1>12 DEF n

\* An event that is parsed to no effect belongs to a message that came in several.
LEMMA SessionPiece ==
  ASSUME JaamTypeOK, TableIsTruth, Chained, Assembled, SnapshotFirst, ReceivePiece
  PROVE  TableIsTruth' /\ Chained' /\ Assembled' /\ SnapshotFirst'
<1>1. /\ Received /\ Len(Head(wire).events) > 1
      /\ ws' = ws /\ UNCHANGED <<table, hasHash, lastHash>>
  BY DEF ReceivePiece
<1>2. /\ ws = "idle" /\ hist' = hist /\ wire' \in Seq(Messages)
      /\ \A i \in 1..Len(wire') : Leads(wire[i])'
      /\ Assembled' /\ cut' /\ cut' \in BOOLEAN
  <2> DEFINE n == Len(Head(wire).events)
  <2>1. n > 1 /\ n \in Nat
    BY <1>1, SessionReceived, WireFacts
  <2> HIDE DEF n
  <2>2. n # 1
    BY <2>1
  <2> QED
    BY <1>1, <2>2, SessionReceived DEF n
<1>3. Chained'
  BY <1>1, <1>2 DEF Chained
<1>4. SnapshotFirst'
  BY <1>1, <1>2 DEF SnapshotFirst, Clear
<1>5. TableIsTruth'
  BY <1>1, <1>2 DEF TableIsTruth
<1> QED
  BY <1>2, <1>3, <1>4, <1>5

\* The first 0xA1 of a session is its snapshot, or some entries of it, and the others
\* continue the chain.
LEMMA SessionAlerts ==
  ASSUME JaamTypeOK, TableIsTruth, Chained, Assembled, SnapshotFirst,
         NEW m \in Parsed, ReceiveAlerts(m)
  PROVE  /\ TableIsTruth' /\ Chained' /\ Assembled' /\ SnapshotFirst'
         /\ table' \in [Regions -> AlertFlags] /\ lastHash' \in 0..MaxChanges + 1
<1> DEFINE h == Head(wire)
<1>1. /\ Received /\ m.type = "A1" /\ Follows(m) /\ lastHash' = m.hash /\ hasHash' = TRUE /\ ws' = "compute"
      /\ table' = Applied(m.set, table)
  BY DEF ReceiveAlerts, Receive, Applied
<1>2. /\ session = "open" /\ ws = "idle" /\ wire # <<>>
      /\ hist' = hist /\ wire' \in Seq(Messages) /\ \A i \in 1..Len(wire') : Leads(wire[i])'
      /\ Assembled' /\ (cut => cut') /\ (Len(h.events) # 1 => cut')
  BY <1>1, SessionReceived
<1>3. h \in Messages /\ Leads(h) /\ Len(h.events) \in Nat \ {0}
  BY <1>2, WireFacts
<1>4. /\ h.type = "A1" /\ m.hash = h.hash /\ m.prev = h.prev
      /\ m.set \in Sets /\ DOMAIN m.set \subseteq DOMAIN h.set
      /\ \A r \in DOMAIN m.set : m.set[r] = h.set[r]
      /\ m # h => Len(h.events) # 1
  <2>1. CASE m = h
    BY <1>1, <1>3, <2>1, MessageFacts
  <2>2. CASE m # h
    BY <1>2, <2>2, ParsedFacts
  <2> QED
    BY <2>1, <2>2
<1>5. /\ h.hash \in 1..MaxChanges + 1 /\ h.hash <= Len(hist)
      /\ hist[h.hash] = Applied(h.set, IF h.prev = 0 THEN Clear ELSE hist[h.prev])
      /\ Len(h.events) # 1 => h.prev = 0
  BY <1>3, <1>4, MessageFacts DEF Leads
<1> HIDE DEF h
<1>6. ASSUME NEW r \in Regions
      PROVE  table'[r] = hist[h.hash][r] \/ (cut' /\ table'[r] = {})
  <2>1. /\ table'[r] = IF r \in DOMAIN m.set THEN m.set[r] ELSE table[r]
        /\ hist[h.hash][r] = IF r \in DOMAIN h.set THEN h.set[r]
                             ELSE IF h.prev = 0 THEN Clear[r] ELSE hist[h.prev][r]
    BY <1>1, <1>5 DEF Applied
  <2>2. CASE r \in DOMAIN m.set
    BY <1>4, <2>1, <2>2
  <2>3. CASE r \notin DOMAIN m.set /\ hasHash
    <3>1. m.prev = lastHash /\ lastHash \in 1..Len(hist) /\ h.prev # 0
      BY <1>1, <1>4, <2>3 DEF Follows, Chained
    <3>2. m = h
      BY <1>4, <1>5, <3>1
    <3>3. table[r] = hist[lastHash][r] \/ (cut /\ table[r] = {})
      BY <2>3 DEF TableIsTruth
    <3> QED
      BY <1>2, <1>4, <2>1, <2>3, <3>1, <3>2, <3>3
  <2>4. CASE r \notin DOMAIN m.set /\ ~hasHash
    <3>1. table = Clear /\ Clear[r] = {}
      BY <2>4 DEF SnapshotFirst, Clear
    <3>2. CASE cut'
      BY <2>1, <2>4, <3>1, <3>2
    <3>3. CASE ~cut'
      <4>1. m = h /\ ~cut
        BY <1>2, <1>4, <3>3
      <4>2. h.prev = 0
        BY <1>2, <2>4, <4>1 DEF SnapshotFirst, h
      <4> QED
        BY <2>1, <2>4, <3>1, <4>1, <4>2
    <3> QED
      BY <3>2, <3>3
  <2> QED
    BY <2>2, <2>3, <2>4
<1>7. TableIsTruth'
  <2>1. \A r \in Regions : table'[r] = hist'[lastHash'][r] \/ (cut' /\ table'[r] = {})
    BY <1>1, <1>2, <1>4, <1>6
  <2> QED
    BY <2>1 DEF TableIsTruth
<1>8. lastHash' \in 1..Len(hist') /\ lastHash' \in 0..MaxChanges + 1
  BY <1>1, <1>2, <1>4, <1>5, HistFacts
<1>9. Chained' /\ SnapshotFirst'
  BY <1>1, <1>2, <1>8 DEF Chained, SnapshotFirst
<1>10. table' \in [Regions -> AlertFlags]
  BY <1>1, <1>4, AppliedType DEF JaamTypeOK
<1> QED
  BY <1>2, <1>7, <1>8, <1>9, <1>10

\* A difference that does not follow, and a notification, leave the table alone.
LEMMA SessionOther ==
  ASSUME JaamTypeOK, TableIsTruth, Chained, Assembled, SnapshotFirst,
         NEW m \in Parsed, ReceiveBroken(m) \/ ReceiveNotif(m)
  PROVE  TableIsTruth' /\ Chained' /\ Assembled' /\ SnapshotFirst'
<1>1. Received /\ UNCHANGED <<table, hasHash, lastHash>> /\ ws' \in {ws, "idle", "arm"} /\ ws # "clear"
  BY DEF ReceiveBroken, ReceiveNotif, Receive, Received, Readable
<1>2. /\ session = "open" /\ ws = "idle" /\ wire # <<>> /\ hist' = hist
      /\ wire' \in Seq(Messages) /\ \A i \in 1..Len(wire') : Leads(wire[i])'
      /\ Assembled' /\ (cut => cut') /\ (Len(Head(wire).events) # 1 => cut')
  BY <1>1, SessionReceived
<1>3. hasHash \/ cut'
  <2> SUFFICES ASSUME ~hasHash, ~cut' PROVE FALSE
    OBVIOUS
  <2>1. m = Head(wire) /\ ~cut
    BY <1>2, ParsedFacts
  <2> QED
    BY <1>2, <2>1 DEF ReceiveBroken, ReceiveNotif, Follows, SnapshotFirst
<1>4. Clear' = Clear
  BY DEF Clear
<1>5. TableIsTruth'
  BY <1>1, <1>2 DEF TableIsTruth
<1>6. Chained'
  BY <1>1, <1>2 DEF Chained
<1>7. SnapshotFirst'
  BY <1>1, <1>3, <1>4 DEF SnapshotFirst
<1> QED
  BY <1>2, <1>5, <1>6, <1>7

\* The server's alerts go on, and what it says of them comes behind the rest.
LEMMA SessionPush ==
  ASSUME JaamTypeOK, TableIsTruth, Chained, Assembled, SnapshotFirst,
         NEW m \in Messages, wire' = IF session = "open" /\ ws # "clear" THEN Append(wire, m) ELSE wire,
         Leads(m)', Len(hist) <= Len(hist'), Len(hist') \in Nat, \A i \in 1..Len(hist) : hist'[i] = hist[i],
         UNCHANGED <<part, cut, rxLen, table, hasHash, lastHash, session, ws>>
  PROVE  TableIsTruth' /\ Chained' /\ Assembled' /\ SnapshotFirst'
<1>1. Len(hist) \in Nat \ {0} /\ wire \in Seq(Messages) /\ Clear' = Clear
  BY HistFacts DEF Chained, Clear
<1>2. ASSUME NEW x \in Messages, Leads(x) PROVE Leads(x)'
  <2> SUFFICES ASSUME x.type = "A1" PROVE Leads(x)'
    BY DEF Leads
  <2>1. /\ x.hash \in 1..Len(hist) /\ x.prev \in 0..Len(hist)
        /\ hist[x.hash] = Applied(x.set, IF x.prev = 0 THEN Clear ELSE hist[x.prev])
    BY <1>1, <1>2, MessageFacts DEF Leads
  <2>2. hist'[x.hash] = hist[x.hash] /\ (x.prev # 0 => hist'[x.prev] = hist[x.prev])
    BY <1>1, <2>1
  <2>3. x.hash <= Len(hist') /\ x.prev <= Len(hist')
    <3> DEFINE a == Len(hist)
               b == Len(hist')
    <3>1. a \in Nat /\ b \in Nat /\ a <= b /\ x.hash \in 1..a /\ x.prev \in 0..a
      BY <1>1, <2>1
    <3> HIDE DEF a, b
    <3>2. x.hash <= b /\ x.prev <= b
      BY <3>1
    <3> QED
      BY <3>2 DEF b
  <2> QED
    BY <1>1, <2>1, <2>2, <2>3 DEF Leads, Applied
<1>3. /\ \A i \in 1..Len(wire) : wire'[i] = wire[i]
      /\ wire' \in Seq(Messages) /\ (wire # <<>> => wire' # <<>> /\ Head(wire') = Head(wire))
      /\ \A i \in 1..Len(wire') : wire'[i] = m \/ i \in 1..Len(wire)
      /\ wire' # <<>> => wire # <<>> \/ (session = "open" /\ ws # "clear" /\ Head(wire') = m)
  <2>1. CASE session = "open" /\ ws # "clear"
    <3>1. /\ Append(wire, m) \in Seq(Messages) /\ Len(Append(wire, m)) = Len(wire) + 1
          /\ \A i \in 1..Len(wire) : Append(wire, m)[i] = wire[i]
          /\ Append(wire, m)[Len(wire) + 1] = m
      BY <1>1, AppendProperties
    <3>2. Append(wire, m) # <<>> /\ Head(Append(wire, m)) = Append(wire, m)[1]
      BY <1>1, AppendProperties
    <3>3. wire # <<>> => Head(wire) = wire[1] /\ Len(wire) >= 1
      BY <1>1, EmptySeq
    <3>4. wire = <<>> => Head(Append(wire, m)) = m
      OBVIOUS
    <3>5. wire' = Append(wire, m)
      BY <2>1
    <3> QED
      BY <1>1, <2>1, <3>1, <3>2, <3>3, <3>4, <3>5
  <2>2. CASE ~(session = "open" /\ ws # "clear")
    BY <1>1, <2>2
  <2> QED
    BY <2>1, <2>2
<1>4. \A i \in 1..Len(wire) : Leads(wire[i])'
  <2> TAKE i \in 1..Len(wire)
  <2>1. PICK x \in Messages : x = wire[i] /\ Leads(x)
    <3>1. wire[i] \in Messages /\ Leads(wire[i])
      BY <1>1, ElementOfSeq DEF Chained
    <3> QED
      BY <3>1
  <2>2. wire'[i] = x /\ Leads(x)'
    BY <1>2, <1>3, <2>1
  <2> QED
    BY <2>2 DEF Leads
<1>5. \A i \in 1..Len(wire') : Leads(wire[i])'
  BY <1>3, <1>4 DEF Leads
<1>6. Chained' /\ TableIsTruth'
  <2>1. hasHash => lastHash \in 1..Len(hist) /\ lastHash \in 1..Len(hist')
    BY <1>1 DEF Chained
  <2> QED
    BY <1>3, <1>5, <2>1 DEF Chained, TableIsTruth
<1>7. Assembled'
  <2>1. Len(m.events) \in Nat \ {0}
    BY MessageFacts
  <2>2. wire # <<>> =>
          session \in {"open", "dead"} /\ ws # "clear" /\ part < Len(Head(wire).events)
    BY DEF Assembled
  <2>3. (wire = <<>> => part = 0) /\ (part > 0 => cut)
    BY DEF Assembled
  <2> QED
    BY <1>3, <2>1, <2>2, <2>3 DEF Assembled
<1>8. SnapshotFirst'
  BY <1>1, <1>3 DEF SnapshotFirst
<1> QED
  BY <1>6, <1>7, <1>8

-----------------------------------------------------------------------------
(* The types, one group of variables at a time *)

ServerOK == /\ hist \in Seq([Regions -> AlertFlags]) /\ Len(hist) \in 1..MaxChanges + 1
            /\ part \in Nat /\ cut \in BOOLEAN /\ notifs \in 0..MaxNotifs
TaskOK == /\ ws \in {"idle", "clear", "arm", "compute", "store", "pend", "refused", "rejected"}
          /\ wf \in SUBSET (Bits \cup Unset)
          /\ rxLen \in 0..BufEvents /\ table \in [Regions -> AlertFlags]
          /\ hasHash \in BOOLEAN /\ lastHash \in 0..MaxChanges + 1
LoopOK == /\ mn \in {"top", "expire", "wipe", "compute", "store", "pend", "link",
                     "stopOffline", "stopRetry", "take", "read", "report"}
          /\ mf \in SUBSET (Bits \cup Unset) /\ home \in Homes /\ reported \in SUBSET (Bits \cup Unset)
OutOK == flags \in SUBSET (Bits \cup Unset) /\ pending \in BOOLEAN /\ raced \in BOOLEAN
NoteOK == notif \in [Levels -> SUBSET Bits] /\ ttl \in {"off", "running", "due"}
LinkOK == /\ connected \in BOOLEAN /\ wasConnected \in BOOLEAN /\ aged \in BOOLEAN /\ silent \in BOOLEAN
          /\ ended \in BOOLEAN /\ requested \in BOOLEAN /\ penalty \in BOOLEAN /\ due \in BOOLEAN
          /\ owed \in BOOLEAN /\ base \in 0..6
EnvOK == /\ net \in BOOLEAN /\ session \in {"none", "connecting", "open", "dead", "over"}
         /\ upsets \in 0..MaxUpsets /\ moves \in 0..MaxMoves

LEMMA TypeParts ==
  JaamTypeOK <=> ServerOK /\ TaskOK /\ LoopOK /\ OutOK /\ NoteOK /\ LinkOK /\ EnvOK
BY SMTT(30) DEF JaamTypeOK, ServerOK, TaskOK, LoopOK, OutOK, NoteOK, LinkOK, EnvOK

LEMMA TypePartsNext ==
  ServerOK' /\ TaskOK' /\ LoopOK' /\ OutOK' /\ NoteOK' /\ LinkOK' /\ EnvOK' => JaamTypeOK'
BY DEF JaamTypeOK, ServerOK, TaskOK, LoopOK, OutOK, NoteOK, LinkOK, EnvOK

\* What a step leaves alone keeps its type.
LEMMA TypeKept ==
  /\ ServerOK /\ UNCHANGED server => ServerOK'
  /\ TaskOK /\ UNCHANGED wsTask => TaskOK'
  /\ LoopOK /\ UNCHANGED loopVars => LoopOK'
  /\ OutOK /\ UNCHANGED out => OutOK'
  /\ NoteOK /\ UNCHANGED note => NoteOK'
  /\ LinkOK /\ UNCHANGED link => LinkOK'
  /\ EnvOK /\ UNCHANGED env => EnvOK'
<1>1. ServerOK /\ UNCHANGED server => ServerOK'
  BY DEF ServerOK
<1>2. TaskOK /\ UNCHANGED wsTask => TaskOK'
  BY Zenon DEF TaskOK, Bits, Unset
<1>3. LoopOK /\ UNCHANGED loopVars => LoopOK'
  BY Zenon DEF LoopOK, Bits, Unset
<1>4. OutOK /\ UNCHANGED out => OutOK'
  BY Zenon DEF OutOK, Bits, Unset
<1>5. NoteOK /\ UNCHANGED note => NoteOK'
  BY Zenon DEF NoteOK, Bits
<1>6. LinkOK /\ UNCHANGED link => LinkOK'
  BY Zenon DEF LinkOK
<1>7. EnvOK /\ UNCHANGED env => EnvOK'
  BY Zenon DEF EnvOK
<1> QED
  BY <1>1, <1>2, <1>3, <1>4, <1>5, <1>6, <1>7

\* The end of a session, and the reset of its supervision.
LEMMA LinkKept ==
  ASSUME LinkOK
  PROVE  /\ OfflineReset => LinkOK'
         /\ ScheduleReconnect => LinkOK'
<1>1. OfflineReset => LinkOK'
  BY Zenon DEF OfflineReset, LinkOK
<1>2. NextBase \in 0..6 /\ Doubled(NextBase) \in 0..6
  BY DEF NextBase, Doubled, MaxBase, LinkOK
<1>3. (owed /\ NextBase # MaxBase) \in BOOLEAN
  OBVIOUS
<1>4. ScheduleReconnect => LinkOK'
  BY <1>2, <1>3, Zenon DEF ScheduleReconnect, LinkOK
<1> QED
  BY <1>1, <1>4

LEMMA UpsetKept ==
  /\ EnvOK /\ upsets < MaxUpsets => upsets + 1 \in 0..MaxUpsets
  /\ EnvOK /\ moves < MaxMoves => moves + 1 \in 0..MaxMoves
BY DEF EnvOK

\* The main loop.
LEMMA TypeLoop == JaamTypeOK /\ (LoopStep \/ StartClientFails) => JaamTypeOK'
<1> SUFFICES ASSUME JaamTypeOK, LoopStep \/ StartClientFails PROVE JaamTypeOK'
  OBVIOUS
<1>0. ServerOK /\ TaskOK /\ LoopOK /\ OutOK /\ NoteOK /\ LinkOK /\ EnvOK
  BY TypeParts
<1>1. CASE Expire
  <2>1. LoopOK'
    BY <1>0, <1>1, Zenon DEF Expire, LoopOK, Bits, Unset
  <2> QED
    BY <1>0, <1>1, <2>1, TypePartsNext, TypeKept DEF Expire
<1>2. CASE ExpireTimer
  <2>1. LoopOK' /\ NoteOK'
    BY <1>0, <1>2, Zenon DEF ExpireTimer, LoopOK, NoteOK, Bits, Unset
  <2> QED
    BY <1>0, <1>2, <2>1, TypePartsNext, TypeKept DEF ExpireTimer
<1>3. CASE ExpireFlags
  <2>1. LoopOK' /\ NoteOK'
    BY <1>0, <1>3 DEF ExpireFlags, LoopOK, NoteOK, Bits, Unset, Quiet
  <2> QED
    BY <1>0, <1>3, <2>1, TypePartsNext, TypeKept DEF ExpireFlags
<1>4. CASE LoopCompute
  <2>1. Fusion(table, notif, home) \in SUBSET (Bits \cup Unset)
    BY <1>0, FusionType DEF TaskOK, NoteOK, LoopOK
  <2>2. LoopOK'
    BY <1>0, <1>4, <2>1, Zenon DEF LoopCompute, LoopOK, Bits, Unset
  <2> QED
    BY <1>0, <1>4, <2>2, TypePartsNext, TypeKept DEF LoopCompute
<1>5. CASE LoopStore
  <2>1. LoopOK'
    BY <1>0, <1>5, Zenon DEF LoopStore, LoopOK, Bits, Unset
  <2>2. (raced \/ ws = "store") \in BOOLEAN
    OBVIOUS
  <2>3. OutOK'
    BY <1>0, <1>5, <2>2, Zenon DEF LoopStore, OutOK, LoopOK, Bits, Unset
  <2> QED
    BY <1>0, <1>5, <2>1, <2>3, TypePartsNext, TypeKept DEF LoopStore
<1>6. CASE LoopPend
  <2>1. LoopOK' /\ OutOK'
    BY <1>0, <1>6, Zenon DEF LoopPend, LoopOK, OutOK, Bits, Unset
  <2> QED
    BY <1>0, <1>6, <2>1, TypePartsNext, TypeKept DEF LoopPend
<1>7. CASE Offline \/ KeepSession \/ AwaitReconnect
  <2>1. LoopOK'
    BY <1>0, <1>7, Zenon DEF Offline, KeepSession, AwaitReconnect, SameTasks, LoopOK, Bits, Unset
  <2> QED
    BY <1>0, <1>7, <2>1, TypePartsNext, TypeKept DEF Offline, KeepSession, AwaitReconnect, SameTasks
<1>8. CASE StillOffline \/ StoppedOffline
  <2>1. LoopOK' /\ EnvOK'
    BY <1>0, <1>8, Zenon DEF StillOffline, StoppedOffline, SameTasks, LoopOK, EnvOK, Bits, Unset
  <2>2. LinkOK'
    BY <1>0, <1>8, LinkKept DEF StillOffline, StoppedOffline
  <2> QED
    BY <1>0, <1>8, <2>1, <2>2, TypePartsNext, TypeKept DEF StillOffline, StoppedOffline, SameTasks
<1>9. CASE EndSession \/ StartClient
  <2>1. LoopOK'
    BY <1>0, <1>9, Zenon DEF EndSession, StartClient, SameTasks, LoopOK, Bits, Unset
  <2>2. (requested \/ (connected /\ silent)) \in BOOLEAN
    OBVIOUS
  <2>3. LinkOK' /\ EnvOK'
    BY <1>0, <1>9, <2>2, ZenonT(40) DEF EndSession, StartClient, LinkOK, EnvOK
  <2> QED
    BY <1>0, <1>9, <2>1, <2>3, TypePartsNext, TypeKept DEF EndSession, StartClient, SameTasks
<1>10. CASE StoppedRetry \/ StartClientFails
  <2>1. LoopOK'
    BY <1>0, <1>10, Zenon DEF StoppedRetry, StartClientFails, SameTasks, LoopOK, Bits, Unset
  <2>2. LinkOK'
    BY <1>0, <1>10, LinkKept DEF StoppedRetry, StartClientFails
  <2>3. EnvOK'
    BY <1>0, <1>10, UpsetKept, Zenon DEF StoppedRetry, StartClientFails, EnvOK
  <2> QED
    BY <1>0, <1>10, <2>1, <2>2, <2>3, TypePartsNext, TypeKept DEF StoppedRetry, StartClientFails, SameTasks
<1>11. CASE HandOver
  <2>1. LoopOK' /\ OutOK'
    BY <1>0, <1>11, Zenon DEF HandOver, LoopOK, OutOK, Bits, Unset
  <2> QED
    BY <1>0, <1>11, <2>1, TypePartsNext, TypeKept DEF HandOver
<1> QED
  BY <1>1, <1>2, <1>3, <1>4, <1>5, <1>6, <1>7, <1>8, <1>9, <1>10, <1>11 DEF LoopStep

LEMMA ZeroFacts ==
  /\ 0 \in Nat /\ 0 \in 0..BufEvents /\ 0 \in 0..MaxChanges + 1
  /\ Quiet \in [Levels -> SUBSET Bits]
BY DEF Quiet

\* The websocket task, without what it receives.
LEMMA TypeWs ==
  ASSUME JaamTypeOK,
         OnConnected \/ ClearFusionState \/ Rejected \/ RejectedEnds \/ ArmNotif
           \/ WsCompute \/ WsStore \/ WsPend \/ TaskStops \/ Disconnected \/ Refused
  PROVE  JaamTypeOK'
<1>0. ServerOK /\ TaskOK /\ LoopOK /\ OutOK /\ NoteOK /\ LinkOK /\ EnvOK
  BY TypeParts
<1>1. CASE OnConnected
  <2>1. TaskOK' /\ LinkOK' /\ EnvOK'
    BY <1>0, <1>1, Zenon DEF OnConnected, TaskOK, LinkOK, EnvOK, Bits, Unset
  <2> QED
    BY <1>0, <1>1, <2>1, TypePartsNext, TypeKept DEF OnConnected
<1>2. CASE ClearFusionState
  <2>1. ServerOK' /\ TaskOK' /\ NoteOK'
    BY <1>0, <1>2, ClearType, ZeroFacts, Zenon
       DEF ClearFusionState, Emptied, ServerOK, TaskOK, NoteOK, Bits, Unset
  <2> QED
    BY <1>0, <1>2, <2>1, TypePartsNext, TypeKept DEF ClearFusionState
<1>3. CASE Rejected
  <2>1. TaskOK' /\ LinkOK'
    BY <1>0, <1>3, Zenon DEF Rejected, TaskOK, LinkOK, Bits, Unset
  <2> QED
    BY <1>0, <1>3, <2>1, TypePartsNext, TypeKept DEF Rejected
<1>4. CASE RejectedEnds \/ TaskStops
  <2>1. ServerOK' /\ EnvOK'
    BY <1>0, <1>4, ZeroFacts, Zenon DEF RejectedEnds, TaskStops, SessionEnded, ServerOK, EnvOK
  <2>2. TaskOK'
    BY <1>0, <1>4, Zenon DEF RejectedEnds, TaskStops, TaskOK, Bits, Unset
  <2>3. LinkOK'
    BY <1>0, <1>4, Zenon DEF RejectedEnds, TaskStops, SessionEnded, LinkOK
  <2> QED
    BY <1>0, <1>4, <2>1, <2>2, <2>3, TypePartsNext, TypeKept DEF RejectedEnds, TaskStops, SessionEnded
<1>5. CASE ArmNotif
  <2>1. TaskOK' /\ NoteOK'
    BY <1>0, <1>5, Zenon DEF ArmNotif, TaskOK, NoteOK, Bits, Unset
  <2> QED
    BY <1>0, <1>5, <2>1, TypePartsNext, TypeKept DEF ArmNotif
<1>6. CASE WsCompute
  <2>1. Fusion(table, notif, home) \in SUBSET (Bits \cup Unset)
    BY <1>0, FusionType DEF TaskOK, NoteOK, LoopOK
  <2>2. TaskOK'
    BY <1>0, <1>6, <2>1, Zenon DEF WsCompute, TaskOK, Bits, Unset
  <2> QED
    BY <1>0, <1>6, <2>2, TypePartsNext, TypeKept DEF WsCompute
<1>7. CASE WsStore
  <2>1. TaskOK'
    BY <1>0, <1>7, Zenon DEF WsStore, TaskOK, Bits, Unset
  <2>2. (raced \/ mn = "store") \in BOOLEAN
    OBVIOUS
  <2>3. OutOK'
    BY <1>0, <1>7, <2>2, Zenon DEF WsStore, OutOK, TaskOK, Bits, Unset
  <2> QED
    BY <1>0, <1>7, <2>1, <2>3, TypePartsNext, TypeKept DEF WsStore
<1>8. CASE WsPend
  <2>1. TaskOK' /\ OutOK'
    BY <1>0, <1>8, Zenon DEF WsPend, TaskOK, OutOK, Bits, Unset
  <2> QED
    BY <1>0, <1>8, <2>1, TypePartsNext, TypeKept DEF WsPend
<1>9. CASE Disconnected
  <2>1. upsets' \in 0..MaxUpsets
    BY <1>0, <1>9, UpsetKept, Zenon DEF Disconnected, EnvOK
  <2>2. ServerOK' /\ LinkOK' /\ EnvOK'
    BY <1>0, <1>9, <2>1, ZeroFacts, Zenon DEF Disconnected, SessionEnded, ServerOK, LinkOK, EnvOK
  <2> QED
    BY <1>0, <1>9, <2>2, TypePartsNext, TypeKept DEF Disconnected
<1>10. CASE Refused
  <2>1. TaskOK' /\ EnvOK'
    BY <1>0, <1>10, UpsetKept, Zenon DEF Refused, TaskOK, EnvOK, Bits, Unset
  <2> QED
    BY <1>0, <1>10, <2>1, TypePartsNext, TypeKept DEF Refused
<1> QED
  BY <1>1, <1>2, <1>3, <1>4, <1>5, <1>6, <1>7, <1>8, <1>9, <1>10

\* What it receives.
LEMMA TypeReceive ==
  ASSUME SessionSound, ReceiveMessage
  PROVE  JaamTypeOK'
<1> USE DEF SessionSound
<1>0. ServerOK /\ TaskOK /\ LoopOK /\ OutOK /\ NoteOK /\ LinkOK /\ EnvOK
  BY TypeParts
<1>1. CASE ReceivePiece
  <2>1. part' \in Nat /\ rxLen' \in 0..BufEvents /\ cut' \in BOOLEAN
    BY <1>1, SessionReceived DEF ReceivePiece
  <2>2. ServerOK' /\ TaskOK'
    BY <1>0, <1>1, <2>1, Zenon DEF ReceivePiece, Received, ServerOK, TaskOK, Bits, Unset
  <2>3. LinkOK'
    BY <1>0, <1>1, Zenon DEF ReceivePiece, Received, LinkOK
  <2> QED
    BY <1>0, <1>1, <2>2, <2>3, TypePartsNext, TypeKept DEF ReceivePiece, Received
<1>2. ASSUME Received PROVE rxLen' \in 0..BufEvents /\ ServerOK'
  <2>1. part' \in Nat /\ rxLen' \in 0..BufEvents /\ cut' \in BOOLEAN
    BY <1>2, SessionReceived
  <2> QED
    BY <1>0, <1>2, <2>1, Zenon DEF Received, ServerOK
<1>3. ASSUME NEW m \in Parsed, ReceiveAlerts(m) PROVE JaamTypeOK'
  <2>0. Received
    BY <1>3 DEF ReceiveAlerts, Receive
  <2>1. table' \in [Regions -> AlertFlags] /\ lastHash' \in 0..MaxChanges + 1
    BY <1>3, SessionAlerts
  <2>2. TaskOK'
    BY <1>0, <1>2, <1>3, <2>0, <2>1, Zenon DEF ReceiveAlerts, Received, TaskOK, Bits, Unset
  <2>3. notif' \in [Levels -> SUBSET Bits]
    BY <1>0, <1>3 DEF ReceiveAlerts, NoteOK
  <2>4. LinkOK' /\ NoteOK'
    BY <1>0, <1>3, <2>0, <2>3, Zenon DEF ReceiveAlerts, Received, LinkOK, NoteOK, Bits
  <2> QED
    BY <1>0, <1>2, <2>0, <2>2, <2>4, TypePartsNext, TypeKept DEF Received
<1>4. ASSUME NEW m \in Parsed, ReceiveBroken(m) PROVE JaamTypeOK'
  <2>0. Received
    BY <1>4 DEF ReceiveBroken, Receive
  <2>2. TaskOK'
    BY <1>0, <1>2, <1>4, <2>0, Zenon DEF ReceiveBroken, Received, TaskOK, Bits, Unset
  <2>3. LinkOK'
    BY <1>0, <1>4, <2>0, Zenon DEF ReceiveBroken, Received, LinkOK
  <2> QED
    BY <1>0, <1>2, <1>4, <2>0, <2>2, <2>3, TypePartsNext, TypeKept DEF Received, ReceiveBroken
<1>5. ASSUME NEW m \in Parsed, ReceiveNotif(m) PROVE JaamTypeOK'
  <2>0. Received
    BY <1>5 DEF ReceiveNotif, Receive
  <2>1. m.flags \subseteq Bits
    <3>1. Chained /\ Assembled /\ wire # <<>> /\ m.type = "A2"
      BY <1>5, <2>0 DEF ReceiveNotif, Received, Readable
    <3>2. m = Head(wire) /\ m \in Messages
      BY <3>1, ParsedFacts, WireFacts
    <3> QED
      BY <3>1, <3>2, MessageFacts, BitFacts
  <2>2. ws' \in {"idle", "arm"}
    BY <1>5 DEF ReceiveNotif
  <2>3. TaskOK'
    BY <1>0, <1>2, <1>5, <2>0, <2>2, Zenon DEF ReceiveNotif, Received, TaskOK, Bits, Unset
  <2>4. notif' \in [Levels -> SUBSET Bits]
    <3> DEFINE named == {i \in Levels : Chain[home][i] = m.region}
    <3>1. notif' = [i \in Levels |-> IF i \in named THEN notif[i] \cup m.flags ELSE notif[i]]
      BY <1>5 DEF ReceiveNotif
    <3> HIDE DEF named
    <3>2. notif \in [Levels -> SUBSET Bits]
      BY <1>0 DEF NoteOK
    <3> QED
      BY <2>1, <3>1, <3>2
  <2>5. LinkOK' /\ NoteOK'
    BY <1>0, <1>5, <2>0, <2>4, Zenon DEF ReceiveNotif, Received, LinkOK, NoteOK, Bits
  <2> QED
    BY <1>0, <1>2, <2>0, <2>3, <2>5, TypePartsNext, TypeKept DEF Received
<1> QED
  BY <1>1, <1>3, <1>4, <1>5 DEF ReceiveMessage

\* The region, the clock and the network.
LEMMA TypeOther ==
  ASSUME JaamTypeOK, Time \/ PathDies \/ NetDown \/ NetUp \/ \E h \in Homes : SetRegion(h)
  PROVE  JaamTypeOK'
<1>0. ServerOK /\ TaskOK /\ LoopOK /\ OutOK /\ NoteOK /\ LinkOK /\ EnvOK
  BY TypeParts
<1>1. CASE Time
  <2>1. NoteOK'
    BY <1>0, <1>1, Zenon DEF Time, TtlPasses, Ages, FallsSilent, BackoffPasses, NoteOK, Bits
  <2>2. LinkOK'
    BY <1>0, <1>1, Zenon DEF Time, TtlPasses, Ages, FallsSilent, BackoffPasses, LinkOK
  <2> QED
    BY <1>0, <1>1, <2>1, <2>2, TypePartsNext, TypeKept
       DEF Time, TtlPasses, Ages, FallsSilent, BackoffPasses, SameButLink
<1>2. CASE PathDies \/ NetDown \/ NetUp
  <2>1. EnvOK'
    BY <1>0, <1>2, UpsetKept, Zenon DEF PathDies, NetDown, NetUp, Dies, EnvOK
  <2> QED
    BY <1>0, <1>2, <2>1, TypePartsNext, TypeKept DEF PathDies, NetDown, NetUp, SameClient
<1>3. ASSUME NEW h \in Homes, SetRegion(h) PROVE JaamTypeOK'
  <2>1. Unset \in SUBSET (Bits \cup Unset)
    OBVIOUS
  <2>2. LoopOK' /\ OutOK'
    BY <1>0, <1>3, <2>1, Zenon DEF SetRegion, LoopOK, OutOK, Bits, Unset
  <2>3. NoteOK' /\ EnvOK'
    BY <1>0, <1>3, ZeroFacts, UpsetKept, Zenon DEF SetRegion, NoteOK, EnvOK, Bits
  <2> QED
    BY <1>0, <1>3, <2>2, <2>3, TypePartsNext, TypeKept DEF SetRegion
<1> QED
  BY <1>1, <1>2, <1>3

\* The server: an alert changes, its difference is lost, and a notification.
LEMMA SessionChange ==
  ASSUME SessionSound, NEW r \in Regions, NEW f \in AlertFlags, Change(r, f)
  PROVE  SessionSound'
<1> USE DEF SessionSound
<1>0. ServerOK /\ TaskOK /\ LoopOK /\ OutOK /\ NoteOK /\ LinkOK /\ EnvOK
  BY TypeParts
<1> DEFINE t == [Truth EXCEPT ![r] = f]
           m0 == A1(Len(hist), Len(hist) + 1, [x \in {r} |-> f], OneEvent)
<1>1. /\ Len(hist) <= MaxChanges /\ hist' = Append(hist, t)
      /\ wire' = IF session = "open" /\ ws # "clear" THEN Append(wire, m0) ELSE wire
      /\ UNCHANGED <<wsTask, loopVars, out, note, link, part, cut, notifs, env>>
  BY DEF Change, Push, SameClient
<1>2. t \in [Regions -> AlertFlags]
  BY HistFacts
<1>3. [x \in {r} |-> f] \in Sets
  <2>1. {r} \in SUBSET Regions /\ [x \in {r} |-> f] \in [{r} -> AlertFlags]
    OBVIOUS
  <2> QED
    BY <2>1 DEF Sets
<1>4. PICK m \in Messages :
        /\ m = m0 /\ m.type = "A1" /\ m.prev = Len(hist) /\ m.hash = Len(hist) + 1
        /\ m.set = [x \in {r} |-> f]
  <2>1. Len(hist) \in Hashes /\ Len(hist) + 1 \in Hashes
    BY <1>1, HistFacts DEF Hashes
  <2>2. m0 \in Messages
    BY <1>3, <2>1 DEF A1, Messages
  <2> QED
    BY <2>2 DEF A1
<1>5. /\ Len(hist') = Len(hist) + 1 /\ hist'[Len(hist) + 1] = t
      /\ \A i \in 1..Len(hist) : hist'[i] = hist[i]
      /\ hist' \in Seq([Regions -> AlertFlags])
  BY <1>1, <1>2, HistFacts, AppendProperties
<1>6. t = Applied(m.set, hist[Len(hist)])
  BY <1>4, HistFacts DEF Applied, Truth
<1> HIDE DEF t, m0
<1>7. Leads(m)'
  <2>1. m.hash <= Len(hist') /\ m.prev <= Len(hist') /\ m.prev # 0
    BY <1>4, <1>5, HistFacts
  <2>2. hist'[m.hash] = Applied(m.set, hist'[m.prev])
    BY <1>4, <1>5, <1>6, HistFacts
  <2> QED
    BY <1>4, <2>1, <2>2 DEF Leads, Applied
<1>8. TableIsTruth' /\ Chained' /\ Assembled' /\ SnapshotFirst'
  <2>1. wire' = IF session = "open" /\ ws # "clear" THEN Append(wire, m) ELSE wire
    BY <1>1, <1>4
  <2>2. Len(hist) <= Len(hist') /\ Len(hist') \in Nat
    BY <1>5, HistFacts
  <2> QED
    BY <1>1, <1>5, <1>7, <2>1, <2>2, SessionPush
<1>9. ServerOK'
  <2>1. Len(hist') \in 1..MaxChanges + 1
    BY <1>1, <1>5, HistFacts
  <2> QED
    BY <1>0, <1>1, <1>5, <2>1 DEF ServerOK
<1> QED
  BY <1>0, <1>1, <1>8, <1>9, TypePartsNext, TypeKept

LEMMA SessionLost ==
  ASSUME SessionSound, NEW r \in Regions, NEW f \in AlertFlags, ChangeLost(r, f)
  PROVE  SessionSound'
<1> USE DEF SessionSound
<1>0. ServerOK /\ TaskOK /\ LoopOK /\ OutOK /\ NoteOK /\ LinkOK /\ EnvOK
  BY TypeParts
<1> DEFINE t == [Truth EXCEPT ![r] = f]
           m0 == A1(Len(hist) + 1, Len(hist) + 2, <<>>, OneEvent)
<1>1. /\ Len(hist) < MaxChanges /\ upsets < MaxUpsets /\ upsets' = upsets + 1
      /\ hist' = hist \o <<t, t>>
      /\ wire' = IF session = "open" /\ ws # "clear" THEN Append(wire, m0) ELSE wire
      /\ UNCHANGED <<wsTask, loopVars, out, note, link, part, cut, notifs, net, session, moves>>
  BY DEF ChangeLost, Push, SameClient
<1>2. t \in [Regions -> AlertFlags]
  BY HistFacts
<1>3. <<>> \in Sets
  <2>1. {} \in SUBSET Regions /\ <<>> \in [{} -> AlertFlags]
    OBVIOUS
  <2> QED
    BY <2>1 DEF Sets
<1>4. PICK m \in Messages :
        /\ m = m0 /\ m.type = "A1" /\ m.prev = Len(hist) + 1 /\ m.hash = Len(hist) + 2
        /\ m.set = <<>>
  <2>1. Len(hist) + 1 \in Hashes /\ Len(hist) + 2 \in Hashes
    BY <1>1, HistFacts DEF Hashes
  <2>2. m0 \in Messages
    BY <1>3, <2>1 DEF A1, Messages
  <2> QED
    BY <2>2 DEF A1
<1>5. /\ Len(hist') = Len(hist) + 2 /\ hist'[Len(hist) + 1] = t /\ hist'[Len(hist) + 2] = t
      /\ \A i \in 1..Len(hist) : hist'[i] = hist[i]
      /\ hist' \in Seq([Regions -> AlertFlags])
  <2>1. <<t, t>> \in Seq([Regions -> AlertFlags]) /\ Len(<<t, t>>) = 2
    BY <1>2
  <2> HIDE DEF t
  <2> DEFINE n == Len(hist)
  <2>2. n \in Nat /\ hist \in Seq([Regions -> AlertFlags])
    BY HistFacts
  <2>3. /\ hist' \in Seq([Regions -> AlertFlags]) /\ Len(hist') = n + 2
        /\ \A i \in 1..n + 2 : hist'[i] = IF i <= n THEN hist[i] ELSE <<t, t>>[i - n]
    BY <1>1, <2>1, <2>2, ConcatProperties
  <2> HIDE DEF n
  <2>4. <<t, t>>[1] = t /\ <<t, t>>[2] = t
    OBVIOUS
  <2>5. (n + 1) - n = 1 /\ (n + 2) - n = 2 /\ n + 1 \in 1..n + 2 /\ n + 2 \in 1..n + 2 /\ ~(n + 1 <= n)
        /\ ~(n + 2 <= n)
    BY <2>2
  <2>6. \A i \in 1..n : hist'[i] = hist[i]
    BY <2>2, <2>3
  <2>7. hist'[n + 1] = t /\ hist'[n + 2] = t
    BY <2>3, <2>4, <2>5
  <2> QED
    BY <2>3, <2>6, <2>7 DEF n
<1>6. t = Applied(m.set, t)
  <2>1. DOMAIN m.set = {}
    BY <1>4
  <2> HIDE DEF t
  <2> QED
    BY <1>2, <2>1 DEF Applied
<1> HIDE DEF t, m0
<1>7. Leads(m)'
  <2>1. m.hash <= Len(hist') /\ m.prev <= Len(hist') /\ m.prev # 0
    BY <1>4, <1>5, HistFacts
  <2>2. hist'[m.hash] = Applied(m.set, hist'[m.prev])
    BY <1>4, <1>5, <1>6
  <2> QED
    BY <1>4, <2>1, <2>2 DEF Leads, Applied
<1>8. TableIsTruth' /\ Chained' /\ Assembled' /\ SnapshotFirst'
  <2>1. wire' = IF session = "open" /\ ws # "clear" THEN Append(wire, m) ELSE wire
    BY <1>1, <1>4
  <2>2. Len(hist) <= Len(hist') /\ Len(hist') \in Nat
    BY <1>5, HistFacts
  <2> QED
    BY <1>1, <1>5, <1>7, <2>1, <2>2, SessionPush
<1>9. ServerOK' /\ EnvOK'
  <2>1. Len(hist') \in 1..MaxChanges + 1
    BY <1>1, <1>5, HistFacts
  <2>2. ServerOK'
    BY <1>0, <1>1, <1>5, <2>1 DEF ServerOK
  <2>3. EnvOK'
    BY <1>0, <1>1, UpsetKept, Zenon DEF EnvOK
  <2> QED
    BY <2>2, <2>3
<1> QED
  BY <1>0, <1>1, <1>8, <1>9, TypePartsNext, TypeKept

LEMMA SessionNotify ==
  ASSUME SessionSound, NEW r \in Regions, NEW f \in NotifFlags, Notify(r, f)
  PROVE  SessionSound'
<1> USE DEF SessionSound
<1>0. ServerOK /\ TaskOK /\ LoopOK /\ OutOK /\ NoteOK /\ LinkOK /\ EnvOK
  BY TypeParts
<1>1. PICK m \in Messages : m = A2(r, f) /\ m.type = "A2"
  <2>1. A2(r, f) \in [type : {"A2"}, region : Regions, flags : NotifFlags, events : {OneEvent}]
    BY DEF A2
  <2>2. A2(r, f) \in Messages
    BY <2>1, Zenon DEF Messages
  <2>3. A2(r, f).type = "A2"
    BY DEF A2
  <2> QED
    BY <2>2, <2>3, Zenon
<1>2. /\ notifs < MaxNotifs /\ notifs' = notifs + 1
      /\ wire' = IF session = "open" /\ ws # "clear" THEN Append(wire, m) ELSE wire
      /\ UNCHANGED <<wsTask, loopVars, out, note, link, hist, part, cut, env>>
  BY <1>1 DEF Notify, Push, SameClient
<1>3. Leads(m)'
  BY <1>1 DEF Leads
<1>4. TableIsTruth' /\ Chained' /\ Assembled' /\ SnapshotFirst'
  <2>1. Len(hist) <= Len(hist') /\ Len(hist') \in Nat
    BY <1>2, HistFacts
  <2> QED
    BY <1>2, <1>3, <2>1, SessionPush
<1>5. ServerOK'
  BY <1>0, <1>2 DEF ServerOK
<1> QED
  BY <1>0, <1>2, <1>4, <1>5, TypePartsNext, TypeKept

\* Every step, in a session of whatever length.
LEMMA SessionStep ==
  ASSUME SessionSound, [JaamNext]_vars
  PROVE  SessionSound'
<1> USE DEF SessionSound
<1>1. CASE UNCHANGED vars
  <2>1. JaamTypeOK'
    BY <1>1, TypeParts, TypePartsNext, TypeKept DEF vars
  <2> QED
    BY <1>1, <2>1, SessionStutter DEF vars
<1>2. CASE WsStep
  <2>1. CASE OnConnected
    BY <2>1, SessionConnects, TypeWs
  <2>2. CASE ClearFusionState
    BY <2>2, SessionCleared, TypeWs
  <2>3. CASE Rejected \/ ArmNotif \/ WsCompute \/ WsStore \/ WsPend
    <3>1. /\ UNCHANGED <<hist, wire, part, cut, rxLen, table, hasHash, lastHash, session>>
          /\ ws # "clear" /\ ws' # "clear"
      BY <2>3 DEF Rejected, ArmNotif, WsCompute, WsStore, WsPend
    <3> QED
      BY <2>3, <3>1, SessionStutter, TypeWs
  <2>4. CASE RejectedEnds \/ TaskStops
    <3>1. UNCHANGED <<hist, cut, table, hasHash, lastHash>> /\ session' = "over" /\ wire' = <<>> /\ part' = 0
      BY <2>4 DEF RejectedEnds, TaskStops, SessionEnded
    <3> QED
      BY <2>4, <3>1, SessionOver, TypeWs
  <2>5. CASE ReceiveMessage
    <3>1. TableIsTruth' /\ Chained' /\ Assembled' /\ SnapshotFirst'
      BY <2>5, SessionPiece, SessionAlerts, SessionOther DEF ReceiveMessage
    <3> QED
      BY <2>5, <3>1, TypeReceive
  <2> QED
    BY <1>2, <2>1, <2>2, <2>3, <2>4, <2>5 DEF WsStep
<1>3. CASE LoopStep \/ StartClientFails
  <2>1. /\ UNCHANGED <<hist, wire, part, cut, rxLen, table, hasHash, lastHash, ws>>
        /\ session' = session \/ session \notin {"open", "dead"}
        /\ session' = "open" => session = "open"
    BY <1>3 DEF LoopStep, Expire, ExpireTimer, ExpireFlags, LoopCompute, LoopStore, LoopPend, Offline,
       StillOffline, EndSession, StoppedOffline, StoppedRetry, KeepSession, StartClient, AwaitReconnect,
       HandOver, StartClientFails, SameTasks
  <2> QED
    BY <1>3, <2>1, SessionStutter, TypeLoop
<1>4. CASE Time \/ PathDies \/ NetDown \/ NetUp \/ \E h \in Homes : SetRegion(h)
  <2>1. /\ UNCHANGED <<hist, wire, part, cut, rxLen, table, hasHash, lastHash, ws>>
        /\ session' \in {session, "dead"}
    BY <1>4 DEF Time, TtlPasses, Ages, FallsSilent, BackoffPasses, SameButLink, PathDies, NetDown, NetUp,
       Dies, SetRegion, SameClient
  <2> QED
    BY <1>4, <2>1, SessionStutter, TypeOther
<1>5. CASE Disconnected
  <2>1. UNCHANGED <<hist, cut, table, hasHash, lastHash>> /\ session' = "over" /\ wire' = <<>> /\ part' = 0
    BY <1>5 DEF Disconnected, SessionEnded
  <2> QED
    BY <1>5, <2>1, SessionOver, TypeWs
<1>6. CASE Refused
  <2>1. /\ UNCHANGED <<hist, wire, part, cut, rxLen, table, hasHash, lastHash, session>>
        /\ ws # "clear" /\ ws' # "clear"
    BY <1>6 DEF Refused
  <2> QED
    BY <1>6, <2>1, SessionStutter, TypeWs
<1> QED
  BY <1>1, <1>2, <1>3, <1>4, <1>5, <1>6, SessionChange, SessionLost, SessionNotify DEF JaamNext, World

\* Whatever is lost, refused or restarted, and however the two tasks run, the
\* alerts the component acts on are those the server had at the hash it holds:
\* no difference is missed, applied twice or applied to another session's table
\* (on_ws_connected, parse_binary_packet), and every counter, buffer and step of
\* the backoff stays in its bounds. In a session whose snapshot came in more than
\* one event, however the library cut it (ws_event_handler), alerts may be missing
\* from the table, but it holds none that the server did not have.
THEOREM TableTrue == JaamSpec => []SessionSound
<1>1. JaamInit => SessionSound
  BY SessionInit
<1>2. SessionSound /\ [JaamNext]_vars => SessionSound'
  BY SessionStep
<1> QED
  BY <1>1, <1>2, PTL DEF JaamSpec

=============================================================================
