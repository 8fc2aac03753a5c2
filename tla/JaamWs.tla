-------------------------------- MODULE JaamWs --------------------------------
(***************************************************************************)
(* The client of the JAAM air alert server (jaam_ws.cpp), in the mode of   *)
(* /data_fusion_v1.  Two tasks work on one object without a lock: the task *)
(* of the websocket library, which runs the event handlers, and ESPHome's  *)
(* main loop, which supervises the session, expires notifications, changes *)
(* the region and hands the flags to the automations.                      *)
(*                                                                         *)
(* The server, the network and the library are external; they are modelled *)
(* from how the component uses them.                                       *)
(***************************************************************************)
EXTENDS Naturals, Sequences, Functions

CONSTANTS
  Homes,       \* region_ids the owner may choose
  Chain,       \* Chain[h]: h, its district and its state (get_parent_..._id)
  AlertFlags,  \* sets of alert_bits in an entry of 0xA1
  NotifFlags,  \* sets of alert_bits in an entry of 0xA2
  Framings,    \* how the library hands over a snapshot: sequences of events
  BufEvents,   \* how many events of 2048 bytes rx_bin_buf_ holds (2)
  MaxChanges,  \* bound: states of the server's alerts
  MaxNotifs,   \* bound: notifications
  MaxUpsets,   \* bound: sessions that end, networks lost, refusals
  MaxMoves     \* bound: changes of region

\* WEBSOCKET_EVENT_DATA: the pos-th of the `of` events of a frame, whose fin flag
\* the library takes from the frame's header. A message is one frame or several.
Event == [pos : Nat \ {0}, of : Nat \ {0}, fin : BOOLEAN]
OneEvent == <<[pos |-> 1, of |-> 1, fin |-> TRUE]>>

Framed(e) ==
  /\ e \in Seq(Event) /\ e # <<>>
  /\ e[1].pos = 1 /\ e[Len(e)].pos = e[Len(e)].of
  /\ \A i \in 2..Len(e) :
       e[i].pos = IF e[i - 1].pos = e[i - 1].of THEN 1 ELSE e[i - 1].pos + 1

ASSUME JaamAssumption ==
  /\ DOMAIN Chain = Homes
  /\ \A h \in Homes : DOMAIN Chain[h] = 1..3 /\ Chain[h][1] = h
  /\ {} \in AlertFlags
  /\ Framings # {} /\ \A e \in Framings : Framed(e)
  /\ BufEvents \in Nat \ {0}
  /\ {MaxChanges, MaxNotifs, MaxUpsets, MaxMoves} \subseteq Nat

Levels == 1..3
Regions == UNION {Range(Chain[h]) : h \in Homes}
Clear == [r \in Regions |-> {}]

VARIABLES
  hist,       \* the server's alerts, oldest first; a hash is an index into it
  wire,       \* messages on their way to the client
  part,       \* events of Head(wire) the client has been given
  net,        \* the network as the component sees it: Wi-Fi is connected
  session,    \* the library's client
  \* websocket task
  ws, wf,     \* where it is in a handler, and the flags it has computed
  rxLen,      \* rx_bin_len_, in events
  table,      \* active_alerts_table_
  hasHash, lastHash,
  \* main loop
  mn, mf,     \* where it is, and the flags it has computed or read
  home,       \* region_id_, which fixes district_id_ and state_id_
  reported,
  \* shared between both
  notif,      \* notif_flags_region_, _district_, _state_
  ttl,        \* notif_expires_ms_: not set, in the future, past
  flags, pending,
  \* supervision of the session
  connected, wasConnected,
  aged,       \* connected_since_ms_ is STABLE_CONN_MS ago
  silent,     \* last_seen_ms_ is DEAD_LINK_MS ago
  ended,      \* session_ended_
  requested,  \* reconnect_requested_
  penalty,    \* penalty_max_backoff_
  base,       \* backoff_base_ms_, as a step of the scale 5 s .. 300 s
  due,        \* next_reconnect_ms_ has passed
  \* history
  owed,       \* a rejection whose wait of 300 s is not served
  cut,        \* a message of this session came in more than one event
  raced,      \* an update of flags_ overlapped one of the other task
  notifs, upsets, moves

server  == <<hist, wire, part, cut, notifs>>
wsTask  == <<ws, wf, rxLen, table, hasHash, lastHash>>
loopVars == <<mn, mf, home, reported>>
out     == <<flags, pending, raced>>
note    == <<notif, ttl>>
link    == <<connected, wasConnected, aged, silent, ended, requested,
             penalty, base, due, owed>>
env     == <<net, session, upsets, moves>>
vars == <<server, wsTask, loopVars, out, note, link, env>>

-----------------------------------------------------------------------------
(* Flags *)

Bits == {"air", "yellow", "red"} \cup UNION (AlertFlags \cup NotifFlags)

\* reported_ and flags_ before anything was computed for the region: 0xFFFFFFFF.
Unset == {"unset"}

Level(f) ==
  LET g == IF f \cap {"yellow", "red"} # {} THEN f \cup {"air"} ELSE f
  IN IF "air" \in g /\ g \cap {"yellow", "red"} = {}
     THEN g \cup {IF "drones" \in g THEN "yellow" ELSE "red"}
     ELSE g

Fusion(t, n, h) == Level(UNION {t[Chain[h][i]] \cup n[i] : i \in Levels})

Quiet == [i \in Levels |-> {}]
Truth == hist[Len(hist)]

-----------------------------------------------------------------------------
(* Messages of the server *)

\* 0xA1: the hash after it, the hash before it, and the entries it carries.
A1(prev, hash, set, events) ==
  [type |-> "A1", prev |-> prev, hash |-> hash, set |-> set, events |-> events]

\* 0xA2 with one entry.
A2(r, f) == [type |-> "A2", region |-> r, flags |-> f, events |-> OneEvent]

\* The answer to user_info: the entries of the regions S, where no region with
\* an alert is left out.
Snapshot(S, events) == A1(0, Len(hist), [r \in S |-> Truth[r]], events)
Alerting == {r \in Regions : Truth[r] # {}}

\* The server sends to a client that has introduced itself.
Push(m) == wire' = IF session = "open" /\ ws # "clear" THEN Append(wire, m) ELSE wire

-----------------------------------------------------------------------------
(* Types and initial state *)

JaamTypeOK ==
  /\ hist \in Seq([Regions -> AlertFlags]) /\ Len(hist) \in 1..MaxChanges + 1
  /\ part \in Nat
  /\ net \in BOOLEAN
  /\ session \in {"none", "connecting", "open", "dead", "over"}
  /\ ws \in {"idle", "clear", "arm", "compute", "store", "pend", "refused", "rejected"}
  /\ mn \in {"top", "expire", "wipe", "compute", "store", "pend", "link",
             "stopOffline", "stopRetry", "take", "read", "report"}
  /\ {wf, mf, flags, reported} \subseteq SUBSET (Bits \cup Unset)
  /\ rxLen \in 0..BufEvents
  /\ table \in [Regions -> AlertFlags]
  /\ hasHash \in BOOLEAN /\ lastHash \in 0..MaxChanges + 1
  /\ home \in Homes
  /\ notif \in [Levels -> SUBSET Bits]
  /\ ttl \in {"off", "running", "due"}
  /\ {pending, connected, wasConnected, aged, silent, ended, requested,
      penalty, due, owed, cut, raced} \subseteq BOOLEAN
  /\ base \in 0..6
  /\ notifs \in 0..MaxNotifs /\ upsets \in 0..MaxUpsets /\ moves \in 0..MaxMoves

\* Boot: set_region_id has run up to its update; no session, and the first
\* one may start as soon as there is a network (next_reconnect_ms_ = 0).
JaamInit ==
  /\ hist \in {<<t>> : t \in {Clear} \cup
                 {[Clear EXCEPT ![r] = f] : r \in Regions, f \in AlertFlags}}
  /\ wire = <<>> /\ part = 0
  /\ net \in BOOLEAN
  /\ session = "none"
  /\ ws = "idle" /\ wf = {} /\ rxLen = 0
  /\ table = Clear /\ hasHash = FALSE /\ lastHash = 0
  /\ mn = "compute" /\ mf = {}
  /\ home \in Homes /\ reported = Unset
  /\ notif = Quiet /\ ttl = "off"
  /\ flags = Unset /\ pending = FALSE
  /\ connected = FALSE /\ wasConnected = FALSE /\ aged = FALSE /\ silent = FALSE
  /\ ended = FALSE /\ requested = FALSE /\ penalty = FALSE
  /\ base = 0 /\ due = TRUE
  /\ owed = FALSE /\ cut = FALSE /\ raced = FALSE
  /\ notifs = 0 /\ upsets = 0 /\ moves = 0

-----------------------------------------------------------------------------
(* Websocket task: the events of the library, one at a time (ws_event_handler) *)

\* WEBSOCKET_EVENT_CONNECTED: on_ws_connected ...
OnConnected ==
  /\ session = "connecting" /\ net /\ ws = "idle"
  /\ session' = "open" /\ ws' = "clear"
  /\ connected' = TRUE /\ wasConnected' = TRUE
  /\ aged' = FALSE /\ silent' = FALSE
  /\ ended' = FALSE /\ requested' = FALSE
  /\ UNCHANGED <<server, wf, rxLen, table, hasHash, lastHash, loopVars, out, note,
                 penalty, base, due, owed, net, upsets, moves>>

\* Mutant: the alerts of the last session are kept.
Emptied_Kept == table

Emptied == Clear

\* ... clear_fusion_state, and the introduction, which the server answers.
ClearFusionState ==
  /\ ws = "clear" /\ ws' = "idle"
  /\ table' = Emptied
  /\ notif' = Quiet /\ ttl' = "off"
  /\ hasHash' = FALSE /\ lastHash' = 0 /\ rxLen' = 0
  /\ \E S \in {Alerting, Regions}, e \in Framings :
       wire' = IF session = "open" THEN <<Snapshot(S, e)>> ELSE <<>>
  /\ part' = 0 /\ cut' = FALSE
  /\ UNCHANGED <<hist, notifs, wf, loopVars, out, link, env>>

\* notify_session_ended; the library's task ends with it.
SessionEnded ==
  /\ connected' = FALSE /\ ended' = TRUE
  /\ session' = "over" /\ wire' = <<>> /\ part' = 0
  /\ UNCHANGED <<hist, cut, notifs, wasConnected, aged, silent, net, moves>>

\* on_ws_rejected, in two steps; the session ends after it.
Rejected ==
  /\ ws = "refused" /\ ws' = "rejected"
  /\ penalty' = TRUE /\ owed' = TRUE
  /\ UNCHANGED <<server, wf, rxLen, table, hasHash, lastHash, loopVars, out, note,
                 connected, wasConnected, aged, silent, ended, requested, base, due, env>>

RejectedEnds ==
  /\ ws = "rejected" /\ ws' = "idle"
  /\ requested' = TRUE
  /\ SessionEnded
  /\ UNCHANGED <<wf, rxLen, table, hasHash, lastHash, loopVars, out, note,
                 penalty, base, due, owed, upsets>>

-----------------------------------------------------------------------------
(* Websocket task: data (on_ws_binary, parse_binary_packet) *)

Readable == ws = "idle" /\ session = "open" /\ net /\ wire # <<>>

\* What rx_bin_buf_ holds of the frame before this event, and whether it fits.
Arriving == Head(wire).events[part + 1]
Alone == Arriving.pos = 1 /\ Arriving.of = 1
Held == IF Arriving.pos = 1 THEN 0 ELSE rxLen
Fits == Held + 1 <= BufEvents

\* What has come is parsed: at every event of a last frame, however little it is.
Handed == Alone \/ (Fits /\ (Arriving.fin \/ Held + 1 >= Arriving.of))

\* The messages parse_binary_packet can take this event for: a whole one, or the
\* first entries of one that was cut between two entries. What was cut within an
\* entry is malformed, and what starts in the middle of a message is of no known
\* type.
Parsed ==
  LET m == Head(wire)
  IN IF Handed /\ Held + 1 = Len(m.events) THEN {m}
     ELSE IF Handed /\ Held = part
     THEN {[m EXCEPT !.set = Restrict(m.set, D)] : D \in (SUBSET DOMAIN m.set) \ {DOMAIN m.set}}
     ELSE {}

Received ==
  /\ Readable
  /\ LET n == Len(Head(wire).events)
     IN /\ wire' = IF part + 1 = n THEN Tail(wire) ELSE wire
        /\ part' = IF part + 1 = n THEN 0 ELSE part + 1
        /\ cut' = (cut \/ n > 1)
  /\ rxLen' = IF Alone THEN rxLen ELSE IF Fits /\ ~Handed THEN Held + 1 ELSE 0
  /\ silent' = FALSE
  /\ UNCHANGED <<hist, notifs, wf, loopVars, out, connected, wasConnected, aged, ended,
                 penalty, base, due, owed, env>>

\* An event that is kept, does not fit, or is parsed to no effect.
ReceivePiece ==
  /\ Received
  /\ Len(Head(wire).events) > 1
  /\ UNCHANGED <<ws, table, hasHash, lastHash, note, requested>>

Receive(m) == Received /\ m \in Parsed

Follows(m) == ~hasHash \/ m.prev = lastHash

\* 0xA1 that continues the chain. An entry without flags also ends the
\* notifications of its region.
ReceiveAlerts(m) ==
  /\ Receive(m) /\ m.type = "A1" /\ Follows(m)
  /\ table' = [r \in Regions |-> IF r \in DOMAIN m.set THEN m.set[r] ELSE table[r]]
  /\ notif' = [i \in Levels |->
                 LET r == Chain[home][i]
                 IN IF r \in DOMAIN m.set /\ m.set[r] = {} THEN {} ELSE notif[i]]
  /\ lastHash' = m.hash /\ hasHash' = TRUE
  /\ ws' = "compute"
  /\ UNCHANGED <<ttl, requested>>

\* 0xA1 of a broken chain: request_reconnect.
ReceiveBroken(m) ==
  /\ Receive(m) /\ m.type = "A1" /\ ~Follows(m)
  /\ requested' = TRUE
  /\ UNCHANGED <<ws, table, hasHash, lastHash, note>>

\* 0xA2: kept for the levels it names; others are ignored.
ReceiveNotif(m) ==
  LET named == {i \in Levels : Chain[home][i] = m.region}
  IN /\ Receive(m) /\ m.type = "A2"
     /\ notif' = [i \in Levels |-> IF i \in named THEN notif[i] \cup m.flags ELSE notif[i]]
     /\ ws' = IF named = {} THEN "idle" ELSE "arm"
     /\ UNCHANGED <<table, hasHash, lastHash, ttl, requested>>

ArmNotif ==
  /\ ws = "arm" /\ ws' = "compute"
  /\ ttl' = "running"
  /\ UNCHANGED <<server, wf, rxLen, table, hasHash, lastHash, loopVars, out, notif,
                 link, env>>

-----------------------------------------------------------------------------
(* update_flags_from_fusion, run by either task: it reads the tables, then     *)
(* compares and stores, then raises pending_.                                  *)

WsCompute ==
  /\ ws = "compute" /\ ws' = "store"
  /\ wf' = Fusion(table, notif, home)
  /\ UNCHANGED <<server, rxLen, table, hasHash, lastHash, loopVars, out, note, link, env>>

WsStore ==
  /\ ws = "store"
  /\ LET changed == wf # flags \/ wf # reported
     IN /\ flags' = IF changed THEN wf ELSE flags
        /\ ws' = IF changed THEN "pend" ELSE "idle"
  /\ raced' = (raced \/ mn = "store")
  /\ UNCHANGED <<server, wf, rxLen, table, hasHash, lastHash, loopVars, pending, note,
                 link, env>>

WsPend ==
  /\ ws = "pend" /\ ws' = "idle"
  /\ pending' = TRUE
  /\ UNCHANGED <<server, wf, rxLen, table, hasHash, lastHash, loopVars, flags, raced,
                 note, link, env>>

LoopCompute ==
  /\ mn = "compute" /\ mn' = "store"
  /\ mf' = Fusion(table, notif, home)
  /\ UNCHANGED <<server, wsTask, home, reported, out, note, link, env>>

LoopStore ==
  /\ mn = "store"
  /\ LET changed == mf # flags \/ mf # reported
     IN /\ flags' = IF changed THEN mf ELSE flags
        /\ mn' = IF changed THEN "pend" ELSE "link"
  /\ raced' = (raced \/ ws = "store")
  /\ UNCHANGED <<server, wsTask, mf, home, reported, pending, note, link, env>>

LoopPend ==
  /\ mn = "pend" /\ mn' = "link"
  /\ pending' = TRUE
  /\ UNCHANGED <<server, wsTask, mf, home, reported, flags, raced, note, link, env>>

-----------------------------------------------------------------------------
(* Main loop: the region, and notifications that expire *)

\* set_region_id, deferred to the main loop by the web interface.
SetRegion(h) ==
  /\ mn = "top" /\ mn' = "compute"
  /\ moves < MaxMoves /\ moves' = moves + 1
  /\ home' = h
  /\ notif' = Quiet /\ ttl' = "off"
  /\ reported' = Unset /\ flags' = Unset
  /\ UNCHANGED <<server, wsTask, mf, pending, raced, link, net, session, upsets>>

Expire ==
  /\ mn = "top" /\ ttl = "due" /\ mn' = "expire"
  /\ UNCHANGED <<server, wsTask, mf, home, reported, out, note, link, env>>

ExpireTimer ==
  /\ mn = "expire" /\ mn' = "wipe"
  /\ ttl' = "off"
  /\ UNCHANGED <<server, wsTask, mf, home, reported, out, notif, link, env>>

\* Mutant: the flags are not computed again.
ExpireFlags_NoUpdate ==
  /\ mn = "wipe" /\ mn' = "link"
  /\ notif' = Quiet
  /\ UNCHANGED <<server, wsTask, mf, home, reported, out, ttl, link, env>>

ExpireFlags ==
  /\ mn = "wipe" /\ mn' = "compute"
  /\ notif' = Quiet
  /\ UNCHANGED <<server, wsTask, mf, home, reported, out, ttl, link, env>>

-----------------------------------------------------------------------------
(* Main loop: supervision of the session *)

AtLink == mn = "link" \/ (mn = "top" /\ ttl # "due")
\* Mutant: silence is no reason.
Ends_NotSilent == ended \/ requested

Ends == ended \/ requested \/ (connected /\ silent)

SameTasks == UNCHANGED <<server, wsTask, mf, home, reported, out, note>>

\* Wi-Fi is gone: the client is stopped, the request to wait is not looked at.
Offline ==
  /\ AtLink /\ ~net /\ session # "none" /\ mn' = "stopOffline"
  /\ SameTasks /\ UNCHANGED <<link, env>>

OfflineReset ==
  /\ connected' = FALSE /\ wasConnected' = FALSE
  /\ ended' = FALSE /\ requested' = FALSE
  /\ owed' = FALSE
  /\ UNCHANGED <<aged, silent, penalty, base, due>>

StillOffline ==
  /\ AtLink /\ ~net /\ session = "none" /\ mn' = "take"
  /\ OfflineReset
  /\ SameTasks /\ UNCHANGED env

EndSession ==
  /\ AtLink /\ net /\ session # "none" /\ Ends /\ mn' = "stopRetry"
  /\ requested' = (requested \/ (connected /\ silent))
  /\ SameTasks
  /\ UNCHANGED <<connected, wasConnected, aged, silent, ended, penalty, base, due, owed,
                 env>>

Stopping == mn \in {"stopOffline", "stopRetry"}

\* esp_websocket_client_destroy waits for the library's task, which finishes
\* its handler and reports its end.
TaskStops ==
  /\ Stopping /\ ws = "idle" /\ session # "over"
  /\ SessionEnded
  /\ UNCHANGED <<wsTask, loopVars, out, note, requested, penalty, base, due, owed, upsets>>

StoppedOffline ==
  /\ mn = "stopOffline" /\ session = "over" /\ mn' = "take"
  /\ session' = "none"
  /\ OfflineReset
  /\ SameTasks /\ UNCHANGED <<net, upsets, moves>>

MaxBase == 6

\* Mutant: a session that was stable is forgiven its rejection.
NextBase_StableFirst ==
  IF wasConnected /\ aged THEN 0 ELSE IF penalty THEN MaxBase ELSE base

NextBase == IF penalty THEN MaxBase ELSE IF wasConnected /\ aged THEN 0 ELSE base

Doubled(b) == IF b = MaxBase THEN MaxBase ELSE b + 1

ScheduleReconnect ==
  /\ base' = Doubled(NextBase)
  /\ due' = FALSE
  /\ penalty' = FALSE
  /\ owed' = (owed /\ NextBase # MaxBase)
  /\ wasConnected' = FALSE /\ connected' = FALSE
  /\ requested' = FALSE /\ ended' = FALSE
  /\ UNCHANGED <<aged, silent>>

StoppedRetry ==
  /\ mn = "stopRetry" /\ session = "over" /\ mn' = "take"
  /\ session' = "none"
  /\ ScheduleReconnect
  /\ SameTasks /\ UNCHANGED <<net, upsets, moves>>

KeepSession ==
  /\ AtLink /\ net /\ session # "none" /\ ~Ends /\ mn' = "take"
  /\ SameTasks /\ UNCHANGED <<link, env>>

StartClient ==
  /\ AtLink /\ net /\ session = "none" /\ due /\ mn' = "take"
  /\ session' = "connecting"
  /\ ended' = FALSE /\ requested' = FALSE
  /\ SameTasks
  /\ UNCHANGED <<connected, wasConnected, aged, silent, penalty, base, due, owed, net,
                 upsets, moves>>

\* The library cannot create or start its client.
StartClientFails ==
  /\ AtLink /\ net /\ session = "none" /\ due /\ mn' = "take"
  /\ upsets < MaxUpsets /\ upsets' = upsets + 1
  /\ ScheduleReconnect
  /\ SameTasks /\ UNCHANGED <<net, session, moves>>

AwaitReconnect ==
  /\ AtLink /\ net /\ session = "none" /\ ~due /\ mn' = "take"
  /\ SameTasks /\ UNCHANGED <<link, env>>

-----------------------------------------------------------------------------
(* Main loop: the hand-over of the flags to on_flags *)

\* Mutant: the flags are read before pending_ is cleared.
HandOver_ReadsFirst ==
  /\ UNCHANGED <<server, wsTask, home, flags, raced, note, link, env>>
  /\ \/ /\ mn = "take" /\ mn' = IF pending THEN "read" ELSE "top"
        /\ mf' = IF pending THEN flags ELSE mf
        /\ UNCHANGED <<reported, pending>>
     \/ /\ mn = "read" /\ mn' = "report"
        /\ pending' = FALSE
        /\ UNCHANGED <<mf, reported>>
     \/ /\ mn = "report" /\ mn' = "top"
        /\ reported' = mf
        /\ UNCHANGED <<mf, pending>>

HandOver ==
  /\ UNCHANGED <<server, wsTask, home, flags, raced, note, link, env>>
  /\ \/ /\ mn = "take" /\ mn' = IF pending THEN "read" ELSE "top"
        /\ pending' = FALSE
        /\ UNCHANGED <<mf, reported>>
     \/ /\ mn = "read" /\ mn' = "report"
        /\ mf' = flags
        /\ UNCHANGED <<reported, pending>>
     \/ /\ mn = "report" /\ mn' = "top"
        /\ reported' = mf
        /\ UNCHANGED <<mf, pending>>

-----------------------------------------------------------------------------
(* Time. None passes inside a handler. *)

SameButLink == UNCHANGED <<server, wsTask, loopVars, out, env>>

TtlPasses ==
  /\ ttl = "running" /\ ws = "idle" /\ ttl' = "due"
  /\ SameButLink /\ UNCHANGED <<notif, link>>

\* The session has been up for a minute: connected_since_ms_.
Ages ==
  /\ wasConnected /\ ~aged /\ ws = "idle" /\ aged' = TRUE
  /\ SameButLink
  /\ UNCHANGED <<note, connected, wasConnected, silent, ended, requested, penalty, base,
                 due, owed>>

\* Nothing was received for 90 s; the server pings every 20.
FallsSilent ==
  /\ session = "dead" /\ connected /\ ~silent /\ ws = "idle" /\ silent' = TRUE
  /\ SameButLink
  /\ UNCHANGED <<note, connected, wasConnected, aged, ended, requested, penalty, base,
                 due, owed>>

BackoffPasses ==
  /\ ~due /\ due' = TRUE
  /\ SameButLink
  /\ UNCHANGED <<note, connected, wasConnected, aged, silent, ended, requested, penalty,
                 base, owed>>

-----------------------------------------------------------------------------
(* Server, network and library *)

SameClient == UNCHANGED <<wsTask, loopVars, out, note, link>>

\* An alert starts, changes or ends.
Change(r, f) ==
  /\ Len(hist) <= MaxChanges /\ Truth[r] # f
  /\ hist' = Append(hist, [Truth EXCEPT ![r] = f])
  /\ Push(A1(Len(hist), Len(hist) + 1, [x \in {r} |-> f], OneEvent))
  /\ SameClient /\ UNCHANGED <<part, cut, notifs, env>>

\* The same, but this difference is lost on the way and the next one, of a
\* region nobody here asks for, shows the gap.
ChangeLost(r, f) ==
  /\ Len(hist) < MaxChanges /\ Truth[r] # f
  /\ upsets < MaxUpsets /\ upsets' = upsets + 1
  /\ LET t == [Truth EXCEPT ![r] = f]
     IN hist' = hist \o <<t, t>>
  /\ Push(A1(Len(hist) + 1, Len(hist) + 2, <<>>, OneEvent))
  /\ SameClient /\ UNCHANGED <<part, cut, notifs, net, session, moves>>

Notify(r, f) ==
  /\ notifs < MaxNotifs /\ notifs' = notifs + 1
  /\ Push(A2(r, f))
  /\ SameClient /\ UNCHANGED <<hist, part, cut, env>>

\* The connection ends: closed by either side, reset, or never made.
Disconnected ==
  /\ session \in {"connecting", "open", "dead"} /\ ws = "idle"
  /\ IF session = "dead" THEN upsets' = upsets
     ELSE upsets < MaxUpsets /\ upsets' = upsets + 1
  /\ SessionEnded
  /\ UNCHANGED <<wsTask, loopVars, out, note, requested, penalty, base, due, owed>>

Dies == IF session \in {"connecting", "open"} THEN "dead" ELSE session

\* Refused by the handshake (status 400 or more) or closed with code 1008.
Refused ==
  /\ session \in {"connecting", "open"} /\ net /\ ws = "idle"
  /\ upsets < MaxUpsets /\ upsets' = upsets + 1
  /\ ws' = "refused"
  /\ UNCHANGED <<server, wf, rxLen, table, hasHash, lastHash, loopVars, out, note, link,
                 net, session, moves>>

\* The path to the server dies and nobody is told.
PathDies ==
  /\ session \in {"connecting", "open"}
  /\ upsets < MaxUpsets /\ upsets' = upsets + 1
  /\ session' = "dead"
  /\ SameClient /\ UNCHANGED <<server, net, moves>>

NetDown ==
  /\ net /\ upsets < MaxUpsets
  /\ upsets' = upsets + 1
  /\ net' = FALSE /\ session' = Dies
  /\ SameClient /\ UNCHANGED <<server, moves>>

NetUp ==
  /\ ~net /\ net' = TRUE
  /\ SameClient /\ UNCHANGED <<server, session, upsets, moves>>

-----------------------------------------------------------------------------

ReceiveMessage ==
  \/ ReceivePiece
  \/ Readable /\ \E m \in Parsed :
                   ReceiveAlerts(m) \/ ReceiveBroken(m) \/ ReceiveNotif(m)

WsStep ==
  \/ OnConnected \/ ClearFusionState
  \/ Rejected \/ RejectedEnds
  \/ ReceiveMessage
  \/ ArmNotif \/ WsCompute \/ WsStore \/ WsPend
  \/ TaskStops

LoopStep ==
  \/ Expire \/ ExpireTimer \/ ExpireFlags
  \/ LoopCompute \/ LoopStore \/ LoopPend
  \/ Offline \/ StillOffline \/ EndSession \/ StoppedOffline \/ StoppedRetry
  \/ KeepSession \/ StartClient \/ AwaitReconnect
  \/ HandOver

Time == TtlPasses \/ Ages \/ FallsSilent \/ BackoffPasses

World ==
  \/ \E r \in Regions, f \in AlertFlags : Change(r, f) \/ ChangeLost(r, f)
  \/ \E r \in Regions, f \in NotifFlags : Notify(r, f)
  \/ Disconnected \/ Refused \/ PathDies \/ NetDown \/ NetUp
  \/ StartClientFails
  \/ \E h \in Homes : SetRegion(h)

JaamNext == WsStep \/ LoopStep \/ Time \/ World

\* Both tasks are scheduled, time passes, the network comes back, and the
\* library gives up an attempt to connect that nobody answers (10 s).
JaamFairness ==
  /\ WF_vars(WsStep)
  /\ WF_vars(LoopStep)
  /\ WF_vars(TtlPasses) /\ WF_vars(FallsSilent) /\ WF_vars(BackoffPasses)
  /\ WF_vars(NetUp)
  /\ WF_vars(session = "dead" /\ ~connected /\ Disconnected)

JaamSpec == JaamInit /\ [][JaamNext]_vars /\ JaamFairness

-----------------------------------------------------------------------------
(* Properties *)

\* What flags_ holds is never forgotten: while the automations have been told
\* something else, somebody is about to tell them (pending_, which one task sets
\* and the other clears without a lock).
HandedOver ==
  flags # reported =>
    \/ pending
    \/ ws = "pend"
    \/ mn \in {"pend", "read"}
    \/ mn = "report" /\ mf = flags

\* The table is what the server said at the hash the component holds: no
\* difference is missed or applied twice, whatever is lost or restarted. Where a
\* session's snapshot came in more than one event, alerts may be missing, but none
\* is there that the server does not have.
TableIsTruth ==
  hasHash => \A r \in Regions :
               table[r] = hist[lastHash][r] \/ (cut /\ table[r] = {})

\* What makes TableIsTruth inductive.

\* A message is one of the two kinds, names regions and alerts that exist, and comes in
\* one event unless it is a snapshot.
Sets == UNION {[D -> AlertFlags] : D \in SUBSET Regions}
Hashes == 1..MaxChanges + 1
Messages ==
  [type : {"A1"}, prev : Hashes, hash : Hashes, set : Sets, events : {OneEvent}]
  \cup [type : {"A1"}, prev : {0}, hash : Hashes, set : Sets, events : Framings]
  \cup [type : {"A2"}, region : Regions, flags : NotifFlags, events : {OneEvent}]

\* The table t after the entries of a 0xA1.
Applied(set, t) == [r \in Regions |-> IF r \in DOMAIN set THEN set[r] ELSE t[r]]

\* A 0xA1 leads from the state of the alerts at one hash to that at the next; the
\* snapshot, from none.
Leads(m) ==
  m.type = "A1" =>
    /\ m.hash <= Len(hist) /\ m.prev <= Len(hist)
    /\ hist[m.hash] = Applied(m.set, IF m.prev = 0 THEN Clear ELSE hist[m.prev])

Chained ==
  /\ wire \in Seq(Messages)
  /\ \A i \in 1..Len(wire) : Leads(wire[i])
  /\ hasHash => lastHash \in 1..Len(hist)

\* A message is taken from the wire with its last event, and a session starts with
\* an empty wire.
Assembled ==
  /\ wire = <<>> => part = 0
  /\ wire # <<>> =>
       /\ session \in {"open", "dead"} /\ ws # "clear"
       /\ part < Len(Head(wire).events)
  /\ part > 0 => cut

\* No difference is applied before the snapshot of the session, unless that was cut.
SnapshotFirst ==
  /\ ~hasHash => table = Clear
  /\ session = "open" /\ ws # "clear" /\ ~hasHash /\ ~cut =>
       wire # <<>> /\ Head(wire).type = "A1" /\ Head(wire).prev = 0

\* The same as TableIsTruth, and counters, buffer and backoff in their bounds
\* (jaam_ws.h).
SessionSound == JaamTypeOK /\ TableIsTruth /\ Chained /\ Assembled /\ SnapshotFirst

\* docs/PRODUCT_SPEC.md: the component parses the bulk snapshot. When all of it has
\* come and been dealt with, the table is what it says.
BulkParsed ==
  session = "open" /\ ws = "idle" /\ wire = <<>> => hasHash /\ table = hist[lastHash]

\* HandedOver and what makes it inductive: what the main loop has read and is
\* about to report is what flags_ holds, or is going to be replaced.
HandOverInv ==
  /\ HandedOver
  /\ mn = "report" /\ mf # flags => pending \/ ws = "pend"

\* A client that was rejected does not come back before the longest wait, unless
\* the network was lost meanwhile.
RejectedWaits == [][StartClient => ~owed]_vars

\* A rejection is remembered until the session it ended is cleared away, and no
\* handler runs without a session.
OwedInv ==
  /\ session \in {"none", "over"} => ws = "idle"
  /\ owed => penalty /\ session # "none"

\* Once the server and the network are quiet, the automations know the alerts of
\* the region, unless the snapshot of the session that is left came in pieces, or one
\* task stored flags it had computed before the other task's update.
AlertsArrive == <>[](cut \/ raced \/ reported = Fusion(Truth, Quiet, home))

\* The same without the second exception, where no notification expires and no region
\* changes: then only the task of the library computes flags.
AlertsAlwaysArrive == <>[](cut \/ reported = Fusion(Truth, Quiet, home))
=============================================================================
