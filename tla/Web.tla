--------------------------------- MODULE Web ---------------------------------
(* The pages of the device: the web interface (htram_web.cpp) and the captive  *)
(* portal (captive_portal.cpp). A request is served by the HTTP task, which    *)
(* reads what it needs and defers the rest to the main loop; what must outlive *)
(* a restart is in NVS. Coordinates and name of the town go together as town.  *)
EXTENDS Board

CONSTANTS Nets,       \* Wi-Fi networks, each with its password
          Reachable,  \* those that can be joined where the device is
          Towns,      \* towns a page can choose
          Regions,    \* regions a page can choose
          NoNet, ConfigNet,  \* no network; the placeholder the image is built with
          Keep               \* a field the request leaves out

ASSUME WebAssumption ==
  /\ Reachable \subseteq Nets /\ {NoNet, ConfigNet} \cap Nets = {} /\ NoNet # ConfigNet
  /\ Regions \subseteq Nat /\ Keep \notin Towns /\ 31 \in Regions /\ Towns # {}

VARIABLES
  geo,      \* region_, and lat_, lon_, city_, of the web component: what pages show
  kept,     \* htram_web_geo_v1 in NVS: << >> or << geo >>
  bound,    \* the geo in force: alert_region and the client's, and the weather's
  boundNvs, \* alert_region in NVS: written some time after the variable
  alarm,    \* a switch of the page; it restores its state itself
  alarmNvs, \* that state in NVS: written some time after the switch
  jobs,     \* deferred to the loop, in order
  portal,   \* the captive portal's timeout "wifisave": << >> or << network, step >>
  wifi,     \* [sta, online, saved, perm]: the station, its NVS entry, the own one
  want,     \* history: each setting as the newest request that named it had it
  undone,   \* history: the settings a request of which came to nothing (Undoing, Lost)
  asked     \* history: the network last asked for

webVars == << geo, kept, bound, boundNvs, alarm, alarmNvs, jobs, portal, wifi, want, undone, asked >>
switchVars == << alarm, alarmNvs >>

-----------------------------------------------------------------------------
(* The values. *)

LegacyMap == << 7266, 11, 13, 21, 27, 8, 5, 10, 14, 25, 20, 22, 16, 28, 12, 23, 18,
                17, 9, 19, 24, 15, 4, 3, 26, 31, 31 >>

\* load_preferences takes every number below 27 for an index of old.
Migrated(region) == IF region < 27 THEN LegacyMap[region + 1] ELSE region

RegionIds == Regions \cup {LegacyMap[i] : i \in DOMAIN LegacyMap}
Geos == [region : RegionIds, town : Towns]
KeepAll == [region |-> Keep, town |-> Keep, alarm |-> Keep]
Patches == [region : Regions \cup {Keep}, town : Towns \cup {Keep}, alarm : BOOLEAN \cup {Keep}]
Job == [do : {"apply"}, geo : Geos, patch : Patches]
         \cup [do : {"wifi", "wifi2"}, net : Nets] \cup [do : {"reboot", "restart", "update"}]

Settings == {"region", "town", "alarm"}
Shown == [region |-> geo.region, town |-> geo.town, alarm |-> alarm]

Or(new, old) == IF new = Keep THEN old ELSE new
Patched(g, p) == [region |-> Or(p.region, g.region), town |-> Or(p.town, g.town)]
GeoChanged(p) == p.region # Keep \/ p.town # Keep
Named(p) == {f \in Settings : p[f] # Keep}

\* What the requests that were answered and not yet carried out name.
Names(j, f) == j.do = "apply" /\ j.patch[f] # Keep
OnItsWay == {f \in Settings : \E i \in DOMAIN jobs : Names(jobs[i], f)}

\* Patch p leaves these as they were before a request that is on its way.
Undoing(p) == IF GeoChanged(p) THEN (OnItsWay \ Named(p)) \ {"alarm"} ELSE {}

-----------------------------------------------------------------------------
(* Requests. *)

\* POST /api/settings: geo is completed from what is in force now and deferred as a
\* whole; of the other settings only those the request names are.
PostSettings(p) ==
  /\ On /\ Ask("settings") /\ p # KeepAll
  /\ jobs' = Append(jobs, [do |-> "apply", geo |-> Patched(geo, p), patch |-> p])
  /\ undone' = (undone \cup Undoing(p)) \ Named(p)
  /\ want' = [region |-> Or(p.region, want.region), town |-> Or(p.town, want.town),
              alarm |-> Or(p.alarm, want.alarm)]
  /\ UNCHANGED << esp, linkVars, geo, kept, bound, boundNvs, switchVars, portal, wifi, asked >>

\* POST /api/wifi with an SSID.
PostWifi(net) ==
  /\ On /\ Ask("network")
  /\ jobs' = Append(jobs, [do |-> "wifi", net |-> net])
  /\ asked' = net
  /\ UNCHANGED << esp, linkVars, geo, kept, bound, boundNvs, switchVars, portal, wifi, want, undone >>

\* POST /api/reboot
PostReboot ==
  /\ On /\ Ask("reboot")
  /\ jobs' = Append(jobs, [do |-> "reboot"])
  /\ UNCHANGED << esp, linkVars, geo, kept, bound, boundNvs, switchVars, portal, wifi, want, undone, asked >>

\* POST /api/ota_update. The flag on_battery is the update's, not modelled here.
PostUpdate ==
  /\ On /\ Ask("update")
  /\ jobs' = Append(jobs, [do |-> "update"])
  /\ UNCHANGED << esp, linkVars, geo, kept, bound, boundNvs, switchVars, portal, wifi, want, undone, asked >>

\* /wifisave of the portal: it answers, and saves 1.2 s later; a second request
\* within that time replaces the first. (None comes between the two writes.)
PortalSave(net) ==
  /\ On /\ Ask("network") /\ (portal # << >> => portal[2] = "perm")
  /\ portal' = << net, "perm" >> /\ asked' = net
  /\ UNCHANGED << esp, linkVars, geo, kept, bound, boundNvs, switchVars, jobs, wifi, want, undone >>

-----------------------------------------------------------------------------
(* The loop. *)

\* The sync of a save writes whatever waits to be written, the switch's state too.
Synced(saves) == alarmNvs' = IF saves THEN alarm ELSE alarmNvs

\* Mutant: the geo is handed on and not saved.
SaveGeo_unsaved(g) == UNCHANGED << kept, alarmNvs >> /\ bound' = g

\* save_preferences with its sync, and sync_to_system, which hands the geo on.
SaveGeo(g) == kept' = << g >> /\ Synced(TRUE) /\ bound' = g

\* The deferred part of POST /api/settings: the geo is set and saved, then the switch
\* is turned, of which no sync is left to write the state.
Apply(j) ==
  /\ IF GeoChanged(j.patch)
     THEN geo' = j.geo /\ SaveGeo(j.geo)
     ELSE UNCHANGED << geo, kept, bound, alarmNvs >>
  /\ alarm' = Or(j.patch.alarm, alarm)
  /\ UNCHANGED << esp, wifi >>

\* save_permanent_wifi
Permanent(w, net) == [w EXCEPT !.perm = net]

\* save_wifi_sta (ESPHome): stored and joined.
SaveSta(net) == wifi' = [wifi EXCEPT !.saved = net, !.sta = net, !.online = FALSE]

\* Mutant: what is in NVS is never replaced.
AutoSaved_once(w) ==
  IF w.online /\ w.sta \notin {NoNet, ConfigNet} /\ w.perm = NoNet
  THEN Permanent(w, w.sta) ELSE w

\* auto_save_active_wifi: a network that works is kept as the permanent one.
AutoSaved(w) ==
  IF w.online /\ w.sta \notin {NoNet, ConfigNet} THEN Permanent(w, w.sta) ELSE w

\* The first deferred call, as far as it leaves the device up. The two saves of a
\* network are two writes, and the power can go between them.
RunJob ==
  /\ Free \/ esp = "job"
  /\ jobs # << >> /\ (esp = "job" <=> Head(jobs).do = "wifi2")
  /\ LET j == Head(jobs)
     IN \/ /\ j.do = "apply" /\ Apply(j) /\ jobs' = Tail(jobs)
        \/ /\ j.do = "wifi"
           /\ wifi' = Permanent(wifi, j.net) /\ esp' = "job"
           /\ jobs' = << [j EXCEPT !.do = "wifi2"] >> \o Tail(jobs)
           /\ Synced(TRUE) /\ UNCHANGED << geo, kept, bound, alarm >>
        \/ /\ j.do = "wifi2"
           /\ SaveSta(j.net)
           /\ jobs' = << [do |-> "restart"] >> \o Tail(jobs)
           /\ Synced(TRUE) /\ UNCHANGED << esp, geo, kept, bound, alarm >>
  /\ UNCHANGED << linkVars, events, boundNvs, portal, want, undone, asked >>

\* trigger_ota_update, as far as its first upload. The arbiter grants it the LEDs.
StartUpdate ==
  /\ Free /\ jobs # << >> /\ Head(jobs).do = "update"
  /\ jobs' = Tail(jobs) /\ esp' = "upload"
  /\ wifi' = AutoSaved(wifi) /\ Synced(wifi'.perm # wifi.perm) /\ Light(Leds)
  /\ UNCHANGED << ota, gd, uplink, events, geo, kept, bound, boundNvs, alarm, portal, want,
                  undone, asked >>

\* safe_reboot is what is left of the first deferred call.
Rebooting == jobs # << >> /\ \/ Free /\ Head(jobs).do = "reboot"
                             \/ esp = "job" /\ Head(jobs).do = "restart"

\* The portal's timeout, in two writes as well. The scheduler serves what is
\* deferred before what is due.
PortalRuns ==
  /\ portal # << >>
  /\ \/ /\ Free /\ jobs = << >> /\ portal[2] = "perm" /\ esp' = "job"
        /\ wifi' = Permanent(wifi, portal[1]) /\ portal' = << portal[1], "sta" >>
     \/ /\ esp = "job" /\ portal[2] = "sta" /\ esp' = "free"
        /\ SaveSta(portal[1]) /\ portal' = << >>
  /\ Synced(TRUE)
  /\ UNCHANGED << linkVars, events, geo, kept, bound, boundNvs, alarm, jobs, want, undone,
                  asked >>

\* ESPHome writes what is restored some time after it changed.
KeepGlobals ==
  /\ On /\ << boundNvs, alarmNvs >> # << bound, alarm >>
  /\ boundNvs' = bound /\ Synced(TRUE)
  /\ UNCHANGED << boardVars, geo, kept, bound, alarm, jobs, portal, wifi, want, undone, asked >>

\* The station joins its network, and on_connect runs in the loop.
Connect ==
  /\ Free /\ ~wifi.online /\ wifi.sta \in Reachable
  /\ wifi' = AutoSaved([wifi EXCEPT !.online = TRUE]) /\ Synced(wifi'.perm # wifi.perm)
  /\ UNCHANGED << boardVars, geo, kept, bound, boundNvs, alarm, jobs, portal, want, undone, asked >>

-----------------------------------------------------------------------------
(* The ESP32 starts again. *)

Default == [region |-> 31, town |-> CHOOSE t \in Towns : TRUE]

\* load_preferences
Loaded == IF kept = << >> THEN Default
          ELSE [kept[1] EXCEPT !.region = Migrated(@)]

\* restore_permanent_wifi runs before ESPHome's Wi-Fi starts, which then prefers its
\* own entry. A new image does not find the entry of the old one.
Station(saved) == IF saved # NoNet THEN saved
                  ELSE IF wifi.perm # NoNet THEN wifi.perm ELSE ConfigNet

NetPending == portal # << >> \/ \E i \in DOMAIN jobs : jobs[i].do \in {"wifi", "wifi2"}

\* What a restart takes back: requests that were not carried out, a switch that was not
\* written, and a region below 27, which Migrated makes another.
Lost == OnItsWay \cup (IF alarm # alarmNvs THEN {"alarm"} ELSE {})
          \cup (IF kept # << >> /\ kept[1].region < 27 THEN {"region"} ELSE {})

\* Mutant: sync_to_system is not called.
WebBoots_unsynced(newImage) ==
  /\ geo' = Loaded /\ bound' = boundNvs
  /\ jobs' = << >> /\ portal' = << >>
  /\ LET saved == IF newImage THEN NoNet ELSE wifi.saved
     IN /\ wifi' = [wifi EXCEPT !.saved = saved, !.sta = Station(saved), !.online = FALSE]
        /\ asked' = IF NetPending THEN Station(saved) ELSE asked
  /\ alarm' = alarmNvs /\ undone' = undone \cup Lost
  /\ UNCHANGED << kept, boundNvs, alarmNvs, want >>

\* setup of the web component, the switch's, and on_boot, down to sync_to_system, which hands
\* the geo on once more. What was deferred or waited for its time is lost.
WebBoots(newImage) ==
  /\ geo' = Loaded /\ bound' = Loaded
  /\ jobs' = << >> /\ portal' = << >>
  /\ LET saved == IF newImage THEN NoNet ELSE wifi.saved
     IN /\ wifi' = [wifi EXCEPT !.saved = saved, !.sta = Station(saved), !.online = FALSE]
        /\ asked' = IF NetPending THEN Station(saved) ELSE asked
  /\ alarm' = alarmNvs /\ undone' = undone \cup Lost
  /\ UNCHANGED << kept, boundNvs, alarmNvs, want >>

WebInit ==
  /\ geo = Default /\ kept = << >> /\ bound = Default /\ boundNvs = Default /\ alarm = FALSE
  /\ alarmNvs = FALSE
  /\ jobs = << >> /\ portal = << >>
  /\ \E net \in Nets \cup {ConfigNet} :
       /\ wifi = [sta |-> net, online |-> FALSE, perm |-> NoNet,
                  saved |-> IF net = ConfigNet THEN NoNet ELSE net]
       /\ asked = net
  /\ want = Shown /\ undone = {}

-----------------------------------------------------------------------------
(* What the pages promise. *)

WebTypeOK ==
  /\ geo \in Geos /\ bound \in Geos /\ boundNvs \in Geos
  /\ kept \in {<< >>} \cup {<< g >> : g \in Geos}
  /\ alarm \in BOOLEAN /\ alarmNvs \in BOOLEAN
  /\ \A i \in DOMAIN jobs : jobs[i] \in Job
  /\ portal \in {<< >>} \cup (Nets \X {"perm", "sta"})
  /\ wifi \in [sta : Nets \cup {ConfigNet}, online : BOOLEAN,
               saved : Nets \cup {NoNet}, perm : Nets \cup {NoNet}]
  /\ want \in [region : RegionIds, town : Towns, alarm : BOOLEAN] /\ undone \subseteq Settings
  /\ asked \in Nets \cup {ConfigNet}

\* The region and the town that pages show are those alerts and weather are asked
\* for, whatever restart came between NVS and the globals; and they are the ones in
\* NVS, for a region that is not below 27 (RegionSurvives).
InForce ==
  On => /\ bound = geo
        /\ (kept # << >> => kept[1].town = geo.town)
        /\ (kept # << >> /\ kept[1].region >= 27 => kept[1] = geo)

\* Once the deferred calls are through, every setting has the value of the newest
\* request that named it, over restarts and power cuts: unless another request that
\* left it out crossed that one (Undoing), or a restart took it back, for one of the
\* three reasons of Lost. Naming it once more puts an end to either.
SettingsAsAsked ==
  On /\ jobs = << >> => \A f \in Settings \ undone : Shown[f] = want[f]

\* The station is set to the network last asked for, through the web or the portal,
\* across restarts and new images; only a restart before it was stored, which is
\* possible as both answer first, leaves the old one.
NetworkAsAsked == On /\ ~NetPending => wifi.sta = asked

\* WEB_UI_SPEC.md 3: the alert region survives a power cycle. load_preferences
\* takes the id of an oblast, which the page offers, for an index of old.
RegionSurvives == On /\ kept # << >> => geo.region = kept[1].region
=============================================================================
