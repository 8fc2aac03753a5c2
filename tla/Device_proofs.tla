--------------------------- MODULE Device_proofs ---------------------------
(***************************************************************************)
(* What the device promises, for all towns, regions, networks, pages and   *)
(* budgets.  First: the town and region in force are the ones on the pages *)
(* across every restart, and which readings are published.  Then what was  *)
(* asked for through the pages, the uploads, and the gestures of the       *)
(* button, each with its own argument.                                     *)
(***************************************************************************)
EXTENDS Device, SequenceTheorems, FiniteSetTheorems, FunctionTheorems, TLAPS

USE WebAssumption

\* A geo, and what may be deferred, with any number for a region: what the loop sets
\* is what a request completed, so the deferred calls belong to the invariant.
Geo == [region : Nat, town : Towns]
Deferred == [do : {"apply"}, geo : Geo, patch : Patches]
              \cup [do : {"wifi", "wifi2"}, net : Nets] \cup [do : {"reboot", "restart", "update"}]

Same == /\ bound = geo
        /\ kept # << >> => kept[1].town = geo.town
        /\ kept # << >> /\ kept[1].region >= 27 => kept[1] = geo

GeoInv == /\ geo \in Geo /\ jobs \in Seq(Deferred)
          /\ kept = << >> \/ (kept # << >> /\ kept[1] \in Geo)
          /\ Same

-----------------------------------------------------------------------------
(* Town and region. *)

LEMMA MigratedFacts ==
  ASSUME NEW n \in Nat
  PROVE  Migrated(n) \in Nat /\ (n >= 27 => Migrated(n) = n)
<1>1. \A i \in 1 .. 27 : LegacyMap[i] \in Nat
  BY DEF LegacyMap
<1> QED
  BY <1>1 DEF Migrated

\* What load_preferences makes of what was kept.
LEMMA LoadedFacts ==
  ASSUME GeoInv
  PROVE  /\ Loaded \in Geo
         /\ kept # << >> => kept[1].town = Loaded.town
         /\ kept # << >> /\ kept[1].region >= 27 => kept[1] = Loaded
<1>1. CASE kept = << >>
  <2>1. Towns # {} /\ Default.town \in Towns
    BY DEF Default
  <2> QED
    BY <1>1, <2>1 DEF Loaded, Default, Geo
<1>2. CASE kept # << >>
  <2>1. kept[1] \in Geo /\ kept[1].region \in Nat
    BY <1>2 DEF GeoInv, Geo
  <2>2. Migrated(kept[1].region) \in Nat
        /\ (kept[1].region >= 27 => Migrated(kept[1].region) = kept[1].region)
    BY <2>1, MigratedFacts
  <2>3. Loaded = [kept[1] EXCEPT !.region = Migrated(kept[1].region)]
    BY <1>2 DEF Loaded
  <2> QED
    BY <2>1, <2>2, <2>3 DEF Geo
<1> QED
  BY <1>1, <1>2

LEMMA BootKeepsGeo ==
  ASSUME GeoInv, NEW newImage, WebBoots(newImage)
  PROVE  GeoInv'
<1>1. geo' = Loaded /\ bound' = Loaded /\ jobs' = << >> /\ kept' = kept
  BY DEF WebBoots
<1>2. << >> \in Seq(Deferred)
  BY EmptySeq
<1> QED
  BY <1>1, <1>2, LoadedFacts DEF GeoInv, Same

\* Another deferred call changes nothing of the geo.
LEMMA DeferKeepsGeo ==
  ASSUME GeoInv, NEW j \in Deferred, jobs' = Append(jobs, j), UNCHANGED << geo, kept, bound >>
  PROVE  GeoInv'
<1>1. jobs' \in Seq(Deferred)
  BY AppendProperties DEF GeoInv
<1> QED
  BY <1>1 DEF GeoInv, Same

LEMMA RequestKeepsGeo ==
  ASSUME GeoInv, WebRequest
  PROVE  GeoInv'
<1>1. ASSUME NEW p \in Patches, PostSettings(p) PROVE GeoInv'
  <2>1. Patched(geo, p) \in Geo
    <3>1. geo \in Geo /\ geo.region \in Nat /\ geo.town \in Towns
      BY DEF GeoInv, Geo
    <3>2. p.region \in Regions \cup {Keep} /\ p.town \in Towns \cup {Keep}
      BY <1>1 DEF Patches
    <3>3. Or(p.region, geo.region) \in Nat /\ Or(p.town, geo.town) \in Towns
      BY <3>1, <3>2 DEF Or
    <3> QED
      BY <3>3 DEF Patched, Geo
  <2>2. [do |-> "apply", geo |-> Patched(geo, p), patch |-> p] \in Deferred
    BY <1>1, <2>1 DEF Deferred
  <2> QED
    BY <1>1, <2>2, DeferKeepsGeo DEF PostSettings
<1>2. ASSUME NEW net \in Nets, PostWifi(net) PROVE GeoInv'
  <2>1. [do |-> "wifi", net |-> net] \in Deferred
    BY <1>2 DEF Deferred
  <2> QED
    BY <1>2, <2>1, DeferKeepsGeo DEF PostWifi
<1>3. ASSUME NEW net \in Nets, PortalSave(net) PROVE GeoInv'
  BY <1>3 DEF PortalSave, GeoInv, Same
<1>4. CASE PostReboot
  <2>1. [do |-> "reboot"] \in Deferred
    BY DEF Deferred
  <2> QED
    BY <1>4, <2>1, DeferKeepsGeo DEF PostReboot
<1>5. CASE PostUpdate
  <2>1. [do |-> "update"] \in Deferred
    BY DEF Deferred
  <2> QED
    BY <1>5, <2>1, DeferKeepsGeo DEF PostUpdate
<1> QED
  BY <1>1, <1>2, <1>3, <1>4, <1>5 DEF WebRequest

\* The first deferred call sets the geo everywhere, or nowhere.
LEMMA RunJobKeepsGeo ==
  ASSUME GeoInv, RunJob
  PROVE  GeoInv'
<1> DEFINE j == Head(jobs)
<1>1. jobs \in Seq(Deferred) /\ jobs # << >> /\ j \in Deferred /\ Tail(jobs) \in Seq(Deferred)
  BY HeadTailProperties DEF GeoInv, RunJob
<1>2. CASE j.do = "apply" /\ Apply(j) /\ jobs' = Tail(jobs)
  <2>1. j.geo \in Geo
    BY <1>1, <1>2 DEF Deferred
  <2>2. CASE GeoChanged(j.patch)
    <3>1. geo' = j.geo /\ kept' = << j.geo >> /\ bound' = j.geo
      BY <1>2, <2>2 DEF Apply, SaveGeo
    <3>2. kept' # << >> /\ kept'[1] = j.geo
      BY <3>1
    <3> QED
      BY <1>1, <1>2, <2>1, <3>1, <3>2 DEF GeoInv, Same
  <2>3. CASE ~GeoChanged(j.patch)
    <3>1. UNCHANGED << geo, kept, bound >>
      BY <1>2, <2>3 DEF Apply
    <3> QED
      BY <1>1, <1>2, <3>1 DEF GeoInv, Same
  <2> QED
    BY <2>2, <2>3
<1>3. ASSUME NEW first \in Deferred, jobs' = << first >> \o Tail(jobs),
             UNCHANGED << geo, kept, bound >>
      PROVE  GeoInv'
  <2>1. << first >> \in Seq(Deferred)
    OBVIOUS
  <2>2. jobs' \in Seq(Deferred)
    BY <1>1, <1>3, <2>1, ConcatProperties
  <2> QED
    BY <1>3, <2>2 DEF GeoInv, Same
<1>4. CASE j.do = "wifi" /\ jobs' = << [j EXCEPT !.do = "wifi2"] >> \o Tail(jobs)
           /\ UNCHANGED << geo, kept, bound >>
  <2>1. j \in [do : {"wifi", "wifi2"}, net : Nets]
    BY <1>1, <1>4 DEF Deferred
  <2>2. [j EXCEPT !.do = "wifi2"] \in Deferred
    BY <2>1 DEF Deferred
  <2> QED
    BY <1>3, <1>4, <2>2
<1>5. CASE jobs' = << [do |-> "restart"] >> \o Tail(jobs) /\ UNCHANGED << geo, kept, bound >>
  <2>1. [do |-> "restart"] \in Deferred
    BY DEF Deferred
  <2> QED
    BY <1>3, <1>5, <2>1
<1> QED
  BY <1>2, <1>4, <1>5 DEF RunJob

LEMMA GeoStarts == DeviceInit => GeoInv
<1> SUFFICES ASSUME DeviceInit PROVE GeoInv
  OBVIOUS
<1>1. geo = Default /\ bound = Default /\ kept = << >> /\ jobs = << >>
  BY DEF DeviceInit, WebInit
<1>2. Default \in Geo
  BY DEF Default, Geo
<1> QED
  BY <1>1, <1>2, EmptySeq DEF GeoInv, Same

LEMMA GeoStep == GeoInv /\ [DeviceNext]_vars => GeoInv'
<1> SUFFICES ASSUME GeoInv, [DeviceNext]_vars PROVE GeoInv'
  OBVIOUS
<1>1. ASSUME UNCHANGED << geo, kept, bound, jobs >> PROVE GeoInv'
  BY <1>1 DEF GeoInv, Same
<1>2. CASE UNCHANGED vars
  BY <1>1, <1>2 DEF vars, webVars
<1>3. CASE WebStep
  <2>1. CASE StartUpdate
    <3>1. jobs' = Tail(jobs) /\ jobs # << >> /\ UNCHANGED << geo, kept, bound >>
      BY <2>1 DEF StartUpdate
    <3>2. jobs' \in Seq(Deferred)
      BY <3>1, HeadTailProperties DEF GeoInv
    <3> QED
      BY <3>1, <3>2 DEF GeoInv, Same
  <2>2. CASE PortalRuns \/ KeepGlobals \/ Connect
    BY <1>1, <2>2 DEF PortalRuns, KeepGlobals, Connect
  <2> QED
    BY <1>3, <2>1, <2>2, RunJobKeepsGeo DEF WebStep
<1>4. CASE Timer \/ Answer \/ ButtonStep \/ AssetStep \/ BodyStep \/ Telemetry \/ GdStarts \/ Dispatch
  BY <1>1, <1>4 DEF Timer, Answer, ButtonStep, AssetStep, BodyStep, Telemetry, GdStarts, Dispatch,
                    PostAssets, RemoteAssets, NoRemoteAssets, GdWrites, Advance, UploadEnds, webVars
<1>5. CASE Restart
  <2>1. CASE Reboot \/ EspStarts
    BY <2>1, BootKeepsGeo DEF Reboot, EspStarts, EspBoots
  <2>2. CASE FlashEsp
    BY <1>1, <2>2, BootKeepsGeo DEF FlashEsp, EspBoots, webVars
  <2>3. CASE EnterStandby \/ Wake \/ GdRestart \/ PowerCut
    BY <1>1, <2>3 DEF EnterStandby, Wake, GdRestart, PowerCut, EspOff, webVars
  <2> QED
    BY <1>5, <2>1, <2>2, <2>3 DEF Restart
<1> QED
  BY <1>2, <1>3, <1>4, <1>5, RequestKeepsGeo DEF DeviceNext

\* The town and the region on the pages are those alerts and weather are asked for and
\* those in NVS, whatever restarts, updates and requests cross.
THEOREM GeoInForce == DeviceSpec => []InForce
<1>1. GeoInv => InForce
  BY DEF GeoInv, Same, InForce
<1> QED
  BY <1>1, GeoStarts, GeoStep, PTL DEF DeviceSpec

-----------------------------------------------------------------------------
(* One upload at a time, unless the overlap is noted. *)

AloneInv == /\ overlap \in BOOLEAN
            /\ upload \in [Uploaders -> [at : Stages, page : Nat]]
            /\ ~overlap => ~(Active("http") /\ Active("loop"))

LEMMA UploadersAre == \A a \in Uploaders : a = "http" \/ a = "loop"
BY DEF Uploaders

LEMMA BeginNotesOverlap ==
  ASSUME AloneInv, NEW a \in Uploaders, Begin(a)
  PROVE  AloneInv'
<1>1. /\ upload \in [Uploaders -> [at : Stages, page : Nat]]
      /\ upload' = [upload EXCEPT ![a] = [at |-> "erase", page |-> 0]]
      /\ overlap' = \E b \in Uploaders \ {a} : Active(b)
  BY DEF AloneInv, Begin
<1>2. [at |-> "erase", page |-> 0] \in [at : Stages, page : Nat]
  BY DEF Stages
<1>3. /\ upload' \in [Uploaders -> [at : Stages, page : Nat]]
      /\ \A b \in Uploaders \ {a} : Active(b)' <=> Active(b)
  BY <1>1, <1>2 DEF Active
<1>4. ~overlap' => ~(Active("http") /\ Active("loop"))'
  BY <1>1, <1>3 DEF Uploaders
<1> QED
  BY <1>1, <1>3, <1>4 DEF AloneInv

LEMMA ProceedStaysAlone ==
  ASSUME AloneInv, NEW a \in Uploaders, Proceed(a)
  PROVE  AloneInv'
<1>1. /\ upload \in [Uploaders -> [at : Stages, page : Nat]] /\ Active(a)
      /\ UNCHANGED overlap
      /\ upload' = [upload EXCEPT ![a] = Following(upload[a])]
  BY DEF AloneInv, Proceed, Answered
<1>2. Following(upload[a]) \in [at : Stages, page : Nat] /\ Following(upload[a]).at # "idle"
  BY <1>1 DEF Following, Stages
<1>3. /\ upload' \in [Uploaders -> [at : Stages, page : Nat]]
      /\ \A b \in Uploaders : Active(b)' <=> Active(b)
  BY <1>1, <1>2 DEF Active
<1>4. (Active("http") /\ Active("loop"))' <=> (Active("http") /\ Active("loop"))
  BY <1>3 DEF Uploaders
<1> QED
  BY <1>1, <1>3, <1>4 DEF AloneInv

\* What is common to the four ways an upload ends.
LEMMA EndIsReturn ==
  ASSUME NEW a \in Uploaders, UploadEnds(a)
  PROVE  /\ Active(a) /\ ota' = FALSE
         /\ \E result \in {"ok", "failed"} : Return(a, result) /\ (result = "ok" => Verified(a))
         /\ uplink' = uplink \/ (uplink # << >> /\ uplink' = Tail(uplink))
<1>1. CASE EraseFails(a) \/ WriteFails(a) \/ VerifyFails(a)
  BY <1>1 DEF EraseFails, WriteFails, VerifyFails, Failing, Refused, NoAnswer, Answered
<1>2. CASE Succeeds(a)
  BY <1>2 DEF Succeeds, Verified, Answered
<1> QED
  BY <1>1, <1>2 DEF UploadEnds

LEMMA ReturnStaysAlone ==
  ASSUME AloneInv, NEW a \in Uploaders, NEW result, Return(a, result)
  PROVE  AloneInv'
<1>1. /\ upload \in [Uploaders -> [at : Stages, page : Nat]]
      /\ upload' = [upload EXCEPT ![a] = Resting]
      /\ overlap' = (overlap /\ \E b \in Uploaders \ {a} : Active(b))
  BY DEF AloneInv, Return
<1>2. Resting \in [at : Stages, page : Nat] /\ Resting.at = "idle"
  BY DEF Resting, Stages
<1>3. upload' \in [Uploaders -> [at : Stages, page : Nat]] /\ ~Active(a)'
  BY <1>1, <1>2 DEF Active
<1>4. ~(Active("http") /\ Active("loop"))'
  BY <1>3, UploadersAre
<1>5. overlap' \in BOOLEAN
  BY <1>1 DEF AloneInv
<1> QED
  BY <1>3, <1>4, <1>5 DEF AloneInv

LEMMA BootIsAlone ==
  ASSUME AssetsBoot
  PROVE  AloneInv'
<1>1. upload' = [a \in Uploaders |-> Resting] /\ overlap' = FALSE
  BY DEF AssetsBoot
<1>2. Resting \in [at : Stages, page : Nat] /\ Resting.at = "idle"
  BY DEF Resting, Stages
<1>3. \A a \in Uploaders : ~Active(a)'
  BY <1>1, <1>2 DEF Active
<1> QED
  BY <1>1, <1>2, <1>3 DEF AloneInv, Uploaders

LEMMA AloneStarts == DeviceInit => AloneInv
<1> SUFFICES ASSUME DeviceInit PROVE AloneInv
  OBVIOUS
<1>1. upload = [a \in Uploaders |-> Resting] /\ overlap = FALSE
  BY DEF DeviceInit, AssetsInit
<1>2. Resting \in [at : Stages, page : Nat] /\ Resting.at = "idle"
  BY DEF Resting, Stages
<1>3. \A a \in Uploaders : ~Active(a)
  BY <1>1, <1>2 DEF Active
<1> QED
  BY <1>1, <1>2, <1>3 DEF AloneInv, Uploaders

LEMMA AloneStep == AloneInv /\ [DeviceNext]_vars => AloneInv'
<1> SUFFICES ASSUME AloneInv, [DeviceNext]_vars PROVE AloneInv'
  OBVIOUS
<1>1. ASSUME UNCHANGED << upload, overlap >> PROVE AloneInv'
  BY <1>1 DEF AloneInv, Active
<1>2. CASE UNCHANGED vars
  BY <1>1, <1>2 DEF vars, assetVars
<1>3. CASE (WebRequest /\ UNCHANGED << buttonVars, assetVars, bodyVars >>)
           \/ WebStep \/ Timer \/ Answer \/ ButtonStep \/ BodyStep
  BY <1>1, <1>3 DEF WebStep, Timer, Answer, ButtonStep, BodyStep, assetVars
<1>4. CASE Dispatch \/ Telemetry \/ GdStarts
  BY <1>1, <1>4 DEF Dispatch, Telemetry, GdStarts, assetVars
<1>5. CASE AssetStep
  <2>1. CASE PostAssets \/ RemoteAssets
    BY <2>1, BeginNotesOverlap DEF PostAssets, RemoteAssets, Uploaders
  <2>2. CASE NoRemoteAssets
    BY <1>1, <2>2 DEF NoRemoteAssets, assetVars
  <2>3. ASSUME NEW a \in Uploaders, Advance(a) PROVE AloneInv'
    BY <2>3, ProceedStaysAlone DEF Advance
  <2>4. ASSUME NEW a \in Uploaders, UploadEnds(a) PROVE AloneInv'
    BY <2>4, EndIsReturn, ReturnStaysAlone
  <2>5. CASE GdWrites \/ Lose
    BY <1>1, <2>5 DEF GdWrites, GdFlash, Lose
  <2> QED
    BY <1>5, <2>1, <2>2, <2>3, <2>4, <2>5 DEF AssetStep
<1>6. CASE Restart
  <2>1. CASE Reboot \/ EspStarts
    BY <2>1, BootIsAlone DEF Reboot, EspStarts, EspBoots
  <2>2. CASE FlashEsp
    BY <1>1, <2>2, BootIsAlone DEF FlashEsp, EspBoots, assetVars
  <2>3. CASE EnterStandby \/ PowerCut
    BY <2>3, BootIsAlone DEF EnterStandby, PowerCut, EspOff
  <2>4. CASE Wake \/ GdRestart
    BY <1>1, <2>4 DEF Wake, GdRestart, assetVars
  <2> QED
    BY <1>6, <2>1, <2>2, <2>3, <2>4 DEF Restart
<1> QED
  BY <1>2, <1>3, <1>4, <1>5, <1>6 DEF DeviceNext

-----------------------------------------------------------------------------
(* Readings. *)

\* A reading without its error flag is the last cycle's, once its conversion is over;
\* and the reports on their way are sound already: the ESP32 adds nothing to them.
Air == [temp : {"none", "last", "older"}, co2 : {"zero", "measured"},
        err : BOOLEAN, pending : BOOLEAN, warmup : BOOLEAN]
Honest(p) == p.kind = "telemetry" => PublishedOf(p) \subseteq {"last", "measured"}
HonestUplink == \E S : uplink \in Seq(S) /\ \A p \in S : Honest(p)
AirInv == /\ air \in Air
          /\ ~air.err /\ ~air.pending => air.temp = "last"
          /\ HonestUplink

LEMMA UplinkEmptied == ASSUME uplink' = << >> PROVE HonestUplink'
BY EmptySeq DEF HonestUplink

LEMMA UplinkTaken ==
  ASSUME HonestUplink, uplink # << >>, uplink' = Tail(uplink)
  PROVE  HonestUplink'
BY HeadTailProperties DEF HonestUplink

LEMMA UplinkSent ==
  ASSUME HonestUplink, NEW p, Honest(p), Sent(p)
  PROVE  HonestUplink'
<1>1. PICK S : uplink \in Seq(S) /\ \A q \in S : Honest(q)
  BY DEF HonestUplink
<1> DEFINE T == S \cup {p}
<1>2. uplink \in Seq(T) /\ \A q \in T : Honest(q)
  <2>1. uplink \in [1 .. Len(uplink) -> S] /\ Len(uplink) \in Nat
    BY <1>1, LenProperties
  <2>2. uplink \in [1 .. Len(uplink) -> T]
    BY <2>1
  <2> QED
    BY <1>1, <2>1, <2>2, SeqDef
<1>3. CASE On
  <2>1. uplink' = Append(uplink, p)
    BY <1>3 DEF Sent
  <2>2. uplink' \in Seq(T)
    BY <1>2, <2>1, AppendProperties
  <2> QED
    BY <1>2, <2>2 DEF HonestUplink
<1>4. CASE ~On
  BY <1>4, UplinkEmptied DEF Sent
<1> QED
  BY <1>3, <1>4

LEMMA StartShtFacts ==
  ASSUME NEW a \in Air, NEW answers \in BOOLEAN
  PROVE  /\ StartSht(a, answers) \in Air
         /\ StartSht(a, answers).pending = answers
         /\ StartSht(a, answers).err <=> a.err \/ ~answers
<1>1. (a.err \/ ~answers) \in BOOLEAN
  OBVIOUS
<1> QED
  BY <1>1 DEF StartSht, Air

LEMMA PollCo2Facts ==
  ASSUME NEW a \in Air, NEW answers \in BOOLEAN, NEW b \in PollCo2(a, answers)
  PROVE  b \in Air /\ b.err = a.err /\ b.pending = a.pending
<1>1. CASE ~answers
  BY <1>1 DEF PollCo2
<1>2. CASE answers
  <2>1. CASE b = [a EXCEPT !.co2 = "measured", !.warmup = FALSE]
    BY <2>1 DEF Air
  <2>2. CASE b = [a EXCEPT !.co2 = "zero", !.warmup = TRUE]
    BY <2>2 DEF Air
  <2> QED
    BY <1>2, <2>1, <2>2 DEF PollCo2
<1> QED
  BY <1>1, <1>2

\* The cycle reports what it found before it, under the flags it leaves.
LEMMA CycleKeepsAir ==
  ASSUME AirInv, Cycle
  PROVE  /\ air' \in Air /\ (~air'.err /\ ~air'.pending => air'.temp = "last")
         /\ Honest(Report)
<1>1. PICK answers \in SUBSET {"sht", "co2"} :
        air' \in PollCo2(StartSht([air EXCEPT !.temp = IF @ = "last" THEN "older" ELSE @],
                                  "sht" \in answers), "co2" \in answers)
  BY DEF Cycle
<1> DEFINE aged == [air EXCEPT !.temp = IF @ = "last" THEN "older" ELSE @]
           begun == StartSht(aged, "sht" \in answers)
<1>2. aged \in Air /\ aged.err = air.err
  BY DEF AirInv, Air
<1>3. begun \in Air /\ (begun.err <=> air.err \/ ~begun.pending)
  <2> HIDE DEF aged
  <2>1. ("sht" \in answers) \in BOOLEAN
    OBVIOUS
  <2> QED
    BY <1>2, <2>1, StartShtFacts
<1>4. air' \in Air /\ air'.err = begun.err /\ air'.pending = begun.pending
  <2> HIDE DEF begun
  <2>1. ("co2" \in answers) \in BOOLEAN
    OBVIOUS
  <2>2. air' \in PollCo2(begun, "co2" \in answers)
    BY <1>1 DEF begun, aged
  <2> QED
    BY <1>3, <2>1, <2>2, PollCo2Facts
<1>5. ~air'.err => air.temp = "last"
  BY <1>3, <1>4 DEF AirInv, Cycle, Air
<1>6. ~Report.warmup => Report.co2 = "measured"
  BY <1>4 DEF Report, Air
<1>7. ~Report.err => Report.temp = "last"
  BY <1>5 DEF Report
<1> QED
  BY <1>3, <1>4, <1>6, <1>7 DEF Honest, PublishedOf

LEMMA AirStarts == DeviceInit => AirInv
<1> SUFFICES ASSUME DeviceInit PROVE AirInv
  OBVIOUS
<1>1. air = AirStart /\ uplink = << >>
  BY DEF DeviceInit, SensorsInit
<1>2. HonestUplink
  BY <1>1, EmptySeq DEF HonestUplink
<1> QED
  BY <1>1, <1>2 DEF AirInv, Air, AirStart

LEMMA AirStep == AirInv /\ [DeviceNext]_vars => AirInv'
<1> SUFFICES ASSUME AirInv, [DeviceNext]_vars PROVE AirInv'
  OBVIOUS
<1>1. ASSUME UNCHANGED air, HonestUplink' PROVE AirInv'
  BY <1>1 DEF AirInv
<1>2. ASSUME UNCHANGED << air, uplink >> PROVE AirInv'
  BY <1>2 DEF AirInv, HonestUplink
<1>3. CASE UNCHANGED vars
  BY <1>2, <1>3 DEF vars, boardVars, sensorVars
<1>4. CASE WebRequest /\ UNCHANGED << buttonVars, assetVars, bodyVars >>
  BY <1>2, <1>4 DEF WebRequest, PostSettings, PostWifi, PortalSave, PostReboot, PostUpdate,
                    bodyVars, sensorVars, linkVars
<1>5. CASE WebStep
  <2>1. UNCHANGED uplink
    BY <1>5 DEF WebStep, RunJob, StartUpdate, PortalRuns, KeepGlobals, Connect, linkVars, boardVars
  <2> QED
    BY <1>2, <1>5, <2>1 DEF WebStep, bodyVars, sensorVars
<1>6. CASE Timer \/ Answer
  BY <1>2, <1>6 DEF Timer, Answer, HoldDue, ClickDue, ClearDue, Resend, boardVars, bodyVars, sensorVars
<1>7. CASE ButtonStep
  <2>1. CASE Press
    <3>1. Honest([kind |-> "press"])
      BY DEF Honest
    <3> QED
      BY <1>1, <1>7, <2>1, <3>1, UplinkSent DEF Press, ButtonStep, bodyVars, sensorVars, AirInv
  <2>2. ASSUME NEW d \in 0 .. Long, LetGo(d) PROVE AirInv'
    <3>1. Honest([kind |-> "release", duration |-> d])
      BY DEF Honest
    <3> QED
      BY <1>1, <1>7, <2>2, <3>1, UplinkSent DEF LetGo, ButtonStep, bodyVars, sensorVars, AirInv
  <2>3. CASE Elapse \/ (\E leds \in Lights : SetLeds(leds)) \/ (\E led \in Leds : SwitchLed(led))
    BY <1>2, <1>7, <2>3 DEF Elapse, SetLeds, SwitchLed, ButtonStep, boardVars, bodyVars, sensorVars
  <2> QED
    BY <1>7, <2>1, <2>2, <2>3 DEF ButtonStep
<1>8. CASE AssetStep
  <2>1. CASE PostAssets \/ RemoteAssets
    BY <1>1, <2>1, UplinkEmptied DEF PostAssets, RemoteAssets, Begin, sensorVars
  <2>2. CASE NoRemoteAssets
    BY <1>2, <2>2 DEF NoRemoteAssets, linkVars, bodyVars, sensorVars
  <2>3. ASSUME NEW a \in Uploaders, Advance(a) \/ UploadEnds(a) PROVE AirInv'
    <3>1. CASE Advance(a)
      BY <1>2, <3>1 DEF Advance, Proceed, boardVars, bodyVars, sensorVars
    <3>2. CASE UploadEnds(a)
      <4>1. UNCHANGED air
        BY <3>2 DEF UploadEnds, sensorVars
      <4>2. HonestUplink'
        BY <3>2, EndIsReturn, UplinkTaken DEF AirInv, HonestUplink
      <4> QED
        BY <1>1, <4>1, <4>2
    <3> QED
      BY <2>3, <3>1, <3>2
  <2>4. CASE GdWrites
    <3>1. PICK good \in BOOLEAN : Sent([kind |-> "ack", cmd |-> Head(cmds).cmd, ok |-> good])
      BY <2>4 DEF GdWrites, GdFlash
    <3>2. Honest([kind |-> "ack", cmd |-> Head(cmds).cmd, ok |-> good])
      BY DEF Honest
    <3> QED
      BY <1>1, <2>4, <3>1, <3>2, UplinkSent DEF GdWrites, bodyVars, sensorVars, AirInv
  <2>5. CASE Lose /\ UNCHANGED << webVars, sensorVars >>
    BY <1>1, <1>2, <2>5, UplinkTaken DEF Lose, sensorVars, AirInv
  <2> QED
    BY <1>8, <2>1, <2>2, <2>3, <2>4, <2>5 DEF AssetStep
<1>9. CASE BodyStep
  <2>1. CASE FetchSht
    <3>1. PICK good \in BOOLEAN :
            air' = [air EXCEPT !.pending = FALSE, !.err = ~good, !.temp = IF good THEN "last" ELSE @]
      BY <2>1 DEF FetchSht
    <3>2. air' \in Air /\ (~air'.err /\ ~air'.pending => air'.temp = "last")
      BY <3>1 DEF AirInv, Air
    <3> QED
      BY <2>1, <3>2 DEF FetchSht, boardVars, AirInv, HonestUplink
  <2>2. CASE Plug \/ Notice \/ DrawCharge \/ Darken \/ Tap
    BY <1>2, <2>2 DEF Plug, Notice, DrawCharge, Darken, Tap, linkVars, boardVars
  <2>3. CASE ScreenStep /\ UNCHANGED sensorVars
    BY <1>2, <2>3 DEF ScreenStep, LocalScreen, Update, Change, Refresh, DrawEnds,
                      linkVars, boardVars, sensorVars
  <2> QED
    BY <1>9, <2>1, <2>2, <2>3 DEF BodyStep, SensorStep
<1>10. CASE Telemetry
  <2>1. HonestUplink'
    BY <1>10, CycleKeepsAir, UplinkSent DEF Telemetry, AirInv
  <2> QED
    BY <1>10, <2>1, CycleKeepsAir DEF Telemetry, AirInv
<1>11. CASE GdStarts
  <2>1. Honest([kind |-> "hello"])
    BY DEF Honest
  <2>2. HonestUplink'
    BY <1>11, <2>1, UplinkSent DEF GdStarts, AirInv
  <2>3. air' = AirStart
    BY <1>11 DEF GdStarts, SensorsBoot
  <2> QED
    BY <2>2, <2>3 DEF AirInv, Air, AirStart
<1>12. CASE Dispatch
  BY <1>1, <1>12, UplinkTaken DEF Dispatch, bodyVars, sensorVars, AirInv
<1>13. CASE Restart
  <2>1. CASE Reboot \/ EspStarts
    BY <1>1, <2>1, UplinkEmptied DEF Reboot, EspStarts, EspBoots, sensorVars
  <2>2. CASE FlashEsp
    BY <1>1, <1>2, <2>2, UplinkEmptied DEF FlashEsp, EspBoots, linkVars, bodyVars, sensorVars
  <2>3. CASE EnterStandby \/ PowerCut
    BY <1>1, <2>3, UplinkEmptied DEF EnterStandby, PowerCut, EspOff, SensorsSleep, sensorVars
  <2>4. CASE Wake \/ GdRestart
    BY <1>2, <2>4 DEF Wake, GdRestart, bodyVars, sensorVars
  <2> QED
    BY <1>13, <2>1, <2>2, <2>3, <2>4 DEF Restart
<1> QED
  BY <1>3, <1>4, <1>5, <1>6, <1>7, <1>8, <1>9, <1>10, <1>11, <1>12, <1>13 DEF DeviceNext

\* Whatever sensors fail and whichever chip restarts: of the reports on their way, every
\* temperature and humidity the ESP32 will publish was measured in the last half minute's
\* cycle, and every CO2 value was measured, but in any cycle since the GD32's start. A CO2
\* sensor that stops answering leaves its last value reported, with no flag (main.c).
THEOREM ReadingsOnly == DeviceSpec => []OnlyReadings
<1>1. AirInv => OnlyReadings
  <2> SUFFICES ASSUME AirInv, NEW i \in DOMAIN uplink, uplink[i].kind = "telemetry"
               PROVE  PublishedOf(uplink[i]) \subseteq {"last", "measured"}
    BY DEF OnlyReadings
  <2>1. PICK S : uplink \in Seq(S) /\ \A p \in S : Honest(p)
    BY DEF AirInv, HonestUplink
  <2>2. uplink[i] \in S
    BY <2>1, LenProperties, ElementOfSeq
  <2> QED
    BY <2>1, <2>2 DEF Honest
<1> QED
  BY <1>1, AirStarts, AirStep, PTL DEF DeviceSpec

-----------------------------------------------------------------------------
(***************************************************************************)
(* More of what the device promises, for all towns, regions, networks,     *)
(* pages and budgets.  What was asked for through a page is what there is  *)
(* once nothing is on its way: the argument follows the deferred calls, of *)
(* which the last that names a setting has the value the requests leave it *)
(* with.  Every part stays in one of its states: that takes the packets    *)
(* and the flash commands on their way, and the pages an upload may write. *)
(* And an upload that answers ok has written its assets: the argument      *)
(* follows its one command and the one answer to it.                       *)
(***************************************************************************)

-----------------------------------------------------------------------------
(* The deferred calls as a sequence. *)

LEMMA BehindFirst ==
  ASSUME NEW S, NEW q \in Seq(S), q # << >>
  PROVE  /\ Len(q) \in Nat \ {0} /\ q[1] \in S /\ Head(q) = q[1]
         /\ Tail(q) \in Seq(S) /\ Len(Tail(q)) = Len(q) - 1
         /\ \A i \in 1 .. Len(q) - 1 : Tail(q)[i] = q[i + 1]
BY HeadTailProperties, EmptySeq, ElementOfSeq

LEMMA FirstReplaced ==
  ASSUME NEW S, NEW q \in Seq(S), q # << >>, NEW x \in S
  PROVE  /\ << x >> \o Tail(q) \in Seq(S) /\ Len(<< x >> \o Tail(q)) = Len(q)
         /\ (<< x >> \o Tail(q))[1] = x
         /\ \A i \in 2 .. Len(q) : (<< x >> \o Tail(q))[i] = q[i]
<1> DEFINE o == << x >>
           t == Tail(q)
           n == Len(q)
<1>1. o \in Seq(S) /\ Len(o) = 1 /\ o[1] = x
  OBVIOUS
<1>2. /\ n \in Nat \ {0} /\ t \in Seq(S) /\ Len(t) = n - 1
      /\ \A i \in 1 .. n - 1 : t[i] = q[i + 1]
  BY BehindFirst
<1> HIDE DEF o, t, n
<1> DEFINE a == Len(o)
           b == Len(t)
<1>3. /\ o \o t \in Seq(S) /\ Len(o \o t) = a + b
      /\ \A i \in 1 .. a + b : (o \o t)[i] = IF i <= a THEN o[i] ELSE t[i - a]
  <2>1. o \in Seq(S) /\ t \in Seq(S)
    BY <1>1, <1>2
  <2> QED
    BY <2>1, ConcatProperties
<1>4. a = 1 /\ b = n - 1
  BY <1>1, <1>2
<1> HIDE DEF a, b
<1>5. /\ Len(o \o t) = n
      /\ \A i \in 1 .. n : (o \o t)[i] = IF i <= 1 THEN o[i] ELSE t[i - 1]
  BY <1>2, <1>3, <1>4
<1>6. (o \o t)[1] = x
  BY <1>1, <1>2, <1>5
<1>7. ASSUME NEW i \in 2 .. n PROVE (o \o t)[i] = q[i]
  <2>1. i \in 1 .. n /\ ~(i <= 1) /\ i - 1 \in 1 .. n - 1 /\ (i - 1) + 1 = i
    BY <1>2
  <2>2. (o \o t)[i] = t[i - 1] /\ t[i - 1] = q[(i - 1) + 1]
    BY <1>2, <1>5, <2>1
  <2> QED
    BY <2>1, <2>2
<1> QED
  BY <1>3, <1>5, <1>6, <1>7 DEF o, t, n

LEMMA OneMore ==
  ASSUME NEW S, NEW q \in Seq(S), NEW x \in S
  PROVE  /\ Append(q, x) \in Seq(S) /\ Len(q) \in Nat /\ Len(Append(q, x)) = Len(q) + 1
         /\ Append(q, x)[Len(q) + 1] = x
         /\ \A i \in 1 .. Len(q) : Append(q, x)[i] = q[i]
BY AppendProperties, LenProperties

-----------------------------------------------------------------------------
(* The settings. *)

\* Call j sets setting f, and what to.
Sets(j, f) == j.do = "apply" /\ IF f = "alarm" THEN j.patch.alarm # Keep ELSE GeoChanged(j.patch)
To(j, f) == IF f = "alarm" THEN j.patch.alarm ELSE j.geo[f]

\* With the calls q before it, value v of setting f comes to be w: any other value it has,
\* or is set to, is followed by a call that names it.
Comes(q, v, w, f) ==
  /\ v = w \/ \E i \in 1 .. Len(q) : Names(q[i], f)
  /\ \A i \in 1 .. Len(q) :
       Sets(q[i], f) => To(q[i], f) = w \/ \E k \in i + 1 .. Len(q) : Names(q[k], f)

SettingsInv ==
  /\ kept = << >> => geo = Default
  /\ \A f \in Settings \ undone : Comes(jobs, Shown[f], want[f], f)

LEMMA NothingComes == ASSUME NEW v, NEW f PROVE Comes(<< >>, v, v, f)
BY DEF Comes

LEMMA NamesSets == ASSUME NEW j, NEW f \in Settings, Names(j, f) PROVE Sets(j, f)
BY DEF Names, Sets, Settings, GeoChanged

\* A call that names the setting, with the value it shall have.
LEMMA ComesNamed ==
  ASSUME NEW q \in Seq(Deferred), NEW j \in Deferred, NEW v, NEW w, NEW f,
         Names(j, f), To(j, f) = w
  PROVE  Comes(Append(q, j), v, w, f)
<1> DEFINE r == Append(q, j)
           n == Len(q)
<1>1. n \in Nat /\ Len(r) = n + 1 /\ r[n + 1] = j
  BY OneMore
<1> HIDE DEF r, n
<1>2. n + 1 \in 1 .. Len(r) /\ \A i \in 1 .. Len(r) : i = n + 1 \/ n + 1 \in i + 1 .. Len(r)
  BY <1>1
<1>3. Comes(r, v, w, f)
  BY <1>1, <1>2 DEF Comes
<1> QED
  BY <1>3 DEF r

\* Another call, that leaves the setting alone or sets it to no other value.
LEMMA ComesAppended ==
  ASSUME NEW q \in Seq(Deferred), NEW j \in Deferred, NEW v, NEW w, NEW f, Comes(q, v, w, f),
         Sets(j, f) => To(j, f) = w
  PROVE  Comes(Append(q, j), v, w, f)
<1> DEFINE r == Append(q, j)
           n == Len(q)
<1>1. n \in Nat /\ Len(r) = n + 1 /\ r[n + 1] = j /\ \A i \in 1 .. n : r[i] = q[i]
  BY OneMore
<1>2. /\ v = w \/ \E i \in 1 .. n : Names(q[i], f)
      /\ \A i \in 1 .. n : Sets(q[i], f) => To(q[i], f) = w \/ \E k \in i + 1 .. n : Names(q[k], f)
  BY DEF Comes
<1> HIDE DEF r, n
<1>3. \A i \in 1 .. n : i \in 1 .. Len(r)
  BY <1>1
<1>4. v = w \/ \E i \in 1 .. Len(r) : Names(r[i], f)
  BY <1>1, <1>2, <1>3
<1>5. ASSUME NEW i \in 1 .. Len(r), Sets(r[i], f)
      PROVE  To(r[i], f) = w \/ \E k \in i + 1 .. Len(r) : Names(r[k], f)
  <2>1. CASE i = n + 1
    BY <1>1, <1>5, <2>1
  <2>2. CASE i \in 1 .. n
    <3>1. \A k \in i + 1 .. n : k \in i + 1 .. Len(r) /\ r[k] = q[k]
      BY <1>1, <2>2
    <3> QED
      BY <1>1, <1>2, <1>5, <2>2, <3>1
  <2> QED
    BY <1>1, <2>1, <2>2
<1>6. Comes(r, v, w, f)
  BY <1>4, <1>5 DEF Comes
<1> QED
  BY <1>6 DEF r

\* The first call carried out.
LEMMA ComesTaken ==
  ASSUME NEW q \in Seq(Deferred), q # << >>, NEW v, NEW w, NEW u, NEW f \in Settings,
         Comes(q, v, w, f), u = IF Sets(q[1], f) THEN To(q[1], f) ELSE v
  PROVE  Comes(Tail(q), u, w, f)
<1> DEFINE r == Tail(q)
           n == Len(q)
<1>1. n \in Nat \ {0} /\ Len(r) = n - 1 /\ \A i \in 1 .. n - 1 : r[i] = q[i + 1]
  BY BehindFirst
<1>2. /\ v = w \/ \E i \in 1 .. n : Names(q[i], f)
      /\ \A i \in 1 .. n : Sets(q[i], f) => To(q[i], f) = w \/ \E k \in i + 1 .. n : Names(q[k], f)
  BY DEF Comes
<1> HIDE DEF r, n
<1>3. \A k \in 2 .. n : k - 1 \in 1 .. Len(r) /\ r[k - 1] = q[k]
  <2> TAKE k \in 2 .. n
  <2>1. k - 1 \in 1 .. n - 1 /\ (k - 1) + 1 = k
    BY <1>1
  <2> QED
    BY <1>1, <2>1
<1>4. u = w \/ \E i \in 1 .. Len(r) : Names(r[i], f)
  <2>1. CASE \E k \in 2 .. n : Names(q[k], f)
    BY <1>3, <2>1
  <2>2. CASE ~\E k \in 2 .. n : Names(q[k], f)
    <3>1. 1 \in 1 .. n /\ 1 + 1 = 2 /\ \A i \in 1 .. n : i = 1 \/ i \in 2 .. n
      BY <1>1
    <3>2. CASE Sets(q[1], f)
      BY <1>2, <2>2, <3>1, <3>2
    <3>3. CASE ~Sets(q[1], f)
      BY <1>2, <2>2, <3>1, <3>3, NamesSets
    <3> QED
      BY <3>2, <3>3
  <2> QED
    BY <2>1, <2>2
<1>5. ASSUME NEW i \in 1 .. Len(r), Sets(r[i], f)
      PROVE  To(r[i], f) = w \/ \E k \in i + 1 .. Len(r) : Names(r[k], f)
  <2>1. i + 1 \in 1 .. n /\ r[i] = q[i + 1]
    BY <1>1
  <2>2. ASSUME NEW k \in (i + 1) + 1 .. n, Names(q[k], f)
        PROVE  \E m \in i + 1 .. Len(r) : Names(r[m], f)
    <3>1. k \in 2 .. n /\ k - 1 \in i + 1 .. Len(r)
      BY <1>1, <2>2
    <3> QED
      BY <1>3, <2>2, <3>1
  <2> QED
    BY <1>2, <1>5, <2>1, <2>2
<1>6. Comes(r, u, w, f)
  BY <1>4, <1>5 DEF Comes
<1> QED
  BY <1>6 DEF r

\* The first call replaced by another that, like it, sets nothing.
LEMMA ComesReplaced ==
  ASSUME NEW q \in Seq(Deferred), q # << >>, NEW x \in Deferred, q[1].do # "apply", x.do # "apply",
         NEW v, NEW w, NEW f, Comes(q, v, w, f)
  PROVE  Comes(<< x >> \o Tail(q), v, w, f)
<1> DEFINE r == << x >> \o Tail(q)
           n == Len(q)
<1>1. n \in Nat \ {0} /\ Len(r) = n /\ r[1] = x /\ \A i \in 2 .. n : r[i] = q[i]
  BY FirstReplaced, BehindFirst
<1>2. /\ v = w \/ \E i \in 1 .. n : Names(q[i], f)
      /\ \A i \in 1 .. n : Sets(q[i], f) => To(q[i], f) = w \/ \E k \in i + 1 .. n : Names(q[k], f)
  BY DEF Comes
<1> HIDE DEF r, n
<1>3. \A i \in 1 .. n : i = 1 \/ (i \in 2 .. n /\ r[i] = q[i])
  BY <1>1
<1>4. \A i \in 1 .. n : /\ Names(r[i], f) <=> Names(q[i], f)
                        /\ Sets(r[i], f) => r[i] = q[i]
  BY <1>1, <1>3 DEF Names, Sets
<1>5. \A i \in 1 .. n : \A k \in i + 1 .. n : k \in 1 .. n
  OBVIOUS
<1>6. Comes(r, v, w, f)
  BY <1>1, <1>2, <1>4, <1>5 DEF Comes
<1> QED
  BY <1>6 DEF r

LEMMA JobsDomain ==
  ASSUME GeoInv
  PROVE  /\ jobs \in Seq(Deferred) /\ Len(jobs) \in Nat /\ DOMAIN jobs = 1 .. Len(jobs)
         /\ \A i \in 1 .. Len(jobs) : jobs[i] \in Deferred
BY LenProperties, ElementOfSeq DEF GeoInv

LEMMA ShownFields ==
  /\ Shown["region"] = geo.region /\ Shown["town"] = geo.town /\ Shown["alarm"] = alarm
  /\ Shown["region"]' = geo'.region /\ Shown["town"]' = geo'.town /\ Shown["alarm"]' = alarm'
BY DEF Shown

LEMMA SettingsStart == DeviceInit => SettingsInv
<1> SUFFICES ASSUME DeviceInit PROVE SettingsInv
  OBVIOUS
<1>1. geo = Default /\ jobs = << >> /\ want = Shown
  BY DEF DeviceInit, WebInit
<1> QED
  BY <1>1, NothingComes DEF SettingsInv

LEMMA SettingsUntouched ==
  ASSUME SettingsInv, UNCHANGED << jobs, geo, kept, alarm, want, undone >>
  PROVE  SettingsInv'
<1>1. Shown' = Shown
  BY DEF Shown
<1>2. (kept = << >> => geo = Default)'
  BY DEF SettingsInv, Default
<1>3. ASSUME NEW f \in Settings \ undone' PROVE Comes(jobs, Shown[f], want[f], f)'
  BY <1>1, <1>3 DEF SettingsInv, Comes
<1> QED
  BY <1>2, <1>3 DEF SettingsInv

\* What a restart does not take back is there after it.
LEMMA SettingsBoot ==
  ASSUME GeoInv, SettingsInv, NEW newImage, WebBoots(newImage)
  PROVE  SettingsInv'
<1>1. /\ jobs' = << >> /\ geo' = Loaded /\ alarm' = alarmNvs /\ undone' = undone \cup Lost
      /\ UNCHANGED << kept, want >>
  BY DEF WebBoots
<1>2. ASSUME NEW f \in Settings \ undone' PROVE Shown[f]' = want[f]
  <2>1. f \in Settings \ undone /\ f \notin OnItsWay
    BY <1>1, <1>2 DEF Lost
  <2>2. Shown[f] = want[f]
    <3>1. ~\E i \in 1 .. Len(jobs) : Names(jobs[i], f)
      BY <2>1, JobsDomain DEF OnItsWay
    <3>2. Comes(jobs, Shown[f], want[f], f)
      BY <2>1 DEF SettingsInv
    <3> QED
      BY <3>1, <3>2 DEF Comes
  <2>3. CASE f = "alarm"
    <3>1. alarm = alarmNvs
      BY <1>1, <1>2, <2>3 DEF Lost
    <3> QED
      BY <1>1, <2>2, <2>3, <3>1, ShownFields
  <2>4. CASE f = "town"
    <3>1. Loaded.town = geo.town
      <4>1. CASE kept = << >>
        BY <4>1 DEF SettingsInv, Loaded
      <4>2. CASE kept # << >>
        BY <4>2, LoadedFacts DEF GeoInv, Same
      <4> QED
        BY <4>1, <4>2
    <3> QED
      BY <1>1, <2>2, <2>4, <3>1, ShownFields
  <2>5. CASE f = "region"
    <3>1. Loaded.region = geo.region
      <4>1. CASE kept = << >>
        BY <4>1 DEF SettingsInv, Loaded
      <4>2. CASE kept # << >>
        <5>1. kept[1].region \in Nat /\ ~(kept[1].region < 27)
          BY <1>1, <1>2, <2>5, <4>2 DEF Lost, GeoInv, Geo
        <5>2. kept[1].region >= 27
          BY <5>1
        <5> QED
          BY <4>2, <5>2, LoadedFacts DEF GeoInv, Same
      <4> QED
        BY <4>1, <4>2
    <3> QED
      BY <1>1, <2>2, <2>5, <3>1, ShownFields
  <2> QED
    BY <2>1, <2>3, <2>4, <2>5 DEF Settings
<1>3. ASSUME NEW f \in Settings \ undone' PROVE Comes(jobs, Shown[f], want[f], f)'
  <2>1. Shown[f]' = want[f]' /\ jobs' = << >>
    BY <1>1, <1>2, <1>3
  <2> QED
    BY <2>1 DEF Comes
<1>4. (kept = << >> => geo = Default)'
  BY <1>1 DEF Loaded, Default
<1> QED
  BY <1>3, <1>4 DEF SettingsInv

\* A deferred call that is none of the settings.
LEMMA SettingsDeferred ==
  ASSUME GeoInv, SettingsInv, NEW j \in Deferred, j.do # "apply", jobs' = Append(jobs, j),
         UNCHANGED << geo, kept, alarm, want, undone >>
  PROVE  SettingsInv'
<1>1. Shown' = Shown /\ jobs \in Seq(Deferred)
  BY JobsDomain DEF Shown
<1>2. ASSUME NEW f \in Settings \ undone PROVE Comes(jobs', Shown[f], want[f], f)
  <2>1. Comes(jobs, Shown[f], want[f], f) /\ ~Sets(j, f)
    BY <1>2 DEF SettingsInv, Sets
  <2> QED
    BY <1>1, <2>1, ComesAppended
<1>3. ASSUME NEW f \in Settings \ undone' PROVE Comes(jobs, Shown[f], want[f], f)'
  <2>1. Comes(jobs', Shown[f], want[f], f) /\ Shown[f]' = Shown[f] /\ want' = want
    BY <1>1, <1>2, <1>3
  <2> QED
    BY <2>1 DEF Comes
<1> QED
  BY <1>3 DEF SettingsInv, Default

LEMMA SettingsPosted ==
  ASSUME GeoInv, SettingsInv, NEW p \in Patches, PostSettings(p)
  PROVE  SettingsInv'
<1> DEFINE j == [do |-> "apply", geo |-> Patched(geo, p), patch |-> p]
<1>1. /\ jobs' = Append(jobs, j) /\ UNCHANGED << geo, kept, alarm >>
      /\ undone' = (undone \cup Undoing(p)) \ Named(p)
      /\ want' = [region |-> Or(p.region, want.region), town |-> Or(p.town, want.town),
                  alarm |-> Or(p.alarm, want.alarm)]
  BY DEF PostSettings, switchVars
<1>2. Patched(geo, p) \in Geo
  <2>1. geo.region \in Nat /\ geo.town \in Towns
    BY DEF GeoInv, Geo
  <2>2. p.region \in Regions \cup {Keep} /\ p.town \in Towns \cup {Keep}
    BY DEF Patches
  <2>3. Or(p.region, geo.region) \in Nat /\ Or(p.town, geo.town) \in Towns
    BY <2>1, <2>2 DEF Or
  <2> QED
    BY <2>3 DEF Patched, Geo
<1>3. j \in Deferred /\ j.do = "apply" /\ j.patch = p /\ j.geo = Patched(geo, p)
  BY <1>2 DEF Deferred
<1>4. \A f \in Settings : want'[f] = Or(p[f], want[f])
  BY <1>1 DEF Settings
<1>5. \A f \in {"region", "town"} : j.geo[f] = Or(p[f], Shown[f])
  BY <1>3 DEF Patched, Shown
<1>6. jobs \in Seq(Deferred) /\ Shown' = Shown
  BY <1>1, JobsDomain DEF Shown
<1> HIDE DEF j
<1>7. ASSUME NEW f \in Settings \ undone' PROVE Comes(jobs', Shown[f], want'[f], f)
  <2>1. CASE p[f] # Keep
    <3>1. Names(j, f) /\ want'[f] = p[f]
      BY <1>3, <1>4, <2>1 DEF Names, Or
    <3>2. To(j, f) = p[f]
      <4>1. CASE f = "alarm"
        BY <1>3, <4>1 DEF To
      <4>2. CASE f \in {"region", "town"}
        BY <1>5, <2>1, <4>2 DEF To, Or
      <4> QED
        BY <4>1, <4>2 DEF Settings
    <3> QED
      BY <1>1, <1>3, <1>6, <3>1, <3>2, ComesNamed
  <2>2. CASE p[f] = Keep
    <3>1. f \in Settings \ undone /\ f \notin Undoing(p) /\ f \notin Named(p)
      BY <1>1, <1>7, <2>2 DEF Named
    <3>2. Comes(jobs, Shown[f], want[f], f) /\ want'[f] = want[f]
      BY <1>4, <2>2, <3>1 DEF SettingsInv, Or
    <3>3. Sets(j, f) => To(j, f) = want[f]
      <4>1. CASE f = "alarm"
        BY <1>3, <2>2, <4>1 DEF Sets
      <4>2. CASE f # "alarm" /\ ~GeoChanged(p)
        BY <1>3, <4>2 DEF Sets
      <4>3. CASE f # "alarm" /\ GeoChanged(p)
        <5>1. f \notin OnItsWay
          BY <3>1, <4>3 DEF Undoing
        <5>2. ~\E i \in 1 .. Len(jobs) : Names(jobs[i], f)
          BY <3>1, <5>1, JobsDomain DEF OnItsWay
        <5>3. Shown[f] = want[f]
          BY <3>2, <5>2 DEF Comes
        <5>4. f \in {"region", "town"}
          BY <4>3 DEF Settings
        <5> QED
          BY <1>5, <2>2, <4>3, <5>3, <5>4 DEF To, Or
      <4> QED
        BY <4>1, <4>2, <4>3
    <3> QED
      BY <1>1, <1>3, <1>6, <3>2, <3>3, ComesAppended
  <2> QED
    BY <2>1, <2>2
<1>8. ASSUME NEW f \in Settings \ undone' PROVE Comes(jobs, Shown[f], want[f], f)'
  <2>1. Comes(jobs', Shown[f], want'[f], f) /\ Shown[f]' = Shown[f]
    BY <1>6, <1>7, <1>8
  <2> QED
    BY <2>1 DEF Comes
<1> QED
  BY <1>1, <1>8 DEF SettingsInv, Default

LEMMA SettingsRun ==
  ASSUME GeoInv, SettingsInv, RunJob
  PROVE  SettingsInv'
<1> DEFINE j == Head(jobs)
<1>1. /\ jobs \in Seq(Deferred) /\ jobs # << >> /\ j = jobs[1] /\ j \in Deferred
      /\ UNCHANGED << want, undone >>
  BY JobsDomain, BehindFirst DEF RunJob
<1>2. CASE j.do = "apply" /\ Apply(j) /\ jobs' = Tail(jobs)
  <2>1. alarm' = IF Sets(jobs[1], "alarm") THEN jobs[1].patch.alarm ELSE alarm
    BY <1>1, <1>2 DEF Apply, Or, Sets
  <2>2. geo' = IF GeoChanged(jobs[1].patch) THEN jobs[1].geo ELSE geo
    BY <1>1, <1>2 DEF Apply
  <2>3. ASSUME NEW f \in Settings
        PROVE  Shown[f]' = IF Sets(jobs[1], f) THEN To(jobs[1], f) ELSE Shown[f]
    <3>1. CASE f = "alarm"
      BY <2>1, <3>1, ShownFields DEF To
    <3>2. CASE f \in {"region", "town"}
      <4>1. Shown[f]' = geo'[f] /\ Shown[f] = geo[f]
        BY <3>2, ShownFields
      <4>2. Sets(jobs[1], f) <=> GeoChanged(jobs[1].patch)
        BY <1>1, <1>2, <3>2 DEF Sets
      <4> QED
        BY <2>2, <3>2, <4>1, <4>2 DEF To
    <3> QED
      BY <3>1, <3>2 DEF Settings
  <2>4. ASSUME NEW f \in Settings \ undone' PROVE Comes(jobs, Shown[f], want[f], f)'
    <3>1. Comes(jobs, Shown[f], want[f], f)
      BY <1>1, <2>4 DEF SettingsInv
    <3>2. Comes(Tail(jobs), Shown[f]', want[f], f)
      BY <1>1, <2>3, <2>4, <3>1, ComesTaken
    <3>3. want[f]' = want[f]
      BY <1>1
    <3> QED
      BY <1>2, <3>2, <3>3 DEF Comes
  <2>5. (kept = << >> => geo = Default)'
    <3>1. CASE GeoChanged(j.patch)
      BY <1>2, <3>1 DEF Apply, SaveGeo
    <3>2. CASE ~GeoChanged(j.patch)
      BY <1>2, <3>2 DEF Apply, SettingsInv, Default
    <3> QED
      BY <3>1, <3>2
  <2> QED
    BY <2>4, <2>5 DEF SettingsInv
<1>3. ASSUME NEW x \in Deferred, x.do # "apply", j.do # "apply", jobs' = << x >> \o Tail(jobs),
             UNCHANGED << geo, kept, alarm >>
      PROVE  SettingsInv'
  <2>1. Shown' = Shown
    BY <1>3 DEF Shown
  <2>2. ASSUME NEW f \in Settings \ undone PROVE Comes(jobs', Shown[f], want[f], f)
    <3>1. Comes(jobs, Shown[f], want[f], f)
      BY <2>2 DEF SettingsInv
    <3> QED
      BY <1>1, <1>3, <3>1, ComesReplaced
  <2>3. ASSUME NEW f \in Settings \ undone' PROVE Comes(jobs, Shown[f], want[f], f)'
    <3>1. Comes(jobs', Shown[f], want[f], f) /\ Shown[f]' = Shown[f] /\ want[f]' = want[f]
      BY <1>1, <2>1, <2>2, <2>3
    <3> QED
      BY <3>1 DEF Comes
  <2> QED
    BY <1>3, <2>3 DEF SettingsInv, Default
<1>4. CASE j.do = "wifi" /\ jobs' = << [j EXCEPT !.do = "wifi2"] >> \o Tail(jobs)
           /\ UNCHANGED << geo, kept, alarm >>
  <2>1. j \in [do : {"wifi", "wifi2"}, net : Nets]
    BY <1>1, <1>4 DEF Deferred
  <2>2. [j EXCEPT !.do = "wifi2"] \in Deferred /\ [j EXCEPT !.do = "wifi2"].do # "apply"
    BY <2>1 DEF Deferred
  <2> QED
    BY <1>3, <1>4, <2>2
<1>5. CASE j.do = "wifi2" /\ jobs' = << [do |-> "restart"] >> \o Tail(jobs)
           /\ UNCHANGED << geo, kept, alarm >>
  <2>1. [do |-> "restart"] \in Deferred
    BY DEF Deferred
  <2> QED
    BY <1>3, <1>5, <2>1
<1> QED
  BY <1>2, <1>4, <1>5 DEF RunJob

LEMMA SettingsStep == GeoInv /\ SettingsInv /\ [DeviceNext]_vars => SettingsInv'
<1> SUFFICES ASSUME GeoInv, SettingsInv, [DeviceNext]_vars PROVE SettingsInv'
  OBVIOUS
<1>1. CASE UNCHANGED vars
  BY <1>1, SettingsUntouched DEF vars, webVars
<1>2. CASE WebRequest
  <2>1. ASSUME NEW net \in Nets, PostWifi(net) PROVE SettingsInv'
    <3>1. [do |-> "wifi", net |-> net] \in Deferred
      BY <2>1 DEF Deferred
    <3> QED
      BY <2>1, <3>1, SettingsDeferred DEF PostWifi, switchVars
  <2>2. ASSUME NEW net \in Nets, PortalSave(net) PROVE SettingsInv'
    BY <2>2, SettingsUntouched DEF PortalSave, switchVars
  <2>3. CASE PostReboot
    <3>1. [do |-> "reboot"] \in Deferred
      BY DEF Deferred
    <3> QED
      BY <2>3, <3>1, SettingsDeferred DEF PostReboot, switchVars
  <2>4. CASE PostUpdate
    <3>1. [do |-> "update"] \in Deferred
      BY DEF Deferred
    <3> QED
      BY <2>4, <3>1, SettingsDeferred DEF PostUpdate, switchVars
  <2> QED
    BY <1>2, <2>1, <2>2, <2>3, <2>4, SettingsPosted DEF WebRequest
<1>3. CASE WebStep
  <2>1. CASE StartUpdate
    <3>1. /\ jobs # << >> /\ Head(jobs).do = "update" /\ jobs' = Tail(jobs)
          /\ UNCHANGED << geo, kept, alarm, want, undone >>
      BY <2>1 DEF StartUpdate
    <3>2. jobs \in Seq(Deferred) /\ (\A f \in Settings : ~Sets(jobs[1], f)) /\ Shown' = Shown
      BY <3>1, JobsDomain, BehindFirst DEF Sets, Shown
    <3>3. ASSUME NEW f \in Settings \ undone PROVE Comes(jobs', Shown[f], want[f], f)
      <4>1. Comes(jobs, Shown[f], want[f], f)
        BY <3>3 DEF SettingsInv
      <4> QED
        BY <3>1, <3>2, <4>1, ComesTaken
    <3>4. ASSUME NEW f \in Settings \ undone' PROVE Comes(jobs, Shown[f], want[f], f)'
      <4>1. Comes(jobs', Shown[f], want[f], f) /\ Shown[f]' = Shown[f] /\ want[f]' = want[f]
        BY <3>1, <3>2, <3>3, <3>4
      <4> QED
        BY <4>1 DEF Comes
    <3> QED
      BY <3>1, <3>4 DEF SettingsInv, Default
  <2>2. CASE PortalRuns \/ KeepGlobals \/ Connect
    BY <2>2, SettingsUntouched DEF PortalRuns, KeepGlobals, Connect
  <2> QED
    BY <1>3, <2>1, <2>2, SettingsRun DEF WebStep
<1>4. CASE Timer \/ Answer \/ ButtonStep \/ AssetStep \/ BodyStep \/ Telemetry \/ GdStarts \/ Dispatch
  BY <1>4, SettingsUntouched
     DEF Timer, Answer, ButtonStep, AssetStep, BodyStep, Telemetry, GdStarts, Dispatch,
         PostAssets, RemoteAssets, NoRemoteAssets, GdWrites, Advance, UploadEnds, webVars
<1>5. CASE Restart
  <2>1. CASE Reboot \/ EspStarts
    BY <2>1, SettingsBoot DEF Reboot, EspStarts, EspBoots
  <2>2. CASE FlashEsp
    BY <2>2, SettingsBoot, SettingsUntouched DEF FlashEsp, EspBoots, webVars
  <2>3. CASE EnterStandby \/ Wake \/ GdRestart \/ PowerCut
    BY <2>3, SettingsUntouched DEF EnterStandby, Wake, GdRestart, PowerCut, EspOff, webVars
  <2> QED
    BY <1>5, <2>1, <2>2, <2>3 DEF Restart
<1> QED
  BY <1>1, <1>2, <1>3, <1>4, <1>5 DEF DeviceNext

-----------------------------------------------------------------------------
(* The network. *)

AsksNet(j) == j.do \in {"wifi", "wifi2"}

\* In the calls q, the last that asks for a network asks for net.
LastAsks(q, net) ==
  \A i \in 1 .. Len(q) :
    AsksNet(q[i]) /\ (\A k \in i + 1 .. Len(q) : ~AsksNet(q[k])) => q[i].net = net

NoneAsks(q) == \A i \in 1 .. Len(q) : ~AsksNet(q[i])

\* A call that is being carried out is the first, and holds the loop; so does the
\* portal's second write.
Underway(q) == q # << >> /\ q[1].do \in {"wifi2", "restart"}
Storing == portal # << >> /\ portal[2] = "sta"
Halfway == (jobs # << >> /\ jobs[1].do = "wifi2") \/ Storing

JobsOrdered ==
  /\ \A i \in 2 .. Len(jobs) : jobs[i].do \notin {"wifi2", "restart"}
  /\ Underway(jobs) => esp \in {"job", "off"} /\ ~Storing
  /\ Storing => esp \in {"job", "off"}

WifiOK ==
  /\ portal = << >> \/ (portal \in Nets \X {"perm", "sta"} /\ portal # << >>)
  /\ wifi \in [sta : Nets \cup {ConfigNet}, online : BOOLEAN,
               saved : Nets \cup {NoNet}, perm : Nets \cup {NoNet}]
  /\ asked \in Nets \cup {ConfigNet}

\* Outside of a half-done change, a restart finds the station there is; and a network
\* that works is the permanent one, which a new image finds.
Kept ==
  /\ Halfway \/ wifi.sta = Station(wifi.saved)
  /\ wifi.online /\ esp \notin {"job", "off"} => wifi.perm = wifi.sta /\ wifi.sta \in Nets

\* Whatever asks last is the network last asked for, unless a restart comes before it.
NetComes ==
  /\ portal = << >> \/ Storing => LastAsks(jobs, asked)
  /\ NoneAsks(jobs) /\ portal = << >> => wifi.sta = asked
  /\ NoneAsks(jobs) /\ portal # << >> /\ ~Underway(jobs) => portal[1] = asked

NetInv == JobsOrdered /\ WifiOK /\ Kept /\ NetComes

LEMMA AskedFirst ==
  ASSUME NEW q \in Seq(Deferred), q # << >>, NoneAsks(Tail(q)), NEW net, LastAsks(q, net), AsksNet(q[1])
  PROVE  q[1].net = net
<1>1. 1 \in 1 .. Len(q) /\ \A k \in 2 .. Len(q) : k - 1 \in 1 .. Len(q) - 1 /\ (k - 1) + 1 = k
  BY BehindFirst
<1>2. \A k \in 2 .. Len(q) : Tail(q)[k - 1] = q[k] /\ k - 1 \in 1 .. Len(Tail(q))
  BY <1>1, BehindFirst
<1>3. \A k \in 1 + 1 .. Len(q) : k \in 2 .. Len(q)
  BY <1>1, BehindFirst
<1>4. \A k \in 1 + 1 .. Len(q) : ~AsksNet(q[k])
  BY <1>2, <1>3 DEF NoneAsks
<1> QED
  BY <1>1, <1>4 DEF LastAsks

\* Taking a call off the front leaves the last.
LEMMA AskedBehind ==
  ASSUME NEW q \in Seq(Deferred), q # << >>
  PROVE  /\ \A net : LastAsks(q, net) => LastAsks(Tail(q), net)
         /\ ~AsksNet(q[1]) /\ NoneAsks(Tail(q)) => NoneAsks(q)
         /\ NoneAsks(q) => NoneAsks(Tail(q))
<1> DEFINE r == Tail(q)
           n == Len(q)
<1>1. n \in Nat \ {0} /\ Len(r) = n - 1 /\ \A i \in 1 .. n - 1 : r[i] = q[i + 1]
  BY BehindFirst
<1> HIDE DEF r
<1>2. ASSUME NEW net, LastAsks(q, net) PROVE LastAsks(r, net)
  <2> SUFFICES ASSUME NEW i \in 1 .. Len(r), AsksNet(r[i]), \A k \in i + 1 .. Len(r) : ~AsksNet(r[k])
               PROVE  r[i].net = net
    BY DEF LastAsks
  <2>1. i + 1 \in 1 .. n /\ r[i] = q[i + 1]
    BY <1>1
  <2>2. \A k \in i + 1 + 1 .. n : k - 1 \in i + 1 .. Len(r) /\ r[k - 1] = q[k]
    BY <1>1
  <2> QED
    BY <1>2, <2>1, <2>2 DEF LastAsks, n
<1>3. ASSUME ~AsksNet(q[1]), NoneAsks(r) PROVE NoneAsks(q)
  <2>1. \A i \in 1 .. n : i = 1 \/ (i - 1 \in 1 .. Len(r) /\ r[i - 1] = q[i])
    BY <1>1
  <2> QED
    BY <1>3, <2>1 DEF NoneAsks, n
<1>4. ASSUME NoneAsks(q) PROVE NoneAsks(r)
  <2>1. \A i \in 1 .. Len(r) : i + 1 \in 1 .. n /\ r[i] = q[i + 1]
    BY <1>1
  <2> QED
    BY <1>4, <2>1 DEF NoneAsks, n
<1> QED
  BY <1>2, <1>3, <1>4 DEF r

\* Another call first, for the same network or none.
LEMMA AskedReplaced ==
  ASSUME NEW q \in Seq(Deferred), q # << >>, NEW x \in Deferred
  PROVE  LET r == << x >> \o Tail(q)
         IN /\ AsksNet(x) /\ AsksNet(q[1]) /\ x.net = q[1].net =>
                 \A net : LastAsks(q, net) => LastAsks(r, net)
            /\ ~AsksNet(x) => \A net : LastAsks(q, net) => LastAsks(r, net)
            /\ AsksNet(x) => ~NoneAsks(r)
            /\ NoneAsks(r) => NoneAsks(Tail(q))
<1> DEFINE r == << x >> \o Tail(q)
           t == Tail(q)
           n == Len(q)
<1>1. /\ n \in Nat \ {0} /\ Len(r) = n /\ r[1] = x /\ \A i \in 2 .. n : r[i] = q[i]
      /\ Len(t) = n - 1 /\ \A i \in 1 .. n - 1 : t[i] = q[i + 1]
  BY FirstReplaced, BehindFirst
<1> HIDE DEF r, t
<1>2. ASSUME AsksNet(x) => AsksNet(q[1]) /\ x.net = q[1].net, NEW net, LastAsks(q, net)
      PROVE  LastAsks(r, net)
  <2> SUFFICES ASSUME NEW i \in 1 .. n, AsksNet(r[i]), \A k \in i + 1 .. n : ~AsksNet(r[k])
               PROVE  r[i].net = net
    BY <1>1 DEF LastAsks
  <2>1. \A k \in i + 1 .. n : k \in 2 .. n /\ r[k] = q[k]
    BY <1>1
  <2>2. i = 1 \/ r[i] = q[i]
    BY <1>1
  <2>3. AsksNet(q[i]) /\ r[i].net = q[i].net
    BY <1>1, <1>2, <2>2
  <2> QED
    BY <1>2, <2>1, <2>3 DEF LastAsks, n
<1>3. AsksNet(x) => ~NoneAsks(r)
  <2>1. 1 \in 1 .. Len(r)
    BY <1>1
  <2> QED
    BY <1>1, <2>1 DEF NoneAsks
<1>4. ASSUME NoneAsks(r) PROVE NoneAsks(t)
  <2>1. \A i \in 1 .. Len(t) : i + 1 \in 1 .. Len(r) /\ t[i] = r[i + 1]
    BY <1>1
  <2> QED
    BY <1>4, <2>1 DEF NoneAsks
<1> QED
  BY <1>2, <1>3, <1>4 DEF r, t

LEMMA AskedAppended ==
  ASSUME NEW q \in Seq(Deferred), NEW j \in Deferred
  PROVE  LET r == Append(q, j)
         IN /\ AsksNet(j) => LastAsks(r, j.net) /\ ~NoneAsks(r)
            /\ ~AsksNet(j) => /\ \A net : LastAsks(q, net) => LastAsks(r, net)
                              /\ NoneAsks(r) <=> NoneAsks(q)
<1> DEFINE r == Append(q, j)
           n == Len(q)
<1>1. n \in Nat /\ Len(r) = n + 1 /\ r[n + 1] = j /\ \A i \in 1 .. n : r[i] = q[i]
  BY OneMore
<1> HIDE DEF r
<1>2. n + 1 \in 1 .. Len(r) /\ \A i \in 1 .. Len(r) : i = n + 1 \/ (i \in 1 .. n /\ r[i] = q[i])
  BY <1>1
<1>3. \A i \in 1 .. n : i \in 1 .. Len(r) /\ r[i] = q[i] /\ n + 1 \in i + 1 .. Len(r)
  BY <1>1
<1>4. ASSUME AsksNet(j) PROVE LastAsks(r, j.net) /\ ~NoneAsks(r)
  BY <1>1, <1>2, <1>3, <1>4 DEF LastAsks, NoneAsks
<1>5. ASSUME ~AsksNet(j), NEW net, LastAsks(q, net) PROVE LastAsks(r, net)
  <2> SUFFICES ASSUME NEW i \in 1 .. Len(r), AsksNet(r[i]), \A k \in i + 1 .. Len(r) : ~AsksNet(r[k])
               PROVE  r[i].net = net
    BY DEF LastAsks
  <2>1. i \in 1 .. n /\ r[i] = q[i]
    BY <1>1, <1>2, <1>5
  <2>2. \A k \in i + 1 .. n : k \in i + 1 .. Len(r) /\ r[k] = q[k]
    BY <1>1
  <2> QED
    BY <1>5, <2>1, <2>2 DEF LastAsks, n
<1>6. ASSUME ~AsksNet(j) PROVE NoneAsks(r) <=> NoneAsks(q)
  BY <1>1, <1>2, <1>3, <1>6 DEF NoneAsks, n
<1> QED
  BY <1>4, <1>5, <1>6 DEF r

LEMMA NoneAsked == NoneAsks(<< >>) /\ \A net : LastAsks(<< >>, net)
BY DEF NoneAsks, LastAsks

LEMMA PendingIs == ASSUME GeoInv PROVE NetPending <=> portal # << >> \/ ~NoneAsks(jobs)
BY JobsDomain DEF NetPending, NoneAsks, AsksNet

\* An upload of the main loop's keeps the loop.
LoopInv == /\ upload \in [Uploaders -> [at : Stages, page : Nat]]
           /\ Active("loop") => esp = "upload"

LEMMA LoopStarts == DeviceInit => LoopInv
BY DEF DeviceInit, AssetsInit, LoopInv, Active, Resting, Uploaders, Stages

LEMMA LoopStep == LoopInv /\ [DeviceNext]_vars => LoopInv'
<1> SUFFICES ASSUME LoopInv, [DeviceNext]_vars PROVE LoopInv'
  OBVIOUS
<1>1. ASSUME UNCHANGED upload, esp = "upload" => esp' = "upload" PROVE LoopInv'
  BY <1>1 DEF LoopInv, Active
<1>2. ASSUME AssetsBoot PROVE LoopInv'
  BY <1>2 DEF AssetsBoot, LoopInv, Active, Resting, Uploaders, Stages
<1>3. CASE UNCHANGED vars
  BY <1>1, <1>3 DEF vars, boardVars, assetVars
<1>4. CASE WebRequest /\ UNCHANGED << buttonVars, assetVars, bodyVars >>
  BY <1>1, <1>4 DEF WebRequest, PostSettings, PostWifi, PortalSave, PostReboot, PostUpdate, assetVars
<1>5. CASE WebStep
  <2>1. esp = "upload" => esp' = "upload"
    BY <1>5 DEF WebStep, RunJob, Apply, StartUpdate, PortalRuns, KeepGlobals, Connect, boardVars, Free
  <2> QED
    BY <1>1, <1>5, <2>1 DEF WebStep, assetVars
<1>6. CASE Timer \/ Answer \/ ButtonStep
  <2>1. UNCHANGED upload
    BY <1>6 DEF Timer, Answer, ButtonStep, assetVars
  <2>2. CASE Timer
    BY <1>1, <2>1, <2>2 DEF Timer, HoldDue, ClickDue, ClearDue, boardVars
  <2>3. CASE Answer
    BY <1>1, <2>1, <2>3 DEF Answer, Resend, Free
  <2>4. CASE ButtonStep
    BY <1>1, <2>1, <2>4 DEF ButtonStep, Press, LetGo, Elapse, SetLeds, SwitchLed, boardVars
  <2> QED
    BY <1>6, <2>2, <2>3, <2>4
<1>7. CASE BodyStep
  <2>1. UNCHANGED upload
    BY <1>7 DEF BodyStep, assetVars
  <2>2. CASE SensorStep
    BY <1>1, <2>1, <2>2 DEF SensorStep, FetchSht, Plug, Notice, DrawCharge, Darken, Tap, boardVars
  <2>3. CASE ScreenStep
    BY <1>1, <2>1, <2>3 DEF ScreenStep, LocalScreen, Update, Change, Refresh, DrawEnds, Frame, Free, boardVars
  <2> QED
    BY <1>7, <2>2, <2>3 DEF BodyStep
<1>8. CASE Dispatch \/ Telemetry \/ GdStarts
  BY <1>1, <1>8 DEF Dispatch, Telemetry, GdStarts, assetVars
<1>9. CASE AssetStep
  <2>1. ASSUME NEW a \in Uploaders, Begin(a), esp' = esp, a = "loop" => esp = "upload" PROVE LoopInv'
    <3>1. upload' = [upload EXCEPT ![a] = [at |-> "erase", page |-> 0]]
      BY <2>1 DEF Begin
    <3>2. [at |-> "erase", page |-> 0] \in [at : Stages, page : Nat]
      BY DEF Stages
    <3>3. /\ upload' \in [Uploaders -> [at : Stages, page : Nat]]
          /\ a # "loop" => upload'["loop"] = upload["loop"]
      BY <3>1, <3>2 DEF LoopInv
    <3> QED
      BY <2>1, <3>3 DEF LoopInv, Active
  <2>2. CASE PostAssets
    BY <2>1, <2>2 DEF PostAssets, Uploaders
  <2>3. CASE RemoteAssets
    BY <2>1, <2>3 DEF RemoteAssets, Uploaders
  <2>4. CASE NoRemoteAssets
    BY <2>4 DEF NoRemoteAssets, assetVars, LoopInv, Active
  <2>5. CASE GdWrites \/ Lose
    BY <1>1, <2>5 DEF GdWrites, GdFlash, Lose
  <2>6. ASSUME NEW a \in Uploaders, Proceed(a) PROVE LoopInv'
    <3>1. upload' = [upload EXCEPT ![a] = Following(upload[a])] /\ esp' = esp /\ Active(a)
      BY <2>6 DEF Proceed, boardVars, Answered
    <3>2. Following(upload[a]) \in [at : Stages, page : Nat]
      BY DEF Following, Stages, LoopInv
    <3>3. /\ upload' \in [Uploaders -> [at : Stages, page : Nat]]
          /\ a # "loop" => upload'["loop"] = upload["loop"]
      BY <3>1, <3>2 DEF LoopInv
    <3> QED
      BY <3>1, <3>3 DEF LoopInv, Active
  <2>7. ASSUME NEW a \in Uploaders, UploadEnds(a) PROVE LoopInv'
    <3>1. upload' = [upload EXCEPT ![a] = Resting] /\ (a # "loop" => esp' = esp)
      BY <2>7, EndIsReturn DEF UploadEnds, Return
    <3>2. Resting \in [at : Stages, page : Nat] /\ Resting.at = "idle"
      BY DEF Resting, Stages
    <3>3. /\ upload' \in [Uploaders -> [at : Stages, page : Nat]]
          /\ a # "loop" => upload'["loop"] = upload["loop"]
          /\ a = "loop" => upload'["loop"] = Resting
      BY <3>1, <3>2 DEF LoopInv
    <3> QED
      BY <3>1, <3>2, <3>3 DEF LoopInv, Active
  <2> QED
    BY <1>9, <2>2, <2>3, <2>4, <2>5, <2>6, <2>7 DEF AssetStep, Advance
<1>10. CASE Restart
  <2>1. CASE FlashEsp /\ UNCHANGED upload
    BY <1>1, <2>1 DEF FlashEsp
  <2>2. CASE Wake \/ GdRestart
    BY <1>1, <2>2 DEF Wake, GdRestart, assetVars
  <2> QED
    BY <1>2, <1>10, <2>1, <2>2
       DEF Restart, Reboot, FlashEsp, EspStarts, EspBoots, EnterStandby, PowerCut, EspOff, assetVars
<1> QED
  BY <1>3, <1>4, <1>5, <1>6, <1>7, <1>8, <1>9, <1>10 DEF DeviceNext

LEMMA NetStarts == DeviceInit => NetInv
<1> SUFFICES ASSUME DeviceInit PROVE NetInv
  OBVIOUS
<1>1. jobs = << >> /\ portal = << >>
  BY DEF DeviceInit, WebInit
<1>2. PICK net \in Nets \cup {ConfigNet} :
        /\ wifi = [sta |-> net, online |-> FALSE, perm |-> NoNet,
                   saved |-> IF net = ConfigNet THEN NoNet ELSE net]
        /\ asked = net
  BY DEF DeviceInit, WebInit
<1>3. JobsOrdered /\ NetComes
  BY <1>1, <1>2, NoneAsked DEF JobsOrdered, NetComes, Underway, Storing
<1>4. WifiOK
  BY <1>1, <1>2 DEF WifiOK
<1>5. Kept
  BY <1>2 DEF Kept, Station
<1> QED
  BY <1>3, <1>4, <1>5 DEF NetInv

LEMMA NetUntouched ==
  ASSUME NetInv, UNCHANGED << jobs, portal, wifi, asked >>,
         esp \in {"job", "off"} => esp' \in {"job", "off"}
  PROVE  NetInv'
<1>1. JobsOrdered' /\ WifiOK' /\ NetComes'
  BY DEF NetInv, JobsOrdered, WifiOK, NetComes, Underway, Storing
<1>2. Kept'
  BY DEF NetInv, Kept, Halfway, Storing, Station
<1> QED
  BY <1>1, <1>2 DEF NetInv

\* A restart of the ESP32: the station is the one stored, or the permanent one, and that
\* is what counts as asked for.
LEMMA NetBoots ==
  ASSUME GeoInv, NetInv, NEW newImage \in BOOLEAN, WebBoots(newImage), esp' = "draw",
         newImage => esp = "flash" /\ wifi.online
  PROVE  NetInv'
<1> DEFINE saved == IF newImage THEN NoNet ELSE wifi.saved
<1>1. /\ jobs' = << >> /\ portal' = << >>
      /\ wifi' = [wifi EXCEPT !.saved = saved, !.sta = Station(saved), !.online = FALSE]
      /\ asked' = IF NetPending THEN Station(saved) ELSE asked
  BY DEF WebBoots
<1>2. /\ wifi.perm \in Nets \cup {NoNet} /\ wifi.saved \in Nets \cup {NoNet}
      /\ wifi.sta \in Nets \cup {ConfigNet} /\ wifi.online \in BOOLEAN
      /\ asked \in Nets \cup {ConfigNet}
      /\ wifi \in [sta : Nets \cup {ConfigNet}, online : BOOLEAN,
                   saved : Nets \cup {NoNet}, perm : Nets \cup {NoNet}]
  BY DEF NetInv, WifiOK
<1>3. saved \in Nets \cup {NoNet} /\ Station(saved) \in Nets \cup {ConfigNet}
  BY <1>2 DEF Station
<1>4. ~NetPending => Station(saved) = asked
  <2> SUFFICES ASSUME ~NetPending PROVE Station(saved) = asked
    OBVIOUS
  <2>1. NoneAsks(jobs) /\ portal = << >>
    BY PendingIs
  <2>2. wifi.sta = asked
    BY <2>1 DEF NetInv, NetComes
  <2>3. CASE newImage
    <3>1. wifi.perm = wifi.sta /\ wifi.sta \in Nets
      BY <2>3 DEF NetInv, Kept
    <3> QED
      BY <2>2, <2>3, <3>1 DEF Station
  <2>4. CASE ~newImage
    <3>1. ~Halfway
      <4>1. jobs # << >> => jobs[1].do # "wifi2"
        <5>1. jobs # << >> => 1 \in 1 .. Len(jobs)
          BY JobsDomain, BehindFirst
        <5> QED
          BY <2>1, <5>1 DEF NoneAsks, AsksNet
      <4> QED
        BY <2>1, <4>1 DEF Halfway, Storing
    <3> QED
      BY <2>2, <2>4, <3>1 DEF NetInv, Kept
  <2> QED
    BY <2>3, <2>4
<1> HIDE DEF saved
<1>5. /\ wifi'.sta = Station(saved) /\ wifi'.saved = saved /\ wifi'.online = FALSE
      /\ wifi'.perm = wifi.perm
      /\ wifi' \in [sta : Nets \cup {ConfigNet}, online : BOOLEAN,
                    saved : Nets \cup {NoNet}, perm : Nets \cup {NoNet}]
  BY <1>1, <1>2, <1>3
<1>6. asked' = Station(saved)
  BY <1>1, <1>4
<1>7. Station(wifi.saved)' = Station(saved)
  BY <1>5 DEF Station
<1>8. WifiOK' /\ Kept'
  BY <1>1, <1>3, <1>5, <1>6, <1>7 DEF WifiOK, Kept
<1>9. JobsOrdered' /\ NetComes'
  BY <1>1, <1>5, <1>6, NoneAsked DEF JobsOrdered, NetComes, Underway, Storing
<1> QED
  BY <1>8, <1>9 DEF NetInv

\* One more deferred call.
LEMMA NetDeferred ==
  ASSUME GeoInv, NetInv, NEW j \in Deferred, jobs' = Append(jobs, j), UNCHANGED << portal, wifi, esp >>,
         j.do \notin {"wifi2", "restart"}, asked' \in Nets \cup {ConfigNet},
         asked' = IF AsksNet(j) THEN j.net ELSE asked
  PROVE  NetInv'
<1>1. /\ jobs \in Seq(Deferred) /\ Len(jobs) \in Nat /\ Len(jobs') = Len(jobs) + 1
      /\ jobs'[Len(jobs) + 1] = j /\ \A i \in 1 .. Len(jobs) : jobs'[i] = jobs[i]
  BY JobsDomain, OneMore
<1>2. jobs' # << >> /\ (jobs # << >> => jobs'[1] = jobs[1]) /\ (jobs = << >> => jobs'[1] = j)
  BY <1>1, EmptySeq, BehindFirst
<1>3. JobsOrdered'
  <2>1. ASSUME NEW i \in 2 .. Len(jobs') PROVE jobs'[i].do \notin {"wifi2", "restart"}
    <3>1. i = Len(jobs) + 1 \/ (i \in 2 .. Len(jobs) /\ i \in 1 .. Len(jobs))
      BY <1>1
    <3> QED
      BY <1>1, <3>1 DEF NetInv, JobsOrdered
  <2>2. Underway(jobs)' => Underway(jobs)
    BY <1>2 DEF Underway
  <2> QED
    BY <2>1, <2>2 DEF NetInv, JobsOrdered, Storing
<1>4. Kept'
  <2>1. Halfway <=> Halfway'
    BY <1>2 DEF Halfway, Storing
  <2> QED
    BY <2>1 DEF NetInv, Kept, Station
<1>5. NetComes'
  <2>1. Storing' <=> Storing
    BY DEF Storing
  <2>2. CASE AsksNet(j)
    <3>1. LastAsks(jobs', asked') /\ ~NoneAsks(jobs')
      BY <1>1, <2>2, AskedAppended
    <3> QED
      BY <3>1 DEF NetComes
  <2>3. CASE ~AsksNet(j)
    <3>1. (LastAsks(jobs, asked) => LastAsks(jobs', asked)) /\ (NoneAsks(jobs') <=> NoneAsks(jobs))
      BY <1>1, <2>3, AskedAppended
    <3>2. Underway(jobs)' <=> Underway(jobs)
      BY <1>2 DEF Underway
    <3> QED
      BY <2>1, <2>3, <3>1, <3>2 DEF NetInv, NetComes
  <2> QED
    BY <2>2, <2>3
<1>6. WifiOK'
  BY DEF NetInv, WifiOK
<1> QED
  BY <1>3, <1>4, <1>5, <1>6 DEF NetInv

\* A call that is through, and is none of the network's.
LEMMA NetTaken ==
  ASSUME GeoInv, NetInv, jobs # << >>, jobs[1].do \notin {"wifi", "wifi2", "restart"},
         jobs' = Tail(jobs), UNCHANGED << portal, asked >>, WifiOK', wifi'.sta = wifi.sta,
         esp \in {"job", "off"} => esp' \in {"job", "off"}, Kept'
  PROVE  NetInv'
<1>1. /\ jobs \in Seq(Deferred) /\ Len(jobs) \in Nat \ {0} /\ Len(jobs') = Len(jobs) - 1
      /\ \A i \in 1 .. Len(jobs) - 1 : jobs'[i] = jobs[i + 1]
  BY JobsDomain, BehindFirst
<1>2. \A i \in 1 .. Len(jobs') : jobs'[i].do \notin {"wifi2", "restart"}
  <2> TAKE i \in 1 .. Len(jobs')
  <2>1. i + 1 \in 2 .. Len(jobs) /\ jobs'[i] = jobs[i + 1]
    BY <1>1
  <2> QED
    BY <2>1 DEF NetInv, JobsOrdered
<1>3. ~Underway(jobs)'
  <2>1. CASE jobs' = << >>
    BY <2>1 DEF Underway
  <2>2. CASE jobs' # << >>
    <3>1. jobs' \in Seq(Deferred)
      BY <1>1, BehindFirst
    <3>2. 1 \in 1 .. Len(jobs')
      BY <2>2, <3>1, BehindFirst
    <3> QED
      BY <1>2, <3>2 DEF Underway
  <2> QED
    BY <2>1, <2>2
<1>4. JobsOrdered'
  <2>1. \A i \in 2 .. Len(jobs') : i \in 1 .. Len(jobs')
    BY <1>1
  <2> QED
    BY <1>2, <1>3, <2>1 DEF NetInv, JobsOrdered, Storing
<1>5. NetComes'
  <2>1. /\ LastAsks(jobs, asked) => LastAsks(jobs', asked)
        /\ NoneAsks(jobs') => NoneAsks(jobs)
    BY <1>1, AskedBehind DEF AsksNet
  <2>2. ~Underway(jobs) /\ (Storing' <=> Storing)
    BY DEF Underway, Storing
  <2> QED
    BY <2>1, <2>2 DEF NetInv, NetComes
<1> QED
  BY <1>4, <1>5 DEF NetInv

\* What the saves of a network leave.
LEMMA SavedFacts ==
  ASSUME NetInv
  PROVE  /\ \A net \in Nets : LET w == Permanent(wifi, net)
              IN /\ w \in [sta : Nets \cup {ConfigNet}, online : BOOLEAN,
                           saved : Nets \cup {NoNet}, perm : Nets \cup {NoNet}]
                 /\ w.perm = net /\ w.sta = wifi.sta /\ w.saved = wifi.saved /\ w.online = wifi.online
         /\ \A net \in Nets : LET w == [wifi EXCEPT !.saved = net, !.sta = net, !.online = FALSE]
              IN /\ w \in [sta : Nets \cup {ConfigNet}, online : BOOLEAN,
                           saved : Nets \cup {NoNet}, perm : Nets \cup {NoNet}]
                 /\ w.perm = wifi.perm /\ w.sta = net /\ w.saved = net /\ w.online = FALSE
<1>1. wifi \in [sta : Nets \cup {ConfigNet}, online : BOOLEAN,
                saved : Nets \cup {NoNet}, perm : Nets \cup {NoNet}]
  BY DEF NetInv, WifiOK
<1> QED
  BY <1>1 DEF Permanent

\* A network that was just stored is the one a restart finds.
LEMMA StoredIsStation ==
  ASSUME NEW net \in Nets, wifi'.saved = net, wifi'.sta = net
  PROVE  Station(wifi.saved)' = wifi'.sta
BY DEF Station

LEMMA NetRun ==
  ASSUME GeoInv, NetInv, RunJob
  PROVE  NetInv'
<1> DEFINE j == Head(jobs)
<1>1. /\ jobs \in Seq(Deferred) /\ jobs # << >> /\ j = jobs[1] /\ j \in Deferred
      /\ Len(jobs) \in Nat \ {0}
      /\ UNCHANGED << portal, asked >> /\ (Free \/ esp = "job")
      /\ (esp = "job" <=> j.do = "wifi2")
  BY JobsDomain, BehindFirst DEF RunJob
<1>2. CASE j.do = "apply" /\ Apply(j) /\ jobs' = Tail(jobs)
  <2>1. wifi' = wifi /\ esp' = esp
    BY <1>2 DEF Apply
  <2>2. WifiOK'
    BY <1>1, <2>1 DEF NetInv, WifiOK
  <2>3. Kept'
    <3>1. ~Storing
      BY <1>1, <1>2 DEF NetInv, JobsOrdered, Free
    <3>2. ~Halfway
      BY <1>1, <1>2, <3>1 DEF Halfway
    <3> QED
      BY <2>1, <3>2 DEF NetInv, Kept, Station
  <2> QED
    BY <1>1, <1>2, <2>1, <2>2, <2>3, NetTaken
<1>3. CASE /\ j.do = "wifi" /\ wifi' = Permanent(wifi, j.net) /\ esp' = "job"
           /\ jobs' = << [j EXCEPT !.do = "wifi2"] >> \o Tail(jobs)
  <2> DEFINE x == [j EXCEPT !.do = "wifi2"]
  <2>1. j \in [do : {"wifi", "wifi2"}, net : Nets]
    BY <1>1, <1>3 DEF Deferred
  <2>2. x \in Deferred /\ AsksNet(x) /\ AsksNet(j) /\ x.net = j.net /\ x.do = "wifi2" /\ j.net \in Nets
    BY <2>1 DEF Deferred, AsksNet
  <2> HIDE DEF x
  <2>3. /\ jobs' \in Seq(Deferred) /\ Len(jobs') = Len(jobs) /\ jobs'[1] = x
        /\ \A i \in 2 .. Len(jobs) : jobs'[i] = jobs[i]
    BY <1>1, <1>3, <2>2, FirstReplaced DEF x
  <2>4. ~Storing /\ esp = "free"
    BY <1>1, <1>3 DEF NetInv, JobsOrdered, Free
  <2>5. jobs' # << >>
    BY <1>1, <2>3, EmptySeq
  <2>6. JobsOrdered'
    BY <1>1, <1>3, <2>3, <2>4 DEF NetInv, JobsOrdered, Storing
  <2>7. WifiOK'
    BY <1>1, <1>3, <2>2, SavedFacts DEF NetInv, WifiOK
  <2>8. Kept'
    BY <1>3, <2>2, <2>3, <2>5 DEF Kept, Halfway
  <2>9. NetComes'
    <3>1. /\ LastAsks(jobs, asked) => LastAsks(jobs', asked)
          /\ ~NoneAsks(jobs')
      BY <1>1, <1>3, <2>2, AskedReplaced DEF x
    <3> QED
      BY <1>1, <2>4, <3>1 DEF NetInv, NetComes, Storing
  <2> QED
    BY <2>6, <2>7, <2>8, <2>9 DEF NetInv
<1>4. CASE /\ j.do = "wifi2" /\ SaveSta(j.net) /\ esp' = esp
           /\ jobs' = << [do |-> "restart"] >> \o Tail(jobs)
  <2> DEFINE x == [do |-> "restart"]
  <2>1. j \in [do : {"wifi", "wifi2"}, net : Nets]
    BY <1>1, <1>4 DEF Deferred
  <2>2. x \in Deferred /\ ~AsksNet(x) /\ AsksNet(j) /\ x.do = "restart" /\ j.net \in Nets
    BY <1>4, <2>1 DEF Deferred, AsksNet
  <2> HIDE DEF x
  <2>3. /\ jobs' \in Seq(Deferred) /\ Len(jobs') = Len(jobs) /\ jobs'[1] = x
        /\ \A i \in 2 .. Len(jobs) : jobs'[i] = jobs[i]
    BY <1>1, <1>4, <2>2, FirstReplaced DEF x
  <2>4. ~Storing /\ esp = "job"
    BY <1>1, <1>4 DEF NetInv, JobsOrdered, Underway
  <2>5. jobs' # << >>
    BY <1>1, <2>3, EmptySeq
  <2>6. /\ wifi'.saved = j.net /\ wifi'.sta = j.net /\ wifi'.online = FALSE
        /\ WifiOK'
    BY <1>1, <1>4, <2>2, SavedFacts DEF NetInv, WifiOK, SaveSta
  <2>7. JobsOrdered'
    BY <1>1, <1>4, <2>3, <2>4 DEF NetInv, JobsOrdered, Storing
  <2>8. Kept'
    BY <2>2, <2>6, StoredIsStation DEF Kept
  <2>9. NetComes'
    <3>1. /\ LastAsks(jobs, asked) => LastAsks(jobs', asked)
          /\ NoneAsks(jobs') => NoneAsks(Tail(jobs))
      BY <1>1, <1>4, <2>2, AskedReplaced DEF x
    <3>2. NoneAsks(jobs') /\ portal = << >> => j.net = asked
      BY <1>1, <2>2, <3>1, AskedFirst DEF NetInv, NetComes
    <3>3. Underway(jobs)'
      BY <2>2, <2>3, <2>5 DEF Underway
    <3> QED
      BY <1>1, <2>4, <2>6, <3>1, <3>2, <3>3 DEF NetInv, NetComes, Storing
  <2> QED
    BY <2>6, <2>7, <2>8, <2>9 DEF NetInv
<1> QED
  BY <1>2, <1>3, <1>4 DEF RunJob

LEMMA NetPortal ==
  ASSUME GeoInv, NetInv, PortalRuns
  PROVE  NetInv'
<1>1. /\ portal # << >> /\ UNCHANGED << jobs, asked >>
      /\ portal \in Nets \X {"perm", "sta"} /\ portal[1] \in Nets
      /\ portal = << portal[1], portal[2] >>
  BY DEF NetInv, WifiOK, PortalRuns
<1>2. CASE /\ Free /\ jobs = << >> /\ portal[2] = "perm" /\ esp' = "job"
           /\ wifi' = Permanent(wifi, portal[1]) /\ portal' = << portal[1], "sta" >>
  <2>1. /\ Storing' /\ portal' # << >> /\ portal'[1] = portal[1] /\ ~Storing
        /\ portal' \in Nets \X {"perm", "sta"}
    BY <1>1, <1>2 DEF Storing
  <2>2. WifiOK'
    BY <1>1, <1>2, <2>1, SavedFacts DEF NetInv, WifiOK
  <2>3. JobsOrdered' /\ Kept'
    BY <1>1, <1>2, <2>1 DEF NetInv, JobsOrdered, Kept, Halfway, Underway
  <2>4. NetComes'
    BY <1>1, <1>2, <2>1, NoneAsked DEF NetInv, NetComes, Underway
  <2> QED
    BY <2>2, <2>3, <2>4 DEF NetInv
<1>3. CASE /\ esp = "job" /\ portal[2] = "sta" /\ esp' = "free"
           /\ SaveSta(portal[1]) /\ portal' = << >>
  <2>1. Storing /\ ~Storing' /\ ~Underway(jobs)
    BY <1>1, <1>3 DEF Storing, NetInv, JobsOrdered
  <2>2. /\ wifi'.saved = portal[1] /\ wifi'.sta = portal[1] /\ wifi'.online = FALSE /\ WifiOK'
    BY <1>1, <1>3, SavedFacts DEF NetInv, WifiOK, SaveSta
  <2>3. JobsOrdered'
    BY <1>1, <1>3, <2>1 DEF NetInv, JobsOrdered, Underway
  <2>4. Kept'
    BY <1>1, <2>2, StoredIsStation DEF Kept
  <2>5. NetComes'
    BY <1>1, <1>3, <2>1, <2>2 DEF NetInv, NetComes
  <2> QED
    BY <2>2, <2>3, <2>4, <2>5 DEF NetInv
<1> QED
  BY <1>2, <1>3 DEF PortalRuns

\* A network that works is kept; the station stays what it is.
LEMMA AutoSavedFacts ==
  ASSUME NEW w \in [sta : Nets \cup {ConfigNet}, online : BOOLEAN,
                    saved : Nets \cup {NoNet}, perm : Nets \cup {NoNet}]
  PROVE  /\ AutoSaved(w) \in [sta : Nets \cup {ConfigNet}, online : BOOLEAN,
                              saved : Nets \cup {NoNet}, perm : Nets \cup {NoNet}]
         /\ AutoSaved(w).sta = w.sta /\ AutoSaved(w).saved = w.saved /\ AutoSaved(w).online = w.online
         /\ AutoSaved(w).perm = w.perm \/ (AutoSaved(w).perm = w.sta /\ w.sta \in Nets)
         /\ w.online /\ w.sta \in Nets => AutoSaved(w).perm = w.sta
BY DEF AutoSaved, Permanent

\* The station a restart finds is still the same if the permanent network became it.
LEMMA StationStays ==
  ASSUME wifi.sta = Station(wifi.saved), wifi'.saved = wifi.saved, wifi.sta \in Nets \cup {ConfigNet},
         wifi'.perm = wifi.perm \/ (wifi'.perm = wifi.sta /\ wifi.sta \in Nets)
  PROVE  wifi.sta = Station(wifi.saved)'
BY DEF Station

LEMMA NetUpdate ==
  ASSUME GeoInv, NetInv, StartUpdate
  PROVE  NetInv'
<1>1. /\ jobs \in Seq(Deferred) /\ jobs # << >> /\ jobs[1].do = "update" /\ esp = "free"
      /\ jobs' = Tail(jobs) /\ esp' = "upload" /\ wifi' = AutoSaved(wifi)
      /\ UNCHANGED << portal, asked >>
  BY JobsDomain, BehindFirst DEF StartUpdate, Free
<1>2. ~Halfway
  BY <1>1 DEF Halfway, NetInv, JobsOrdered
<1>3. /\ wifi'.sta = wifi.sta /\ wifi'.saved = wifi.saved /\ wifi'.online = wifi.online /\ WifiOK'
      /\ wifi'.perm = wifi.perm \/ (wifi'.perm = wifi.sta /\ wifi.sta \in Nets)
      /\ wifi.online /\ wifi.sta \in Nets => wifi'.perm = wifi.sta
      /\ wifi.sta \in Nets \cup {ConfigNet}
  BY <1>1, AutoSavedFacts DEF NetInv, WifiOK
<1>4. Kept'
  <2>1. wifi.sta = Station(wifi.saved) /\ (wifi.online => wifi.sta \in Nets)
    BY <1>1, <1>2 DEF NetInv, Kept
  <2> QED
    BY <1>3, <2>1, StationStays DEF Kept
<1> QED
  BY <1>1, <1>3, <1>4, NetTaken

LEMMA NetConnect ==
  ASSUME GeoInv, NetInv, Connect
  PROVE  NetInv'
<1> DEFINE w == [wifi EXCEPT !.online = TRUE]
<1>1. /\ esp = "free" /\ esp' = "free" /\ wifi.sta \in Nets /\ wifi' = AutoSaved(w)
      /\ UNCHANGED << jobs, portal, asked >>
  BY DEF Connect, Free, boardVars, WebAssumption
<1>2. /\ w \in [sta : Nets \cup {ConfigNet}, online : BOOLEAN,
                saved : Nets \cup {NoNet}, perm : Nets \cup {NoNet}]
      /\ w.sta = wifi.sta /\ w.online = TRUE /\ w.perm = wifi.perm /\ w.saved = wifi.saved
  BY DEF NetInv, WifiOK
<1> HIDE DEF w
<1>3. ~Halfway
  <2>1. jobs # << >> => jobs[1].do # "wifi2"
    BY <1>1 DEF NetInv, JobsOrdered, Underway
  <2> QED
    BY <1>1, <2>1 DEF Halfway, NetInv, JobsOrdered
<1>4. /\ wifi'.sta = wifi.sta /\ wifi'.saved = wifi.saved /\ WifiOK'
      /\ wifi'.perm = wifi.sta
  BY <1>1, <1>2, AutoSavedFacts DEF NetInv, WifiOK
<1>5. Kept'
  <2>1. wifi.sta = Station(wifi.saved)
    BY <1>3 DEF NetInv, Kept
  <2>2. wifi.sta = Station(wifi.saved)'
    BY <1>1, <1>4, <2>1, StationStays
  <2> QED
    BY <1>1, <1>4, <2>2 DEF Kept
<1>6. JobsOrdered' /\ NetComes'
  BY <1>1, <1>4 DEF NetInv, JobsOrdered, NetComes, Underway, Storing
<1> QED
  BY <1>4, <1>5, <1>6 DEF NetInv

\* What no page asked for leaves the calls and the networks alone, and no wait of the
\* loop's but a stored network's holds it.
LEMMA NetOthers ==
  ASSUME NetInv, LoopInv,
         Timer \/ Answer \/ ButtonStep \/ AssetStep \/ BodyStep \/ Telemetry \/ GdStarts \/ Dispatch
  PROVE  NetInv'
<1>1. UNCHANGED << jobs, portal, wifi, asked >>
  BY DEF Timer, Answer, ButtonStep, AssetStep, BodyStep, Telemetry, GdStarts, Dispatch,
         PostAssets, RemoteAssets, NoRemoteAssets, GdWrites, Advance, UploadEnds, webVars
<1>2. ASSUME esp \in {"job", "off"} PROVE esp' = esp
  <2>1. CASE Timer \/ Telemetry \/ GdStarts \/ Dispatch
    BY <2>1 DEF Timer, HoldDue, ClickDue, ClearDue, Telemetry, GdStarts, Dispatch, boardVars
  <2>2. CASE Answer
    BY <1>2, <2>2 DEF Answer, Resend, Free
  <2>3. CASE ButtonStep
    BY <2>3 DEF ButtonStep, Press, LetGo, Elapse, SetLeds, SwitchLed, boardVars
  <2>4. CASE BodyStep
    <3>1. CASE SensorStep
      BY <3>1 DEF SensorStep, FetchSht, Plug, Notice, DrawCharge, Darken, Tap, boardVars
    <3>2. CASE ScreenStep
      BY <1>2, <3>2 DEF ScreenStep, LocalScreen, Update, Change, Refresh, DrawEnds, Free, boardVars
    <3> QED
      BY <2>4, <3>1, <3>2 DEF BodyStep
  <2>5. CASE AssetStep
    <3>1. CASE PostAssets \/ RemoteAssets \/ NoRemoteAssets
      BY <1>2, <3>1 DEF PostAssets, RemoteAssets, NoRemoteAssets
    <3>2. CASE GdWrites \/ Lose
      BY <3>2 DEF GdWrites, GdFlash, Lose
    <3>3. ASSUME NEW a \in Uploaders, Advance(a) PROVE esp' = esp
      BY <3>3 DEF Advance, Proceed, boardVars
    <3>4. ASSUME NEW a \in Uploaders, UploadEnds(a) PROVE esp' = esp
      <4>1. Active(a)
        BY <3>4, EndIsReturn
      <4>2. a # "loop"
        BY <1>2, <4>1 DEF LoopInv
      <4> QED
        BY <3>4, <4>2 DEF UploadEnds
    <3> QED
      BY <2>5, <3>1, <3>2, <3>3, <3>4 DEF AssetStep
  <2> QED
    BY <2>1, <2>2, <2>3, <2>4, <2>5
<1> QED
  BY <1>1, <1>2, NetUntouched

LEMMA NetStep == GeoInv /\ LoopInv /\ NetInv /\ [DeviceNext]_vars => NetInv'
<1> SUFFICES ASSUME GeoInv, LoopInv, NetInv, [DeviceNext]_vars PROVE NetInv'
  OBVIOUS
<1>1. CASE UNCHANGED vars
  BY <1>1, NetUntouched DEF vars, webVars, boardVars
<1>2. CASE WebRequest
  <2>1. ASSUME NEW p \in Patches, PostSettings(p) PROVE NetInv'
    <3> DEFINE j == [do |-> "apply", geo |-> Patched(geo, p), patch |-> p]
    <3>1. /\ jobs' = Append(jobs, j) /\ UNCHANGED << portal, wifi, esp, asked >>
      BY <2>1 DEF PostSettings
    <3>2. Patched(geo, p) \in Geo
      <4>1. geo \in Geo /\ geo.region \in Nat /\ geo.town \in Towns
        BY DEF GeoInv, Geo
      <4>2. p.region \in Regions \cup {Keep} /\ p.town \in Towns \cup {Keep}
        BY <2>1 DEF Patches
      <4>3. Or(p.region, geo.region) \in Nat /\ Or(p.town, geo.town) \in Towns
        BY <4>1, <4>2 DEF Or
      <4> QED
        BY <4>3 DEF Patched, Geo
    <3>3. j \in Deferred /\ j.do = "apply"
      BY <2>1, <3>2 DEF Deferred
    <3> HIDE DEF j
    <3>4. asked' \in Nets \cup {ConfigNet} /\ ~AsksNet(j)
      BY <3>1, <3>3 DEF NetInv, WifiOK, AsksNet
    <3> QED
      BY <3>1, <3>3, <3>4, NetDeferred
  <2>2. ASSUME NEW net \in Nets, PostWifi(net) PROVE NetInv'
    <3> DEFINE j == [do |-> "wifi", net |-> net]
    <3>1. j \in Deferred /\ j.do = "wifi" /\ j.net = net
      BY <2>2 DEF Deferred
    <3>2. jobs' = Append(jobs, j) /\ UNCHANGED << portal, wifi, esp >> /\ asked' = net
      BY <2>2 DEF PostWifi
    <3> HIDE DEF j
    <3> QED
      BY <2>2, <3>1, <3>2, NetDeferred DEF AsksNet
  <2>3. ASSUME NEW net \in Nets, PortalSave(net) PROVE NetInv'
    <3>1. /\ portal' = << net, "perm" >> /\ asked' = net /\ UNCHANGED << esp, jobs, wifi >>
          /\ (portal # << >> => portal[2] = "perm")
      BY <2>3 DEF PortalSave
    <3>2. portal' # << >> /\ portal' \in Nets \X {"perm", "sta"} /\ ~Storing' /\ ~Storing
      BY <2>3, <3>1 DEF Storing
    <3>3. JobsOrdered' /\ WifiOK'
      BY <2>3, <3>1, <3>2 DEF NetInv, JobsOrdered, WifiOK, Underway
    <3>4. Kept'
      BY <3>1, <3>2 DEF NetInv, Kept, Halfway, Station
    <3>5. NetComes'
      BY <3>1, <3>2 DEF NetComes
    <3> QED
      BY <3>3, <3>4, <3>5 DEF NetInv
  <2>4. CASE PostReboot
    <3> DEFINE j == [do |-> "reboot"]
    <3>1. j \in Deferred /\ j.do = "reboot"
      BY DEF Deferred
    <3>2. jobs' = Append(jobs, j) /\ UNCHANGED << portal, wifi, esp, asked >>
      BY <2>4 DEF PostReboot
    <3> HIDE DEF j
    <3> QED
      BY <3>1, <3>2, NetDeferred DEF AsksNet, NetInv, WifiOK
  <2>5. CASE PostUpdate
    <3> DEFINE j == [do |-> "update"]
    <3>1. j \in Deferred /\ j.do = "update"
      BY DEF Deferred
    <3>2. jobs' = Append(jobs, j) /\ UNCHANGED << portal, wifi, esp, asked >>
      BY <2>5 DEF PostUpdate
    <3> HIDE DEF j
    <3> QED
      BY <3>1, <3>2, NetDeferred DEF AsksNet, NetInv, WifiOK
  <2> QED
    BY <1>2, <2>1, <2>2, <2>3, <2>4, <2>5 DEF WebRequest
<1>3. CASE WebStep
  <2>1. CASE KeepGlobals
    BY <2>1, NetUntouched DEF KeepGlobals, boardVars
  <2> QED
    BY <1>3, <2>1, NetRun, NetUpdate, NetPortal, NetConnect DEF WebStep
<1>4. CASE Timer \/ Answer \/ ButtonStep \/ AssetStep \/ BodyStep \/ Telemetry \/ GdStarts \/ Dispatch
  BY <1>4, NetOthers
<1>5. CASE Restart
  <2>1. CASE Reboot \/ EspStarts
    BY <2>1, NetBoots DEF Reboot, EspStarts, EspBoots
  <2>2. CASE FlashEsp
    <3>1. CASE wifi.online /\ EspBoots(TRUE)
      BY <2>2, <3>1, NetBoots DEF FlashEsp, EspBoots
    <3>2. CASE esp' = "free" /\ UNCHANGED webVars
      BY <2>2, <3>2, NetUntouched DEF FlashEsp, webVars
    <3> QED
      BY <2>2, <3>1, <3>2 DEF FlashEsp
  <2>3. CASE EnterStandby \/ Wake \/ GdRestart \/ PowerCut
    BY <2>3, NetUntouched DEF EnterStandby, Wake, GdRestart, PowerCut, EspOff, webVars
  <2> QED
    BY <1>5, <2>1, <2>2, <2>3 DEF Restart
<1> QED
  BY <1>1, <1>2, <1>3, <1>4, <1>5 DEF DeviceNext

\* Once nothing is on its way every setting has the value of the newest request that named
\* it, over requests, updates, restarts and power cuts in any order, but for those a request
\* that left it out crossed or a restart took back, which are in undone.
THEOREM SettingsObeyed == DeviceSpec => []SettingsAsAsked
<1>1. GeoInv /\ SettingsInv => SettingsAsAsked
  <2> SUFFICES ASSUME SettingsInv, jobs = << >>, NEW f \in Settings \ undone
               PROVE  Shown[f] = want[f]
    BY DEF SettingsAsAsked
  <2>1. Comes(jobs, Shown[f], want[f], f)
    BY DEF SettingsInv
  <2> QED
    BY <2>1 DEF Comes
<1> QED
  BY <1>1, GeoStarts, GeoStep, SettingsStart, SettingsStep, PTL DEF DeviceSpec

\* And the station is set to the network last asked for, through the web or the portal.
THEOREM NetworkObeyed == DeviceSpec => []NetworkAsAsked
<1>1. GeoInv /\ NetInv => NetworkAsAsked
  BY PendingIs DEF NetInv, NetComes, NetworkAsAsked
<1> QED
  BY <1>1, GeoStarts, GeoStep, LoopStarts, LoopStep, NetStarts, NetStep, PTL DEF DeviceSpec

-----------------------------------------------------------------------------
(* Everything keeps its type. *)

Packets == [kind : {"press"}] \cup [kind : {"release"}, duration : 0 .. Long] \cup [kind : {"hello"}]
             \cup [kind : {"telemetry"}, leds : SUBSET Leds, temp : {"none", "last", "older"},
                   err : BOOLEAN, co2 : {"zero", "measured"}, warmup : BOOLEAN]
             \cup [kind : {"ack"}, cmd : {"erase", "write", "verify"}, ok : BOOLEAN]
Orders == [cmd : {"erase", "verify"}, page : 0 .. Pages, image : Uploaders]
            \cup [cmd : {"write"}, page : PageNumbers, image : Uploaders]

UplinkOK == uplink \in Seq(Packets)
Places == [at : {"idle", "erase", "verify"}, page : {0}] \cup [at : {"write"}, page : PageNumbers]
AssetsOK == AssetsTypeOK /\ cmds \in Seq(Orders) /\ upload \in [Uploaders -> Places]
PagesOK == /\ geo \in Geos /\ bound \in Geos /\ boundNvs \in Geos
           /\ kept \in {<< >>} \cup {<< g >> : g \in Geos} /\ alarm \in BOOLEAN
           /\ jobs \in Seq(Job)
           /\ alarmNvs \in BOOLEAN
           /\ want \in [region : RegionIds, town : Towns, alarm : BOOLEAN] /\ undone \subseteq Settings
AllOK == BoardTypeOK /\ UplinkOK /\ AssetsOK /\ PagesOK /\ ButtonsTypeOK /\ SensorsTypeOK /\ ScreenTypeOK

LEMMA AskFacts ==
  ASSUME events \in [Kinds -> Nat], NEW kind, Ask(kind)
  PROVE  events' \in [Kinds -> Nat]
<1>1. events[kind] > 0 /\ events' = [events EXCEPT ![kind] = @ - 1]
  BY DEF Ask
<1>2. CASE kind \in Kinds
  BY <1>1, <1>2
<1>3. CASE kind \notin Kinds
  BY <1>1, <1>3
<1> QED
  BY <1>2, <1>3

LEMMA LightFacts ==
  ASSUME panel \subseteq Leds, NEW leds, leds \subseteq Leds, Light(leds)
  PROVE  panel' \subseteq Leds
BY DEF Light

LEMMA SentFacts ==
  ASSUME UplinkOK, NEW p \in Packets, Sent(p)
  PROVE  UplinkOK'
<1>1. Append(uplink, p) \in Seq(Packets) /\ << >> \in Seq(Packets)
  BY AppendProperties, EmptySeq DEF UplinkOK
<1> QED
  BY <1>1 DEF Sent, UplinkOK

LEMMA UplinkLess ==
  ASSUME UplinkOK, UNCHANGED uplink \/ uplink' = << >> \/ (uplink # << >> /\ uplink' = Tail(uplink))
  PROVE  UplinkOK'
<1>1. CASE UNCHANGED uplink
  BY <1>1 DEF UplinkOK
<1>2. CASE uplink' = << >>
  BY <1>2, EmptySeq DEF UplinkOK
<1>3. CASE uplink # << >> /\ uplink' = Tail(uplink)
  BY <1>3, HeadTailProperties DEF UplinkOK
<1> QED
  BY <1>1, <1>2, <1>3

LEMMA PacketFacts ==
  /\ [kind |-> "press"] \in Packets /\ [kind |-> "hello"] \in Packets
  /\ \A d \in 0 .. Long : [kind |-> "release", duration |-> d] \in Packets
  /\ \A c \in {"erase", "write", "verify"}, ok \in BOOLEAN : [kind |-> "ack", cmd |-> c, ok |-> ok] \in Packets
  /\ \A p \in Packets : /\ p.kind = "telemetry" => p.leds \subseteq Leds
                        /\ p.kind = "ack" => p.cmd \in {"erase", "write", "verify"} /\ p.ok \in BOOLEAN
                        /\ p.kind = "release" => p.duration \in 0 .. Long
                        /\ p.kind \in {"press", "release", "hello", "telemetry", "ack"}
<1>1. \A p \in Packets : p.kind = "telemetry" => p.leds \subseteq Leds
  BY DEF Packets
<1>2. \A p \in Packets : p.kind = "ack" => p.cmd \in {"erase", "write", "verify"} /\ p.ok \in BOOLEAN
  BY DEF Packets
<1>3. \A p \in Packets : p.kind = "release" => p.duration \in 0 .. Long
  BY DEF Packets
<1>4. \A p \in Packets : p.kind \in {"press", "release", "hello", "telemetry", "ack"}
  BY DEF Packets
<1>5. [kind |-> "press"] \in Packets /\ [kind |-> "hello"] \in Packets
  BY DEF Packets
<1>6. \A d \in 0 .. Long : [kind |-> "release", duration |-> d] \in Packets
  BY DEF Packets
<1>7. \A c \in {"erase", "write", "verify"}, ok \in BOOLEAN : [kind |-> "ack", cmd |-> c, ok |-> ok] \in Packets
  BY DEF Packets
<1> QED
  BY <1>1, <1>2, <1>3, <1>4, <1>5, <1>6, <1>7

LEMMA OrderFacts ==
  /\ \A c \in Orders : /\ c.cmd \in {"erase", "write", "verify"} /\ c.image \in Uploaders
                       /\ c.page \in 0 .. Pages /\ (c.cmd = "write" => c.page \in PageNumbers)
  /\ \A a \in Uploaders, what \in {"erase", "verify"}, page \in 0 .. Pages : Command(a, what, page) \in Orders
  /\ \A a \in Uploaders, page \in PageNumbers : Command(a, "write", page) \in Orders
<1>1. \A c \in Orders : /\ c.cmd \in {"erase", "write", "verify"} /\ c.image \in Uploaders
                        /\ c.page \in 0 .. Pages /\ (c.cmd = "write" => c.page \in PageNumbers)
  BY PagesAssumption DEF Orders, PageNumbers
<1>2. \A a \in Uploaders, what \in {"erase", "verify"}, page \in 0 .. Pages : Command(a, what, page) \in Orders
  BY DEF Orders, Command
<1>3. \A a \in Uploaders, page \in PageNumbers : Command(a, "write", page) \in Orders
  BY DEF Orders, Command
<1> QED
  BY <1>1, <1>2, <1>3

LEMMA ReportFacts ==
  ASSUME BoardTypeOK, SensorsTypeOK, SensorsTypeOK'
  PROVE  Report \in Packets
BY DEF BoardTypeOK, SensorsTypeOK, Report, Packets

LEMMA UplinkStep ==
  ASSUME BoardTypeOK, UplinkOK, AssetsOK, SensorsTypeOK, SensorsTypeOK', [DeviceNext]_vars
  PROVE  UplinkOK'
<1>1. CASE UNCHANGED vars
  BY <1>1, UplinkLess DEF vars, boardVars
<1>2. CASE WebRequest \/ WebStep \/ Timer \/ Answer
  BY <1>2, UplinkLess
     DEF WebRequest, PostSettings, PostWifi, PortalSave, PostReboot, PostUpdate, WebStep, RunJob, StartUpdate,
         PortalRuns, KeepGlobals, Connect, Timer, HoldDue, ClickDue, ClearDue, Answer, Resend, linkVars, boardVars
<1>3. CASE ButtonStep
  <2>1. CASE Press
    BY <2>1, SentFacts, PacketFacts DEF Press
  <2>2. ASSUME NEW d \in 0 .. Long, LetGo(d) PROVE UplinkOK'
    BY <2>2, SentFacts, PacketFacts DEF LetGo
  <2>3. CASE Elapse \/ (\E leds \in Lights : SetLeds(leds)) \/ (\E led \in Leds : SwitchLed(led))
    BY <2>3, UplinkLess DEF Elapse, SetLeds, SwitchLed, boardVars
  <2> QED
    BY <1>3, <2>1, <2>2, <2>3 DEF ButtonStep
<1>4. CASE AssetStep
  <2>1. CASE PostAssets \/ RemoteAssets \/ NoRemoteAssets \/ Lose
    BY <2>1, UplinkLess DEF PostAssets, RemoteAssets, NoRemoteAssets, Begin, Lose, linkVars
  <2>2. ASSUME NEW a \in Uploaders, Advance(a) \/ UploadEnds(a) PROVE UplinkOK'
    BY <2>2, UplinkLess, EndIsReturn DEF Advance, Proceed, boardVars
  <2>3. CASE GdFlash
    <3>1. Head(cmds) \in Orders
      BY <2>3, HeadTailProperties DEF GdFlash, AssetsOK
    <3>2. PICK good \in BOOLEAN : Sent([kind |-> "ack", cmd |-> Head(cmds).cmd, ok |-> good])
      BY <2>3 DEF GdFlash
    <3>3. [kind |-> "ack", cmd |-> Head(cmds).cmd, ok |-> good] \in Packets
      BY <3>1, OrderFacts, PacketFacts
    <3> QED
      BY <3>2, <3>3, SentFacts
  <2> QED
    BY <1>4, <2>1, <2>2, <2>3 DEF AssetStep, GdWrites
<1>5. CASE BodyStep
  <2>1. CASE SensorStep
    BY <2>1, UplinkLess DEF SensorStep, FetchSht, Plug, Notice, DrawCharge, Darken, Tap, linkVars, boardVars
  <2>2. CASE ScreenStep
    BY <2>2, UplinkLess DEF ScreenStep, LocalScreen, Update, Change, Refresh, DrawEnds, linkVars, boardVars
  <2> QED
    BY <1>5, <2>1, <2>2 DEF BodyStep
<1>6. CASE Telemetry
  BY <1>6, SentFacts, ReportFacts DEF Telemetry
<1>7. CASE GdStarts
  BY <1>7, SentFacts, PacketFacts DEF GdStarts
<1>8. CASE Dispatch
  BY <1>8, UplinkLess DEF Dispatch
<1>9. CASE Restart
  BY <1>9, UplinkLess DEF Restart, Reboot, FlashEsp, EspStarts, EspBoots, EnterStandby, PowerCut, EspOff,
                          Wake, GdRestart, linkVars
<1> QED
  BY <1>1, <1>2, <1>3, <1>4, <1>5, <1>6, <1>7, <1>8, <1>9 DEF DeviceNext

LEMMA PollFacts ==
  ASSUME SensorsTypeOK, NEW a \in [temp : {"none", "last", "older"}, co2 : {"zero", "measured"},
                                   err : BOOLEAN, pending : BOOLEAN, warmup : BOOLEAN],
         NEW s \in BOOLEAN, NEW c \in BOOLEAN
  PROVE  /\ StartSht(a, s) \in [temp : {"none", "last", "older"}, co2 : {"zero", "measured"},
                                err : BOOLEAN, pending : BOOLEAN, warmup : BOOLEAN]
         /\ PollCo2(a, c) \subseteq [temp : {"none", "last", "older"}, co2 : {"zero", "measured"},
                                     err : BOOLEAN, pending : BOOLEAN, warmup : BOOLEAN]
<1>1. (a.err \/ ~s) \in BOOLEAN
  OBVIOUS
<1>2. StartSht(a, s) = [a EXCEPT !.pending = s, !.err = a.err \/ ~s]
  BY DEF StartSht
<1> QED
  BY <1>1, <1>2 DEF PollCo2

LEMMA SensorsStep == SensorsTypeOK /\ [DeviceNext]_vars => SensorsTypeOK'
<1> SUFFICES ASSUME SensorsTypeOK, [DeviceNext]_vars PROVE SensorsTypeOK'
  OBVIOUS
<1> DEFINE Airs == [temp : {"none", "last", "older"}, co2 : {"zero", "measured"},
                    err : BOOLEAN, pending : BOOLEAN, warmup : BOOLEAN]
<1>1. ASSUME UNCHANGED sensorVars PROVE SensorsTypeOK'
  BY <1>1 DEF sensorVars, SensorsTypeOK
<1>2. CASE UNCHANGED vars
  BY <1>1, <1>2 DEF vars
<1>3. CASE (WebRequest /\ UNCHANGED << buttonVars, assetVars, bodyVars >>) \/ WebStep \/ Timer \/ Answer
           \/ ButtonStep \/ Dispatch
  BY <1>1, <1>3 DEF WebStep, Timer, Answer, ButtonStep, Dispatch, bodyVars
<1>4. CASE AssetStep
  BY <1>1, <1>4 DEF AssetStep, PostAssets, RemoteAssets, NoRemoteAssets, GdWrites, Advance, UploadEnds, bodyVars
<1>5. CASE BodyStep
  <2>1. CASE FetchSht
    <3>1. PICK good \in BOOLEAN :
            air' = [air EXCEPT !.pending = FALSE, !.err = ~good, !.temp = IF good THEN "last" ELSE air.temp]
      BY <2>1 DEF FetchSht
    <3>2. UNCHANGED << usb, charge, seen, lit >>
      BY <2>1 DEF FetchSht, powerVars
    <3>3. (~good) \in BOOLEAN
      OBVIOUS
    <3>4. air' \in Airs
      BY <3>1, <3>3 DEF SensorsTypeOK
    <3> QED
      BY <3>2, <3>4 DEF SensorsTypeOK
  <2>2. CASE Plug \/ Notice \/ DrawCharge \/ Darken \/ Tap
    <3>1. air' = air /\ {usb', charge', seen', lit'} \subseteq {usb, charge, seen, lit, ~usb, TRUE, FALSE}
      BY <2>2 DEF Plug, Notice, DrawCharge, Darken, Tap, Noticed, ReadBattery
    <3> QED
      BY <3>1 DEF SensorsTypeOK
  <2> QED
    BY <1>1, <1>5, <2>1, <2>2 DEF BodyStep, SensorStep
<1>6. CASE Telemetry
  <2>1. PICK answers \in SUBSET {"sht", "co2"} :
          air' \in PollCo2(StartSht([air EXCEPT !.temp = IF air.temp = "last" THEN "older" ELSE air.temp],
                                    "sht" \in answers),
                           "co2" \in answers)
    BY <1>6 DEF Telemetry, Cycle
  <2>2. charge' = usb /\ UNCHANGED << usb, seen, lit >>
    BY <1>6 DEF Telemetry, Cycle, ReadBattery
  <2> DEFINE a == [air EXCEPT !.temp = IF air.temp = "last" THEN "older" ELSE air.temp]
  <2>3. a \in Airs
    BY DEF SensorsTypeOK
  <2>4. ("sht" \in answers) \in BOOLEAN /\ ("co2" \in answers) \in BOOLEAN
    OBVIOUS
  <2> HIDE DEF a
  <2>5. StartSht(a, "sht" \in answers) \in Airs
    BY <2>3, <2>4, PollFacts
  <2>6. PollCo2(StartSht(a, "sht" \in answers), "co2" \in answers) \subseteq Airs
    BY <2>4, <2>5, PollFacts
  <2>7. air' \in Airs
    BY <2>1, <2>6 DEF a
  <2> QED
    BY <2>2, <2>7 DEF SensorsTypeOK
<1>7. CASE GdStarts
  BY <1>7 DEF GdStarts, SensorsBoot, AirStart, SensorsTypeOK
<1>8. CASE Restart
  <2>1. CASE EnterStandby
    BY <2>1 DEF EnterStandby, SensorsSleep, SensorsTypeOK
  <2> QED
    BY <1>1, <1>8, <2>1 DEF Restart, Reboot, FlashEsp, EspStarts, EspBoots, Wake, GdRestart, PowerCut, bodyVars
<1> QED
  BY <1>2, <1>3, <1>4, <1>5, <1>6, <1>7, <1>8 DEF DeviceNext

LEMMA ScreenStays == ASSUME ScreenTypeOK, UNCHANGED screenVars PROVE ScreenTypeOK'
BY DEF ScreenTypeOK, screenVars

LEMMA ScreenKept == ScreenTypeOK /\ [DeviceNext]_vars => ScreenTypeOK'
<1> SUFFICES ASSUME ScreenTypeOK, [DeviceNext]_vars PROVE ScreenTypeOK'
  OBVIOUS
<1> DEFINE Glasses == {"dark", "local", "part", "drawing", "face"}
<1>1. ASSUME glass' \in Glasses, UNCHANGED << refresh, missed >> PROVE ScreenTypeOK'
  BY <1>1 DEF ScreenTypeOK
<1>2. glass \in Glasses /\ refresh \in BOOLEAN /\ missed \in BOOLEAN
  BY DEF ScreenTypeOK
<1>3. CASE UNCHANGED vars
  BY <1>3, ScreenStays DEF vars
<1>4. CASE (WebRequest /\ UNCHANGED << buttonVars, assetVars, bodyVars >>) \/ WebStep \/ Timer
           \/ ButtonStep \/ Dispatch \/ Telemetry
  BY <1>4, ScreenStays DEF WebStep, Timer, ButtonStep, Dispatch, Telemetry, bodyVars
<1>5. CASE Answer
  BY <1>1, <1>2, <1>5 DEF Answer, Frame
<1>6. CASE AssetStep
  <2>1. CASE PostAssets \/ RemoteAssets
    BY <1>1, <1>2, <2>1 DEF PostAssets, RemoteAssets, OtaEntered
  <2>2. CASE NoRemoteAssets \/ GdWrites
    BY <2>2, ScreenStays DEF NoRemoteAssets, GdWrites, bodyVars
  <2>3. ASSUME NEW a \in Uploaders, Advance(a) PROVE ScreenTypeOK'
    BY <2>3, ScreenStays DEF Advance, bodyVars
  <2>4. ASSUME NEW a \in Uploaders, UploadEnds(a) PROVE ScreenTypeOK'
    <3>1. CASE refresh' = (refresh \/ ota) /\ missed' = (missed \/ HelloGone) /\ UNCHANGED glass
      <4>1. refresh' \in BOOLEAN /\ missed' \in BOOLEAN
        BY <3>1
      <4> QED
        BY <1>2, <3>1, <4>1 DEF ScreenTypeOK
    <3>2. CASE refresh' = FALSE /\ missed' = TRUE /\ UNCHANGED glass
      BY <1>2, <3>2 DEF ScreenTypeOK
    <3> QED
      BY <2>4, <3>1, <3>2 DEF UploadEnds, OtaLeft
  <2>5. CASE HelloLost
    <3>1. missed' = (missed \/ HelloGone) /\ UNCHANGED << glass, refresh >>
      BY <2>5 DEF HelloLost
    <3>2. missed' \in BOOLEAN
      BY <3>1
    <3> QED
      BY <1>2, <3>1, <3>2 DEF ScreenTypeOK
  <2> QED
    BY <1>6, <2>1, <2>2, <2>3, <2>4, <2>5 DEF AssetStep
<1>7. CASE BodyStep
  <2>1. CASE LocalScreen \/ Update \/ Change
    BY <1>1, <1>2, <2>1 DEF LocalScreen, Update, Change, Frame
  <2>2. CASE Refresh
    BY <1>2, <2>2 DEF Refresh, Frame, ScreenTypeOK
  <2>3. CASE DrawEnds
    <3>1. glass' \in Glasses /\ refresh' = refresh
      BY <1>2, <2>3 DEF DrawEnds
    <3>2. missed' = (missed /\ glass' # "face")
      BY <2>3 DEF DrawEnds
    <3>3. missed' \in BOOLEAN
      BY <3>2
    <3> QED
      BY <1>2, <3>1, <3>3 DEF ScreenTypeOK
  <2> QED
    BY <1>7, <2>1, <2>2, <2>3, ScreenStays DEF BodyStep, ScreenStep
<1>8. CASE GdStarts
  BY <1>1, <1>8 DEF GdStarts, PanelBoots
<1>9. CASE Restart
  <2>1. ASSUME ScreenOff PROVE ScreenTypeOK'
    BY <2>1 DEF ScreenOff, ScreenTypeOK
  <2>2. ASSUME NEW b, EspBoots(b) PROVE ScreenTypeOK'
    BY <1>2, <2>2 DEF EspBoots, ScreenBoots, ScreenTypeOK
  <2>3. CASE Wake \/ GdRestart
    BY <2>3, ScreenStays DEF Wake, GdRestart, bodyVars
  <2>4. CASE EnterStandby \/ PowerCut
    BY <2>1, <2>4 DEF EnterStandby, PowerCut, EspOff
  <2>5. CASE Reboot \/ FlashEsp \/ EspStarts
    BY <2>2, <2>5, ScreenStays DEF Reboot, FlashEsp, EspStarts, bodyVars
  <2> QED
    BY <1>9, <2>3, <2>4, <2>5 DEF Restart
<1> QED
  BY <1>3, <1>4, <1>5, <1>6, <1>7, <1>8, <1>9 DEF DeviceNext

-----------------------------------------------------------------------------
(* The types of the uploads. *)

LEMMA PlacesFacts ==
  /\ Resting \in Places /\ [at |-> "erase", page |-> 0] \in Places
  /\ \A u \in Places : u.at # "idle" => /\ Following(u) \in Places
                                        /\ \A a \in Uploaders :
                                             Command(a, Following(u).at, Following(u).page) \in Orders
  /\ Places \subseteq [at : Stages, page : 0 .. Pages]
<1>1. /\ 0 \in 0 .. Pages /\ 1 \in PageNumbers /\ \A p \in PageNumbers : p \in 0 .. Pages
      /\ \A p \in PageNumbers : p < Pages => p + 1 \in PageNumbers
  BY PagesAssumption DEF PageNumbers
<1>2. ASSUME NEW u \in Places, u.at # "idle" 
      PROVE  \/ Following(u) = [at |-> "verify", page |-> 0]
             \/ \E p \in PageNumbers : Following(u) = [at |-> "write", page |-> p]
  <2>1. CASE u.at = "erase"
    <3>1. u.page = 0 /\ 0 + 1 = 1
      BY <2>1 DEF Places
    <3>2. Following(u) = [at |-> "write", page |-> 1]
      BY <2>1, <3>1 DEF Following
    <3> QED
      BY <1>1, <3>2
  <2>2. CASE u.at = "write" /\ u.page < Pages
    <3>1. u.page \in PageNumbers
      BY <2>2 DEF Places
    <3>2. Following(u) = [at |-> "write", page |-> u.page + 1]
      BY <2>2 DEF Following
    <3> QED
      BY <1>1, <2>2, <3>1, <3>2
  <2> QED
    BY <2>1, <2>2 DEF Following
<1>3. [at |-> "verify", page |-> 0] \in Places /\ \A p \in PageNumbers : [at |-> "write", page |-> p] \in Places
  BY DEF Places
<1>4. \A a \in Uploaders : /\ Command(a, "verify", 0) \in Orders
                           /\ \A p \in PageNumbers : Command(a, "write", p) \in Orders
  BY <1>1, OrderFacts
<1>5. Resting \in Places /\ [at |-> "erase", page |-> 0] \in Places
  BY DEF Places, Resting
<1>6. Places \subseteq [at : Stages, page : 0 .. Pages]
  BY <1>1 DEF Places, Stages
<1>7. ASSUME NEW u \in Places, u.at # "idle"
      PROVE  /\ Following(u) \in Places
             /\ \A a \in Uploaders : Command(a, Following(u).at, Following(u).page) \in Orders
  <2>1. CASE Following(u) = [at |-> "verify", page |-> 0]
    <3>1. Following(u).at = "verify" /\ Following(u).page = 0
      BY <2>1
    <3> QED
      BY <1>3, <1>4, <2>1, <3>1
  <2>2. ASSUME NEW p \in PageNumbers, Following(u) = [at |-> "write", page |-> p]
        PROVE  /\ Following(u) \in Places
               /\ \A a \in Uploaders : Command(a, Following(u).at, Following(u).page) \in Orders
    <3>1. Following(u).at = "write" /\ Following(u).page = p
      BY <2>2
    <3> QED
      BY <1>3, <1>4, <2>2, <3>1
  <2> QED
    BY <1>2, <1>7, <2>1, <2>2
<1> QED
  BY <1>5, <1>6, <1>7

LEMMA AssetsStay ==
  ASSUME AssetsOK, UNCHANGED assetVars
  PROVE  AssetsOK'
BY DEF AssetsOK, AssetsTypeOK, assetVars

\* The uploaders' part, and the flash's.
LEMMA AssetsStep == AssetsOK /\ UplinkOK /\ [DeviceNext]_vars => AssetsOK'
<1> SUFFICES ASSUME AssetsOK, UplinkOK, [DeviceNext]_vars PROVE AssetsOK'
  OBVIOUS
<1> DEFINE Results == {"none", "ok", "failed"}
           Flashes == [PageNumbers -> Uploaders \cup {"old", "erased", "mixed"}]
           Acknowledgements == [cmd : Stages \cup {"none"}, ok : BOOLEAN]
<1>1. /\ upload \in [Uploaders -> Places] /\ answer \in [Uploaders -> Results] /\ flash \in Flashes
      /\ lastAck \in Acknowledgements /\ chip \in BOOLEAN /\ overlap \in BOOLEAN /\ strays \in BOOLEAN
      /\ cmds \in Seq(Orders)
  BY DEF AssetsOK, AssetsTypeOK
<1>2. ASSUME upload' \in [Uploaders -> Places], answer' \in [Uploaders -> Results], flash' \in Flashes,
             lastAck' \in Acknowledgements, chip' \in BOOLEAN, overlap' \in BOOLEAN, strays' \in BOOLEAN,
             cmds' \in Seq(Orders)
      PROVE  AssetsOK'
  <2>1. upload' \in [Uploaders -> [at : Stages, page : 0 .. Pages]]
    BY <1>2, PlacesFacts
  <2> QED
    BY <1>2, <2>1 DEF AssetsOK, AssetsTypeOK
<1> HIDE DEF Results, Flashes, Acknowledgements
<1>3. "none" \in Results /\ "ok" \in Results /\ "failed" \in Results /\ NoAck \in Acknowledgements
  BY DEF Results, Acknowledgements, NoAck
<1>4. << >> \in Seq(Orders) /\ (cmds # << >> => Tail(cmds) \in Seq(Orders) /\ Head(cmds) \in Orders)
      /\ \A c \in Orders : Append(cmds, c) \in Seq(Orders)
  BY <1>1, EmptySeq, HeadTailProperties, AppendProperties
<1>s. ASSUME NEW c \in Orders, Send(c) PROVE cmds' \in Seq(Orders)
  BY <1>1, <1>4, <1>s DEF Send
<1>5. ASSUME NEW a \in Uploaders, Begin(a) PROVE AssetsOK'
  <2>1. /\ upload' = [upload EXCEPT ![a] = [at |-> "erase", page |-> 0]]
        /\ answer' = [answer EXCEPT ![a] = "none"] /\ lastAck' = NoAck
        /\ Send(Command(a, "erase", 0))
        /\ overlap' = (\E b \in Uploaders \ {a} : Active(b)) /\ strays' = (cmds # << >>)
        /\ UNCHANGED << chip, flash >>
    BY <1>5 DEF Begin
  <2>2. Command(a, "erase", 0) \in Orders
    BY OrderFacts, PagesAssumption
  <2>3. overlap' \in BOOLEAN /\ strays' \in BOOLEAN
    BY <2>1
  <2>4. upload' \in [Uploaders -> Places]
    BY <1>1, <2>1, PlacesFacts
  <2>5. answer' \in [Uploaders -> Results]
    BY <1>1, <1>3, <2>1
  <2>6. cmds' \in Seq(Orders)
    BY <1>s, <2>1, <2>2
  <2> QED
    BY <1>1, <1>2, <1>3, <2>1, <2>3, <2>4, <2>5, <2>6
<1>6. ASSUME NEW a \in Uploaders, Proceed(a) PROVE AssetsOK'
  <2> DEFINE next == Following(upload[a])
  <2>1. /\ upload' = [upload EXCEPT ![a] = next] /\ upload[a].at # "idle"
        /\ Send(Command(a, next.at, next.page)) /\ lastAck' = NoAck
        /\ UNCHANGED << answer, chip, flash, overlap, strays >>
    BY <1>6 DEF Proceed, Answered, Active
  <2>2. next \in Places /\ Command(a, next.at, next.page) \in Orders
    BY <1>1, <2>1, PlacesFacts
  <2> HIDE DEF next
  <2>3. upload' \in [Uploaders -> Places]
    BY <1>1, <2>1, <2>2
  <2>4. cmds' \in Seq(Orders)
    BY <1>s, <2>1, <2>2
  <2> QED
    BY <1>1, <1>2, <1>3, <2>1, <2>3, <2>4
<1>7. ASSUME NEW a \in Uploaders, NEW r \in Results, Return(a, r) PROVE AssetsOK'
  <2>1. /\ upload' = [upload EXCEPT ![a] = Resting] /\ answer' = [answer EXCEPT ![a] = r]
        /\ overlap' = (overlap /\ \E b \in Uploaders \ {a} : Active(b))
        /\ strays' = FALSE /\ UNCHANGED << cmds, lastAck, chip, flash >>
    BY <1>7 DEF Return
  <2>2. overlap' \in BOOLEAN /\ strays' \in BOOLEAN
    BY <2>1
  <2>3. upload' \in [Uploaders -> Places]
    BY <1>1, <2>1, PlacesFacts
  <2>4. answer' \in [Uploaders -> Results]
    BY <1>1, <1>7, <2>1
  <2> QED
    BY <1>1, <1>2, <2>1, <2>2, <2>3, <2>4
<1>8. ASSUME UNCHANGED << upload, answer, lastAck, chip, overlap, strays, flash >>, cmds' \in Seq(Orders)
      PROVE  AssetsOK'
  BY <1>1, <1>2, <1>8
<1>9. CASE GdFlash
  <2>1. PICK good \in BOOLEAN : Done(Head(cmds), good)
    BY <1>9 DEF GdFlash
  <2>2. cmds # << >> /\ cmds' = Tail(cmds) /\ UNCHANGED << upload, answer, lastAck, chip, overlap, strays >>
    BY <1>9 DEF GdFlash
  <2> DEFINE c == Head(cmds)
  <2>3. c.image \in Uploaders /\ (c.cmd = "write" => c.page \in PageNumbers)
    BY <1>4, <2>2, OrderFacts
  <2> HIDE DEF c
  <2>4. flash' \in Flashes
    <3>1. CASE flash' = flash
      BY <1>1, <3>1
    <3>2. CASE flash' = [p \in PageNumbers |-> "erased"]
      BY <3>2 DEF Flashes
    <3>3. CASE c.cmd = "write" /\ flash' = [flash EXCEPT ![c.page] = Programmed(flash[c.page], c.image)]
      <4>1. Programmed(flash[c.page], c.image) \in Uploaders \cup {"old", "erased", "mixed"}
        BY <2>3 DEF Programmed
      <4> QED
        BY <1>1, <2>3, <3>3, <4>1 DEF Flashes
    <3> QED
      BY <2>1, <3>1, <3>2, <3>3 DEF Done, c
  <2> QED
    BY <1>1, <1>2, <1>4, <2>2, <2>4
<1>10. CASE AssetStep
  <2>1. CASE PostAssets \/ RemoteAssets
    BY <1>5, <2>1 DEF PostAssets, RemoteAssets, Uploaders
  <2>2. CASE Lose
    BY <1>1, <1>4, <1>8, <2>2 DEF Lose
  <2>3. CASE NoRemoteAssets
    BY <2>3, AssetsStay DEF NoRemoteAssets
  <2>4. ASSUME NEW a \in Uploaders, UploadEnds(a) PROVE AssetsOK'
    BY <1>3, <1>7, <2>4, EndIsReturn
  <2> QED
    BY <1>6, <1>9, <1>10, <2>1, <2>2, <2>3, <2>4 DEF AssetStep, GdWrites, Advance
<1>11. CASE Dispatch
  <2>1. Head(uplink) \in Packets
    BY <1>11, HeadTailProperties DEF Dispatch, UplinkOK
  <2> DEFINE p == Head(uplink)
  <2>2. /\ lastAck' = (IF p.kind = "ack" THEN [cmd |-> p.cmd, ok |-> p.ok] ELSE lastAck)
        /\ chip' = (chip \/ (~ota /\ p.kind \in {"hello", "telemetry"}))
        /\ UNCHANGED << upload, answer, cmds, flash, overlap, strays >>
    BY <1>11 DEF Dispatch, TakeAck, LearnChip
  <2>3. p.kind = "ack" => p.cmd \in {"erase", "write", "verify"} /\ p.ok \in BOOLEAN
    BY <2>1, PacketFacts
  <2> HIDE DEF p
  <2>4. lastAck' \in Acknowledgements
    BY <1>1, <2>2, <2>3 DEF Acknowledgements, Stages
  <2>5. chip' \in BOOLEAN
    BY <2>2
  <2> QED
    BY <1>1, <1>2, <2>2, <2>4, <2>5
<1>12. ASSUME AssetsBoot, cmds' \in Seq(Orders) PROVE AssetsOK'
  <2>1. /\ upload' \in [Uploaders -> Places] /\ answer' \in [Uploaders -> Results]
    BY <1>3, <1>12, PlacesFacts DEF AssetsBoot
  <2> QED
    BY <1>1, <1>2, <1>3, <1>12, <2>1 DEF AssetsBoot
<1>13. CASE Restart
  <2>1. CASE GdRestart
    BY <1>4, <1>8, <2>1 DEF GdRestart
  <2>2. CASE Wake
    BY <2>2, AssetsStay DEF Wake
  <2>3. CASE Reboot \/ EspStarts \/ FlashEsp
    BY <1>1, <1>12, <2>3, AssetsStay DEF Reboot, EspStarts, FlashEsp, EspBoots
  <2>4. CASE EnterStandby \/ PowerCut
    BY <1>4, <1>12, <2>4 DEF EnterStandby, PowerCut, EspOff
  <2> QED
    BY <1>13, <2>1, <2>2, <2>3, <2>4 DEF Restart
<1>14. CASE (WebRequest /\ UNCHANGED << buttonVars, assetVars, bodyVars >>) \/ WebStep \/ Timer \/ Answer
            \/ ButtonStep \/ BodyStep \/ Telemetry \/ GdStarts
  BY <1>14, AssetsStay DEF WebStep, Timer, Answer, ButtonStep, BodyStep, Telemetry, GdStarts
<1>15. CASE UNCHANGED vars
  BY <1>15, AssetsStay DEF vars
<1> QED
  BY <1>10, <1>11, <1>13, <1>14, <1>15 DEF DeviceNext

-----------------------------------------------------------------------------
(* The types of the board. *)

LEMMA BoardStep == BoardTypeOK /\ ButtonsTypeOK /\ [DeviceNext]_vars => BoardTypeOK'
<1> SUFFICES ASSUME BoardTypeOK, ButtonsTypeOK, [DeviceNext]_vars PROVE BoardTypeOK'
  OBVIOUS
<1> DEFINE Esps == {"off", "free", "draw", "job", "upload", "flash"}
<1>1. /\ esp \in Esps /\ ota \in BOOLEAN /\ gd \in {"boot", "run", "standby"}
      /\ panel \subseteq Leds /\ events \in [Kinds -> Nat] /\ mirror \subseteq Leds
  BY DEF BoardTypeOK, ButtonsTypeOK
<1>2. ASSUME esp' \in Esps, ota' \in BOOLEAN, gd' \in {"boot", "run", "standby"}, panel' \subseteq Leds,
             UNCHANGED events \/ \E kind : Ask(kind)
      PROVE  BoardTypeOK'
  <2>1. events' \in [Kinds -> Nat]
    BY <1>1, <1>2, AskFacts
  <2> QED
    BY <1>2, <2>1 DEF BoardTypeOK
<1>3. ASSUME UNCHANGED boardVars PROVE BoardTypeOK'
  BY <1>3 DEF boardVars, BoardTypeOK
<1>4. ASSUME NEW leds \in SUBSET Leds, Light(leds) PROVE panel' \subseteq Leds
  BY <1>1, <1>4 DEF Light
<1>5. {"red", "yellow"} \in SUBSET Leds /\ {"green"} \in SUBSET Leds /\ {} \in SUBSET Leds
      /\ Leds \in SUBSET Leds /\ mirror \in SUBSET Leds /\ \A leds \in Lights : leds \in SUBSET Leds
  BY <1>1, LightsAssumption DEF Leds
<1>6. CASE WebRequest
  BY <1>1, <1>2, <1>6 DEF WebRequest, PostSettings, PostWifi, PortalSave, PostReboot, PostUpdate, linkVars
<1>7. CASE WebStep
  <2>1. CASE RunJob
    BY <1>1, <1>2, <2>1 DEF RunJob, Apply, linkVars
  <2>2. CASE StartUpdate
    BY <1>1, <1>2, <1>4, <1>5, <2>2 DEF StartUpdate
  <2>3. CASE PortalRuns
    BY <1>1, <1>2, <2>3 DEF PortalRuns, linkVars
  <2> QED
    BY <1>3, <1>7, <2>1, <2>2, <2>3 DEF WebStep, KeepGlobals, Connect
<1>8. CASE Timer
  BY <1>3, <1>8 DEF Timer, HoldDue, ClickDue, ClearDue
<1>9. CASE Answer
  <2>1. esp' \in Esps
    BY <1>1, <1>9 DEF Answer, Frame
  <2>2. panel' \subseteq Leds
    BY <1>4, <1>5, <1>9 DEF Answer, Resend
  <2> QED
    BY <1>1, <1>2, <1>9, <2>1, <2>2 DEF Answer, Resend
<1>10. CASE ButtonStep
  <2>1. CASE Press
    BY <1>1, <1>2, <2>1 DEF Press
  <2>2. ASSUME NEW d, LetGo(d) PROVE BoardTypeOK'
    BY <1>1, <1>2, <2>2 DEF LetGo
  <2>3. CASE Elapse
    BY <1>3, <2>3 DEF Elapse
  <2>4. ASSUME NEW leds \in Lights, SetLeds(leds) PROVE BoardTypeOK'
    BY <1>1, <1>2, <1>4, <1>5, <2>4 DEF SetLeds
  <2>5. ASSUME NEW led \in Leds, SwitchLed(led) PROVE BoardTypeOK'
    <3>1. mirror' \subseteq Leds
      BY <1>1, <2>5 DEF SwitchLed
    <3>2. panel' \subseteq Leds
      BY <1>1, <2>5, <3>1 DEF SwitchLed, Light
    <3> QED
      BY <1>1, <1>2, <2>5, <3>2 DEF SwitchLed
  <2> QED
    BY <1>10, <2>1, <2>2, <2>3, <2>4, <2>5 DEF ButtonStep
<1>11. CASE AssetStep
  <2>1. CASE PostAssets
    BY <1>1, <1>2, <1>4, <1>5, <2>1 DEF PostAssets, Begin
  <2>2. CASE RemoteAssets
    BY <1>1, <1>2, <1>4, <1>5, <2>2 DEF RemoteAssets, Begin
  <2>3. CASE NoRemoteAssets
    BY <1>1, <1>2, <2>3 DEF NoRemoteAssets, linkVars
  <2>4. CASE GdWrites
    BY <1>1, <1>2, <2>4 DEF GdWrites, GdFlash
  <2>5. CASE Lose
    BY <1>1, <1>2, <2>5 DEF Lose
  <2>6. ASSUME NEW a \in Uploaders, Advance(a) PROVE BoardTypeOK'
    BY <1>3, <2>6 DEF Advance, Proceed
  <2>7. ASSUME NEW a \in Uploaders, UploadEnds(a) PROVE BoardTypeOK'
    <3>1. esp' \in Esps /\ panel' \subseteq Leds /\ UNCHANGED events
      BY <1>1, <1>4, <1>5, <2>7 DEF UploadEnds
    <3>2. ota' = FALSE /\ UNCHANGED gd
      BY <2>7, EndIsReturn DEF Return
    <3> QED
      BY <1>1, <1>2, <3>1, <3>2
  <2> QED
    BY <1>11, <2>1, <2>2, <2>3, <2>4, <2>5, <2>6, <2>7 DEF AssetStep
<1>12. CASE BodyStep
  <2>1. CASE FetchSht \/ Notice \/ DrawCharge \/ Darken \/ LocalScreen \/ Update
    BY <1>3, <2>1 DEF FetchSht, Notice, DrawCharge, Darken, LocalScreen, Update
  <2>2. CASE Plug \/ Tap
    BY <1>1, <1>2, <2>2 DEF Plug, Tap, linkVars
  <2>3. CASE Change \/ Refresh \/ DrawEnds
    BY <1>1, <1>2, <2>3 DEF Change, Refresh, DrawEnds, Frame, linkVars
  <2> QED
    BY <1>12, <2>1, <2>2, <2>3 DEF BodyStep, SensorStep, ScreenStep
<1>13. CASE Telemetry
  BY <1>1, <1>2, <1>13 DEF Telemetry, Cycle
<1>14. CASE GdStarts
  BY <1>1, <1>2, <1>5, <1>14 DEF GdStarts
<1>15. CASE Dispatch
  BY <1>1, <1>2, <1>15 DEF Dispatch
<1>16. CASE Restart
  <2>1. ASSUME NEW b, EspBoots(b), UNCHANGED << gd, events >> PROVE BoardTypeOK'
    BY <1>1, <1>2, <1>4, <1>5, <2>1 DEF EspBoots
  <2>2. CASE Reboot \/ EspStarts
    BY <2>1, <2>2 DEF Reboot, EspStarts
  <2>3. CASE FlashEsp
    BY <1>1, <1>2, <2>1, <2>3 DEF FlashEsp, linkVars
  <2>4. CASE EnterStandby \/ PowerCut
    BY <1>1, <1>2, <1>5, <2>4 DEF EnterStandby, PowerCut, EspOff
  <2>5. CASE Wake \/ GdRestart
    BY <1>1, <1>2, <1>5, <2>5 DEF Wake, GdRestart
  <2> QED
    BY <1>16, <2>2, <2>3, <2>4, <2>5 DEF Restart
<1>17. CASE UNCHANGED vars
  BY <1>3, <1>17 DEF vars
<1> QED
  BY <1>6, <1>7, <1>8, <1>9, <1>10, <1>11, <1>12, <1>13, <1>14, <1>15, <1>16, <1>17 DEF DeviceNext

-----------------------------------------------------------------------------
(* The types of the button. *)

LEMMA ButtonsStay == ASSUME ButtonsTypeOK, UNCHANGED buttonVars PROVE ButtonsTypeOK'
BY DEF ButtonsTypeOK, buttonVars

LEMMA ButtonsStep == ButtonsTypeOK /\ UplinkOK /\ [DeviceNext]_vars => ButtonsTypeOK'
<1> SUFFICES ASSUME ButtonsTypeOK, UplinkOK, [DeviceNext]_vars PROVE ButtonsTypeOK'
  OBVIOUS
<1> DEFINE Actions == {"", "long", "single", "double", "triple", "quadruple", "many"}
           Timers(h, k, c) == h \in 0 .. HoldUnits + 1 /\ k \in 0 .. ClickUnits + 1 /\ c \in 0 .. ClearUnits + 1
           Counts(p, t, h, l, o) == p \in Nat /\ t \in Nat /\ h \in Nat /\ l \in Nat /\ o \in Nat
<1>1. /\ held \in 0 .. Standby /\ Timers(hold, click, clear) /\ fired \in BOOLEAN /\ booted \in BOOLEAN
      /\ clicks \in Nat /\ mirror \subseteq Leds /\ action \in Actions
      /\ Counts(presses, taps, holds, longs, told) /\ disturbed \in BOOLEAN
  BY DEF ButtonsTypeOK
<1>2. ASSUME held' \in 0 .. Standby, Timers(hold', click', clear'), fired' \in BOOLEAN, booted' \in BOOLEAN,
             clicks' \in Nat, mirror' \subseteq Leds, action' \in Actions,
             Counts(presses', taps', holds', longs', told'), disturbed' \in BOOLEAN
      PROVE  ButtonsTypeOK'
  BY <1>2 DEF ButtonsTypeOK
<1>3. 0 \in 0 .. Standby /\ 1 \in 0 .. Standby /\ Timers(0, 0, 0) /\ \A n \in 0 .. Standby : n \in Nat
  BY DEF Standby, HoldUnits, ClickUnits, ClearUnits
<1>4. HoldUnits + 1 \in 0 .. HoldUnits + 1 /\ ClickUnits + 1 \in 0 .. ClickUnits + 1
      /\ ClearUnits + 1 \in 0 .. ClearUnits + 1
  BY DEF HoldUnits, ClickUnits, ClearUnits
<1> HIDE DEF Timers, Actions
<1>n. Counts(presses, taps, holds, longs, told) /\ clicks \in Nat
  BY <1>1
<1>t. Timers(hold, click, clear) /\ held \in 0 .. Standby
  BY <1>1
<1>5. CASE Press
  <2>1. held' = 1 /\ UNCHANGED << hold, click, clear, fired, clicks, action, mirror, booted >>
    BY <1>5 DEF Press
  <2>2. CASE AtRest
    <3>1. presses' = 1 /\ taps' = 0 /\ holds' = 0 /\ longs' = 0 /\ told' = 0 /\ disturbed' = ~On
      BY <1>5, <2>2 DEF Press
    <3>2. Counts(presses', taps', holds', longs', told') /\ disturbed' \in BOOLEAN
      BY <3>1
    <3> QED
      BY <1>1, <1>2, <1>3, <2>1, <3>2
  <2>3. CASE ~AtRest
    <3>1. presses' = presses + 1 /\ UNCHANGED << taps, holds, longs, told >> /\ disturbed' = (disturbed \/ ~On)
      BY <1>5, <2>3 DEF Press
    <3>2. Counts(presses', taps', holds', longs', told')
      BY <1>n, <3>1
    <3>3. disturbed' \in BOOLEAN
      BY <3>1
    <3> QED
      BY <1>1, <1>2, <1>3, <2>1, <3>2, <3>3
  <2> QED
    BY <2>2, <2>3
<1>6. ASSUME NEW d \in 0 .. Long, LetGo(d) PROVE ButtonsTypeOK'
  <2>1. /\ held' = 0 /\ UNCHANGED << hold, click, clear, fired, clicks, action, mirror, booted,
                                     presses, longs, told >>
        /\ taps' = taps + (IF d \in 1 .. 3 THEN 1 ELSE 0) /\ holds' = holds + (IF d >= 4 THEN 1 ELSE 0)
        /\ disturbed' = (disturbed \/ ~On)
    BY <1>6 DEF LetGo
  <2>2. Counts(presses', taps', holds', longs', told')
    BY <1>n, <2>1
  <2>3. disturbed' \in BOOLEAN
    BY <2>1
  <2> QED
    BY <1>1, <1>2, <1>3, <2>1, <2>2, <2>3
<1>7. CASE Elapse
  <2>1. /\ held' = (IF held \in 1 .. Long THEN held + 1 ELSE held)
        /\ hold' = Less(hold) /\ click' = Less(click) /\ clear' = Less(clear)
        /\ disturbed' = (disturbed \/ Waiting)
        /\ UNCHANGED << fired, clicks, action, mirror, booted, presses, taps, holds, longs, told >>
    BY <1>7 DEF Elapse, counts
  <2>2. held' \in 0 .. Standby
    <3>1. held \in 0 .. 7 /\ (held' = held \/ (held' = held + 1 /\ held \in 1 .. 6))
      BY <1>t, <2>1 DEF Standby, Long
    <3> QED
      BY <3>1 DEF Standby
  <2>3. \A n \in Nat : \A t \in 0 .. n : Less(t) \in 0 .. n
    BY DEF Less
  <2>4. Timers(hold', click', clear')
    BY <1>t, <2>1, <2>3 DEF Timers, HoldUnits, ClickUnits, ClearUnits
  <2>5. disturbed' \in BOOLEAN
    BY <2>1
  <2> QED
    BY <1>1, <1>2, <2>1, <2>2, <2>4, <2>5
<1>8. CASE HoldDue
  <2>1. /\ hold' = 0 /\ fired' = TRUE /\ clicks' = 0 /\ click' = 0 /\ action' = "long"
        /\ clear' = ClearUnits + 1 /\ longs' = longs + 1
        /\ UNCHANGED << held, mirror, booted, presses, taps, holds, told, disturbed >>
    BY <1>8 DEF HoldDue, Tell
  <2>2. Timers(hold', click', clear')
    BY <1>3, <1>4, <1>t, <2>1 DEF Timers
  <2>3. Counts(presses', taps', holds', longs', told') /\ clicks' \in Nat
    BY <1>n, <2>1
  <2>4. fired' \in BOOLEAN /\ action' \in Actions
    BY <2>1 DEF Actions
  <2> QED
    BY <1>1, <1>2, <2>1, <2>2, <2>3, <2>4
<1>9. CASE ClickDue
  <2>1. /\ click' = 0 /\ clicks' = 0 /\ told' = told + clicks
        /\ UNCHANGED << held, hold, fired, mirror, booted, presses, taps, holds, longs, disturbed >>
    BY <1>9 DEF ClickDue
  <2>2. action' \in Actions /\ clear' \in 0 .. ClearUnits + 1
    <3>1. CASE clicks > 0
      <4>1. clicks > 4 \/ clicks \in {1, 2, 3, 4}
        BY <1>n, <3>1
      <4>2. << "single", "double", "triple", "quadruple" >>[1] \in Actions
            /\ << "single", "double", "triple", "quadruple" >>[2] \in Actions
            /\ << "single", "double", "triple", "quadruple" >>[3] \in Actions
            /\ << "single", "double", "triple", "quadruple" >>[4] \in Actions /\ "many" \in Actions
        BY DEF Actions
      <4>3. Published(clicks) \in Actions
        BY <4>1, <4>2 DEF Published
      <4> QED
        BY <1>4, <1>9, <3>1, <4>3 DEF ClickDue, Tell
    <3>2. CASE ~(clicks > 0)
      <4>1. UNCHANGED << clear, action >>
        BY <1>9, <3>2 DEF ClickDue
      <4> QED
        BY <1>1, <4>1 DEF Timers
    <3> QED
      BY <3>1, <3>2
  <2>3. Timers(hold', click', clear')
    BY <1>3, <1>t, <2>1, <2>2 DEF Timers
  <2>4. Counts(presses', taps', holds', longs', told') /\ clicks' \in Nat
    BY <1>n, <2>1
  <2> QED
    BY <1>1, <1>2, <2>1, <2>2, <2>3, <2>4
<1>10. CASE ClearDue
  <2>1. clear' = 0 /\ action' = "" /\ UNCHANGED << held, hold, click, fired, clicks, mirror, booted, presses,
                                                  taps, holds, longs, told, disturbed >>
    BY <1>10 DEF ClearDue, counts
  <2>2. Timers(hold', click', clear') /\ action' \in Actions
    BY <1>3, <1>t, <2>1 DEF Timers, Actions
  <2> QED
    BY <1>1, <1>2, <2>1, <2>2
<1>11. CASE Answer
  <2>1. booted' = FALSE /\ UNCHANGED << held, hold, click, clear, fired, clicks, action, mirror, presses, taps,
                                       holds, longs, told, disturbed >>
    BY <1>11 DEF Answer, Resend, counts
  <2> QED
    BY <1>1, <1>2, <2>1
<1>12. CASE ButtonStep
  <2>1. ASSUME NEW leds \in Lights, SetLeds(leds) PROVE ButtonsTypeOK'
    BY <2>1, ButtonsStay DEF SetLeds
  <2>2. ASSUME NEW led \in Leds, SwitchLed(led) PROVE ButtonsTypeOK'
    <3>1. /\ mirror' = mirror \ {led} \/ mirror' = mirror \cup {led}
          /\ UNCHANGED << held, hold, click, clear, fired, clicks, action, booted, presses, taps, holds,
                          longs, told, disturbed >>
      BY <2>2 DEF SwitchLed, counts
    <3>2. mirror' \subseteq Leds
      BY <1>1, <3>1
    <3> QED
      BY <1>1, <1>2, <3>1, <3>2
  <2> QED
    BY <1>5, <1>6, <1>7, <1>12, <2>1, <2>2 DEF ButtonStep
<1>13. ASSUME disturbed' \in BOOLEAN,
              UNCHANGED << held, hold, click, clear, fired, clicks, action, mirror, booted, counts >>
       PROVE  ButtonsTypeOK'
  <2>1. UNCHANGED << presses, taps, holds, longs, told >>
    BY <1>13 DEF counts
  <2> QED
    BY <1>1, <1>2, <1>13, <2>1
<1>14. CASE AssetStep
  <2>1. ASSUME NEW some, EdgesLost(some) PROVE ButtonsTypeOK'
    <3>1. disturbed' \in BOOLEAN
      BY <2>1 DEF EdgesLost
    <3> QED
      BY <1>13, <2>1, <3>1 DEF EdgesLost
  <2>2. CASE PostAssets \/ RemoteAssets
    BY <2>1, <2>2 DEF PostAssets, RemoteAssets
  <2>3. CASE Lose /\ EdgesLost(uplink' # uplink)
    <3>1. disturbed' \in BOOLEAN
      BY <2>3 DEF EdgesLost
    <3> QED
      BY <1>13, <2>3, <3>1 DEF EdgesLost
  <2>4. ASSUME NEW a \in Uploaders, Advance(a) \/ UploadEnds(a) PROVE ButtonsTypeOK'
    BY <2>1, <2>4, ButtonsStay DEF Advance, UploadEnds
  <2> QED
    BY <1>14, <2>2, <2>3, <2>4, ButtonsStay DEF AssetStep, NoRemoteAssets, GdWrites
<1>15. CASE Dispatch
  <2> DEFINE p == Head(uplink)
  <2>1. p \in Packets
    BY <1>15, HeadTailProperties DEF Dispatch, UplinkOK
  <2>2. Process(p) /\ UNCHANGED << held, presses, taps, holds >>
    BY <1>15 DEF Dispatch
  <2>3. /\ p.kind = "telemetry" => p.leds \subseteq Leds
        /\ p.kind = "release" => p.duration \in 0 .. Long
    BY <2>1, PacketFacts
  <2> HIDE DEF p
  <2>4. disturbed' \in BOOLEAN
    BY <2>2 DEF Process
  <2>5. mirror' \subseteq Leds /\ booted' \in BOOLEAN
    BY <1>1, <2>2, <2>3 DEF Process
  <2>6. CASE NoGesture
    <3>1. UNCHANGED << hold, click, clear, fired, clicks, action, longs, told >>
      BY <2>6 DEF NoGesture
    <3> QED
      BY <1>1, <1>2, <2>2, <2>4, <2>5, <3>1
  <2>7. CASE TakePress
    <3>1. clear' = 0 /\ fired' = FALSE /\ hold' = HoldUnits + 1 /\ UNCHANGED << click, clicks, action, longs, told >>
      BY <2>7 DEF TakePress
    <3>2. Timers(hold', click', clear') /\ fired' \in BOOLEAN
      BY <1>3, <1>4, <1>t, <3>1 DEF Timers
    <3> QED
      BY <1>1, <1>2, <2>2, <2>4, <2>5, <3>1, <3>2
  <2>8. CASE TakeRelease(p.duration)
    <3>1. Timers(hold', click', clear')
      BY <1>3, <1>4, <1>t, <2>8 DEF TakeRelease, Tell, Timers
    <3>2. Counts(presses', taps', holds', longs', told') /\ clicks' \in Nat
      BY <1>n, <2>2, <2>8 DEF TakeRelease
    <3>3. fired' \in BOOLEAN /\ action' \in Actions
      BY <1>1, <2>8 DEF TakeRelease, Tell, Actions
    <3> QED
      BY <1>1, <1>2, <2>2, <2>4, <2>5, <3>1, <3>2, <3>3
  <2> QED
    BY <2>2, <2>6, <2>7, <2>8 DEF Process
<1>16. ASSUME ButtonsBoot, held' \in {held, 0} PROVE ButtonsTypeOK'
  <2>1. /\ hold' = 0 /\ click' = 0 /\ clear' = 0 /\ fired' = FALSE /\ clicks' = 0 /\ action' = ""
        /\ mirror' = {} /\ booted' = FALSE /\ disturbed' = TRUE /\ longs' = 0 /\ told' = 0
        /\ UNCHANGED << presses, taps, holds >>
    BY <1>16 DEF ButtonsBoot
  <2>2. Timers(hold', click', clear') /\ Counts(presses', taps', holds', longs', told') /\ clicks' \in Nat
        /\ held' \in 0 .. Standby /\ action' \in Actions
    BY <1>3, <1>16, <1>n, <1>t, <2>1 DEF Timers, Actions
  <2> QED
    BY <1>2, <2>1, <2>2
<1>17. CASE Restart
  <2>1. CASE Reboot \/ EspStarts \/ FlashEsp
    BY <1>16, <2>1, ButtonsStay DEF Reboot, EspStarts, FlashEsp, EspBoots
  <2>2. CASE EnterStandby \/ PowerCut
    BY <1>16, <2>2 DEF EnterStandby, PowerCut, EspOff
  <2>3. CASE Wake
    BY <2>3, ButtonsStay DEF Wake
  <2>4. CASE GdRestart
    <3>1. held' = 0 /\ disturbed' = TRUE /\ UNCHANGED << hold, click, clear, fired, clicks, action, mirror, booted,
                                                         presses, taps, holds, longs, told >>
      BY <2>4 DEF GdRestart, counts
    <3> QED
      BY <1>1, <1>2, <1>3, <3>1
  <2> QED
    BY <1>17, <2>1, <2>2, <2>3, <2>4 DEF Restart
<1>18. CASE (WebRequest /\ UNCHANGED << buttonVars, assetVars, bodyVars >>) \/ WebStep \/ BodyStep
            \/ Telemetry \/ GdStarts
  BY <1>18, ButtonsStay DEF WebStep, BodyStep, Telemetry, GdStarts
<1>19. CASE UNCHANGED vars
  BY <1>19, ButtonsStay DEF vars
<1> QED
  BY <1>8, <1>9, <1>10, <1>11, <1>12, <1>14, <1>15, <1>17, <1>18, <1>19 DEF DeviceNext, Timer

-----------------------------------------------------------------------------
(* The types of the pages. *)

LEMMA GeosFacts ==
  /\ RegionIds \subseteq Nat /\ Regions \subseteq RegionIds
  /\ \A r \in RegionIds : Migrated(r) \in RegionIds
  /\ Default \in Geos
  /\ \A g \in Geos : g.region \in RegionIds /\ g.town \in Towns
  /\ \A r \in RegionIds, t \in Towns : [region |-> r, town |-> t] \in Geos
<1>1. DOMAIN LegacyMap = 1 .. 27 /\ \A i \in 1 .. 27 : LegacyMap[i] \in Nat
  BY DEF LegacyMap
<1>2. RegionIds \subseteq Nat /\ Regions \subseteq RegionIds
  BY <1>1 DEF RegionIds
<1>3. ASSUME NEW r \in RegionIds PROVE Migrated(r) \in RegionIds
  <2>1. r \in Nat /\ (r < 27 => r + 1 \in 1 .. 27)
    BY <1>2
  <2>2. r < 27 => LegacyMap[r + 1] \in RegionIds
    BY <1>1, <2>1 DEF RegionIds
  <2> QED
    BY <2>2 DEF Migrated
<1>4. Default \in Geos
  <2>1. (CHOOSE t \in Towns : TRUE) \in Towns
    OBVIOUS
  <2> QED
    BY <1>2, <2>1 DEF Default, Geos
<1>5. \A g \in Geos : g.region \in RegionIds /\ g.town \in Towns
  BY DEF Geos
<1>6. \A r \in RegionIds, t \in Towns : [region |-> r, town |-> t] \in Geos
  BY DEF Geos
<1> QED
  BY <1>2, <1>3, <1>4, <1>5, <1>6

LEMMA JobFacts ==
  /\ \A g \in Geos, p \in Patches : [do |-> "apply", geo |-> g, patch |-> p] \in Job
  /\ \A net \in Nets : [do |-> "wifi", net |-> net] \in Job
  /\ [do |-> "reboot"] \in Job /\ [do |-> "update"] \in Job /\ [do |-> "restart"] \in Job
  /\ \A j \in Job : /\ j.do = "apply" => j.geo \in Geos /\ j.patch \in Patches
                    /\ j.do = "wifi" => [j EXCEPT !.do = "wifi2"] \in Job
<1>1. \A g \in Geos, p \in Patches : [do |-> "apply", geo |-> g, patch |-> p] \in Job
  BY DEF Job
<1>2. \A net \in Nets : [do |-> "wifi", net |-> net] \in Job
  BY DEF Job
<1>3. [do |-> "reboot"] \in Job /\ [do |-> "update"] \in Job /\ [do |-> "restart"] \in Job
  BY DEF Job
<1>4. ASSUME NEW j \in Job, j.do = "apply" PROVE j.geo \in Geos /\ j.patch \in Patches
  BY <1>4 DEF Job
<1>5. ASSUME NEW j \in Job, j.do = "wifi" PROVE [j EXCEPT !.do = "wifi2"] \in Job
  <2>1. j \in [do : {"wifi", "wifi2"}, net : Nets]
    BY <1>5 DEF Job
  <2> QED
    BY <2>1 DEF Job
<1> QED
  BY <1>1, <1>2, <1>3, <1>4, <1>5

LEMMA PatchedFacts ==
  ASSUME NEW g \in Geos, NEW p \in Patches
  PROVE  /\ Patched(g, p) \in Geos
         /\ \A a \in BOOLEAN : Or(p.alarm, a) \in BOOLEAN
<1>1. p.region \in Regions \cup {Keep} /\ p.town \in Towns \cup {Keep} /\ p.alarm \in BOOLEAN \cup {Keep}
  BY DEF Patches
<1>2. Or(p.region, g.region) \in RegionIds
  BY <1>1, GeosFacts DEF Or
<1>3. Or(p.town, g.town) \in Towns
  BY <1>1, GeosFacts DEF Or
<1>4. \A a \in BOOLEAN : Or(p.alarm, a) \in BOOLEAN
  BY <1>1 DEF Or
<1> QED
  BY <1>2, <1>3, <1>4, GeosFacts DEF Patched

LEMMA PagesStay ==
  ASSUME PagesOK, UNCHANGED << geo, kept, bound, boundNvs, switchVars, jobs, want, undone >>
  PROVE  PagesOK'
BY DEF PagesOK, switchVars

LEMMA PagesStep == PagesOK /\ [DeviceNext]_vars => PagesOK'
<1> SUFFICES ASSUME PagesOK, [DeviceNext]_vars PROVE PagesOK'
  OBVIOUS
<1> DEFINE Keeps == {<< >>} \cup {<< g >> : g \in Geos}
           Wants == [region : RegionIds, town : Towns, alarm : BOOLEAN]
<1>1. /\ geo \in Geos /\ bound \in Geos /\ boundNvs \in Geos /\ kept \in Keeps /\ alarm \in BOOLEAN
      /\ alarmNvs \in BOOLEAN /\ jobs \in Seq(Job) /\ want \in Wants /\ undone \subseteq Settings
  BY DEF PagesOK
<1>2. ASSUME geo' \in Geos, bound' \in Geos, boundNvs' \in Geos, kept' \in Keeps, alarm' \in BOOLEAN,
             alarmNvs' \in BOOLEAN, jobs' \in Seq(Job), want' \in Wants, undone' \subseteq Settings
      PROVE  PagesOK'
  BY <1>2 DEF PagesOK
<1>3. \A g \in Geos : << g >> \in Keeps
  OBVIOUS
<1>4. \A r \in RegionIds, t \in Towns, a \in BOOLEAN : [region |-> r, town |-> t, alarm |-> a] \in Wants
  OBVIOUS
<1>5. want.region \in RegionIds /\ want.town \in Towns /\ want.alarm \in BOOLEAN
  BY <1>1
<1>s. ASSUME NEW saves, Synced(saves) PROVE alarmNvs' \in BOOLEAN
  BY <1>1, <1>s DEF Synced
<1> HIDE DEF Keeps, Wants
<1>6. << >> \in Seq(Job) /\ (jobs # << >> => Tail(jobs) \in Seq(Job) /\ Head(jobs) \in Job)
      /\ \A j \in Job : Append(jobs, j) \in Seq(Job)
  BY <1>1, EmptySeq, HeadTailProperties, AppendProperties
<1>7. ASSUME NEW j \in Job, jobs' = Append(jobs, j),
             UNCHANGED << geo, kept, bound, boundNvs, switchVars, want, undone >>
      PROVE  PagesOK'
  BY <1>1, <1>2, <1>6, <1>7 DEF switchVars
<1>8. CASE WebRequest
  <2>1. ASSUME NEW p \in Patches, PostSettings(p) PROVE PagesOK'
    <3>1. /\ jobs' = Append(jobs, [do |-> "apply", geo |-> Patched(geo, p), patch |-> p])
          /\ undone' = (undone \cup Undoing(p)) \ Named(p)
          /\ want' = [region |-> Or(p.region, want.region), town |-> Or(p.town, want.town),
                      alarm |-> Or(p.alarm, want.alarm)]
          /\ UNCHANGED << geo, kept, bound, boundNvs, alarm, alarmNvs >>
      BY <2>1 DEF PostSettings, switchVars
    <3>2. Patched(geo, p) \in Geos /\ Or(p.alarm, want.alarm) \in BOOLEAN
          /\ Or(p.region, want.region) \in RegionIds /\ Or(p.town, want.town) \in Towns
      <4>1. p.region \in Regions \cup {Keep} /\ p.town \in Towns \cup {Keep}
        BY DEF Patches
      <4>2. Or(p.region, want.region) \in RegionIds /\ Or(p.town, want.town) \in Towns
        BY <1>5, <4>1, GeosFacts DEF Or
      <4> QED
        BY <1>1, <1>5, <4>2, PatchedFacts
    <3>3. jobs' \in Seq(Job)
      BY <1>6, <3>1, <3>2, JobFacts
    <3>4. want' \in Wants
      BY <1>4, <3>1, <3>2
    <3>5. undone' \subseteq Settings
      BY <1>1, <3>1 DEF Undoing, OnItsWay
    <3> QED
      BY <1>1, <1>2, <3>1, <3>3, <3>4, <3>5
  <2>2. ASSUME NEW net \in Nets, PostWifi(net) PROVE PagesOK'
    BY <1>7, <2>2, JobFacts DEF PostWifi
  <2>3. ASSUME NEW net \in Nets, PortalSave(net) PROVE PagesOK'
    BY <2>3, PagesStay DEF PortalSave, switchVars
  <2>4. CASE PostReboot \/ PostUpdate
    BY <1>7, <2>4, JobFacts DEF PostReboot, PostUpdate
  <2> QED
    BY <1>8, <2>1, <2>2, <2>3, <2>4 DEF WebRequest
<1>9. CASE WebStep
  <2>1. CASE RunJob
    <3> DEFINE j == Head(jobs)
    <3>1. j \in Job /\ Tail(jobs) \in Seq(Job) /\ UNCHANGED << boundNvs, want, undone >>
      BY <1>6, <2>1 DEF RunJob
    <3>s. alarmNvs' \in BOOLEAN
      BY <1>1, <1>s, <2>1 DEF RunJob, Apply, SaveGeo
    <3>2. CASE j.do = "apply" /\ Apply(j) /\ jobs' = Tail(jobs)
      <4>1. j.geo \in Geos /\ j.patch \in Patches
        BY <3>1, <3>2, JobFacts
      <4>2. alarm' = Or(j.patch.alarm, alarm)
        BY <3>2 DEF Apply
      <4>3. alarm' \in BOOLEAN
        BY <1>1, <4>1, <4>2, PatchedFacts
      <4>4. geo' \in Geos /\ kept' \in Keeps /\ bound' \in Geos
        BY <1>1, <1>3, <3>2, <4>1 DEF Apply, SaveGeo
      <4> QED
        BY <1>1, <1>2, <3>1, <3>s, <3>2, <4>3, <4>4
    <3>3. ASSUME NEW x \in Job, jobs' = << x >> \o Tail(jobs), UNCHANGED << geo, kept, bound, alarm >>
          PROVE  PagesOK'
      <4>1. << x >> \in Seq(Job)
        OBVIOUS
      <4>2. << x >> \o Tail(jobs) \in Seq(Job)
        BY <3>1, <4>1, ConcatProperties
      <4> QED
        BY <1>1, <1>2, <3>1, <3>s, <3>3, <4>2
    <3>4. CASE j.do = "wifi" /\ jobs' = << [j EXCEPT !.do = "wifi2"] >> \o Tail(jobs)
               /\ UNCHANGED << geo, kept, bound, alarm >>
      BY <3>1, <3>3, <3>4, JobFacts
    <3>5. CASE jobs' = << [do |-> "restart"] >> \o Tail(jobs) /\ UNCHANGED << geo, kept, bound, alarm >>
      BY <3>3, <3>5, JobFacts
    <3> QED
      BY <2>1, <3>2, <3>4, <3>5 DEF RunJob
  <2>2. CASE StartUpdate
    BY <1>1, <1>2, <1>6, <1>s, <2>2 DEF StartUpdate
  <2>3. CASE KeepGlobals
    BY <1>1, <1>2, <1>s, <2>3 DEF KeepGlobals
  <2>4. CASE PortalRuns \/ Connect
    BY <1>1, <1>2, <1>s, <2>4 DEF PortalRuns, Connect
  <2> QED
    BY <1>9, <2>1, <2>2, <2>3, <2>4 DEF WebStep
<1>10. CASE Timer \/ Answer \/ ButtonStep \/ AssetStep \/ BodyStep \/ Telemetry \/ GdStarts \/ Dispatch
  BY <1>10, PagesStay
     DEF Timer, Answer, ButtonStep, AssetStep, BodyStep, Telemetry, GdStarts, Dispatch,
         PostAssets, RemoteAssets, NoRemoteAssets, GdWrites, Advance, UploadEnds, webVars, switchVars
<1>11. ASSUME NEW b, WebBoots(b) PROVE PagesOK'
  <2>1. Loaded \in Geos
    <3>1. CASE kept = << >>
      BY <3>1, GeosFacts DEF Loaded
    <3>2. ASSUME NEW g \in Geos, kept = << g >> PROVE Loaded \in Geos
      <4>1. Loaded = [g EXCEPT !.region = Migrated(g.region)]
        BY <3>2 DEF Loaded
      <4>2. Migrated(g.region) \in RegionIds
        BY GeosFacts
      <4> QED
        BY <4>1, <4>2 DEF Geos
    <3> QED
      BY <1>1, <3>1, <3>2 DEF Keeps
  <2>2. /\ geo' = Loaded /\ bound' = Loaded /\ jobs' = << >> /\ alarm' = alarmNvs
        /\ undone' = undone \cup Lost /\ UNCHANGED << kept, boundNvs, alarmNvs, want >>
    BY <1>11 DEF WebBoots
  <2>3. undone' \subseteq Settings
    BY <1>1, <2>2 DEF Lost, OnItsWay, Settings
  <2> QED
    BY <1>1, <1>2, <1>6, <2>1, <2>2, <2>3
<1>12. CASE Restart
  <2>1. CASE Reboot \/ EspStarts
    BY <1>11, <2>1 DEF Reboot, EspStarts, EspBoots
  <2>2. CASE FlashEsp
    BY <1>11, <2>2, PagesStay DEF FlashEsp, EspBoots, webVars, switchVars
  <2>3. CASE EnterStandby \/ Wake \/ GdRestart \/ PowerCut
    BY <2>3, PagesStay DEF EnterStandby, Wake, GdRestart, PowerCut, EspOff, webVars, switchVars
  <2> QED
    BY <1>12, <2>1, <2>2, <2>3 DEF Restart
<1>13. CASE UNCHANGED vars
  BY <1>13, PagesStay DEF vars, webVars, switchVars
<1> QED
  BY <1>8, <1>9, <1>10, <1>12, <1>13 DEF DeviceNext

LEMMA TypesStart == DeviceInit => AllOK
<1> SUFFICES ASSUME DeviceInit PROVE AllOK
  OBVIOUS
<1>1. << >> \in Seq(Packets) /\ << >> \in Seq(Orders) /\ << >> \in Seq(Job)
  BY EmptySeq
<1>2. BoardTypeOK
  BY BudgetsAssumption DEF DeviceInit, BoardTypeOK
<1>3. UplinkOK
  BY <1>1 DEF DeviceInit, UplinkOK
<1>4. AssetsOK
  <2>1. upload \in [Uploaders -> Places]
    BY PlacesFacts DEF DeviceInit, AssetsInit
  <2>2. upload \in [Uploaders -> [at : Stages, page : 0 .. Pages]]
    BY <2>1, PlacesFacts
  <2>3. flash \in [PageNumbers -> Uploaders \cup {"old", "erased", "mixed"}]
    BY DEF DeviceInit, AssetsInit
  <2>4. answer \in [Uploaders -> {"none", "ok", "failed"}]
    BY DEF DeviceInit, AssetsInit
  <2>5. lastAck \in [cmd : Stages \cup {"none"}, ok : BOOLEAN]
    BY DEF DeviceInit, AssetsInit, NoAck
  <2>6. cmds = << >> /\ chip = FALSE /\ overlap = FALSE /\ strays = FALSE
    BY DEF DeviceInit, AssetsInit
  <2> QED
    BY <1>1, <2>1, <2>2, <2>3, <2>4, <2>5, <2>6 DEF AssetsOK, AssetsTypeOK
<1>5. PagesOK
  <2>1. /\ geo = Default /\ kept = << >> /\ bound = Default /\ boundNvs = Default /\ alarm = FALSE /\ jobs = << >>
        /\ want = Shown /\ undone = {} /\ alarmNvs = FALSE
    BY DEF DeviceInit, WebInit
  <2>2. want \in [region : RegionIds, town : Towns, alarm : BOOLEAN]
    BY <2>1, GeosFacts DEF Shown
  <2> QED
    BY <1>1, <2>1, <2>2, GeosFacts DEF PagesOK
<1>6. ButtonsTypeOK
  <2>1. /\ held = 0 /\ hold = 0 /\ click = 0 /\ clear = 0 /\ clicks = 0
        /\ presses = 0 /\ taps = 0 /\ holds = 0 /\ longs = 0 /\ told = 0
        /\ fired = FALSE /\ booted = FALSE /\ disturbed = FALSE /\ action = "" /\ mirror = {}
    BY DEF DeviceInit, ButtonsInit
  <2>2. 0 \in 0 .. Standby /\ 0 \in 0 .. HoldUnits + 1 /\ 0 \in 0 .. ClickUnits + 1 /\ 0 \in 0 .. ClearUnits + 1
    BY DEF Standby, HoldUnits, ClickUnits, ClearUnits
  <2>3. clicks \in Nat /\ \A n \in {presses, taps, holds, longs, told} : n = 0
    BY <2>1
  <2> QED
    BY <2>1, <2>2, <2>3 DEF ButtonsTypeOK
<1>7. SensorsTypeOK
  BY DEF DeviceInit, SensorsInit, AirStart, SensorsTypeOK
<1>8. ScreenTypeOK
  BY DEF DeviceInit, ScreenInit, ScreenTypeOK
<1> QED
  BY <1>2, <1>3, <1>4, <1>5, <1>6, <1>7, <1>8 DEF AllOK

LEMMA TypesStep == AllOK /\ [DeviceNext]_vars => AllOK'
BY BoardStep, UplinkStep, AssetsStep, PagesStep, ButtonsStep, SensorsStep, ScreenKept DEF AllOK

\* Whatever requests, presses, uploads, restarts and losses come, in any order and number,
\* every part of the device stays in one of its states. That needs the packets and the
\* commands on their way to be ones there are, and an upload to write no page that the
\* assets have not.
THEOREM DeviceTypeCorrect == DeviceSpec => []DeviceTypeOK
<1>1. AllOK /\ NetInv => DeviceTypeOK
  <2> SUFFICES ASSUME AllOK, NetInv PROVE DeviceTypeOK
    OBVIOUS
  <2>1. \A i \in DOMAIN jobs : jobs[i] \in Job
    BY ElementOfSeq, LenProperties DEF AllOK, PagesOK
  <2>2. WebTypeOK
    BY <2>1 DEF AllOK, PagesOK, NetInv, WifiOK, WebTypeOK
  <2> QED
    BY <2>2 DEF AllOK, AssetsOK, DeviceTypeOK
<1> QED
  BY <1>1, TypesStart, TypesStep, GeoStarts, GeoStep, LoopStarts, LoopStep, NetStarts, NetStep,
     PTL DEF DeviceSpec

-----------------------------------------------------------------------------
(* The answers to the commands of an upload. *)

\* No answer is among the packets q.
NoAnswers(q) == \A i \in 1 .. Len(q) : q[i].kind # "ack"

\* The answer x is to uploader a's command of stage at; and the flash f holds a's assets
\* if x says that it was verified.
Bears(x, a, at, f) == x.cmd = at /\ (at = "verify" /\ x.ok => \A p \in PageNumbers : f[p] = a)

\* Of the packets q one at most is an answer, and it bears.
OneAnswer(q, a, at, f) ==
  \A i \in 1 .. Len(q) : q[i].kind = "ack" => /\ Bears(q[i], a, at, f)
                                              /\ \A j \in 1 .. Len(q) : q[j].kind = "ack" => j = i

\* Uploader a at u: its command is with the GD32, or the answer is on its way or lost, or
\* the answer has come. There is no other command or answer.
Talk(a, u, c, q, l, f) ==
  \/ c = << Command(a, u.at, u.page) >> /\ l = NoAck /\ NoAnswers(q)
  \/ c = << >> /\ l = NoAck /\ OneAnswer(q, a, u.at, f)
  \/ c = << >> /\ Bears(l, a, u.at, f) /\ NoAnswers(q)

LEMMA NoAnswersIsOne == \A q, a, at, f : NoAnswers(q) => OneAnswer(q, a, at, f)
BY DEF NoAnswers, OneAnswer

WrittenInv ==
  \A a \in Uploaders : Active(a) /\ ~overlap /\ ~strays => Talk(a, upload[a], cmds, uplink, lastAck, flash)

LEMMA NoAnswersFacts ==
  /\ NoAnswers(<< >>)
  /\ \A q \in Seq(Packets) : q # << >> /\ NoAnswers(q) => NoAnswers(Tail(q)) /\ Head(q).kind # "ack"
  /\ \A q \in Seq(Packets), x \in Packets : NoAnswers(q) /\ x.kind # "ack" => NoAnswers(Append(q, x))
<1>1. NoAnswers(<< >>)
  BY DEF NoAnswers
<1>2. ASSUME NEW q \in Seq(Packets), q # << >>, NoAnswers(q) PROVE NoAnswers(Tail(q)) /\ Head(q).kind # "ack"
  <2> DEFINE n == Len(q)
             t == Tail(q)
  <2>1. n \in Nat \ {0} /\ Head(q) = q[1] /\ Len(t) = n - 1 /\ \A i \in 1 .. n - 1 : t[i] = q[i + 1]
    BY <1>2, BehindFirst
  <2>2. \A i \in 1 .. n : q[i].kind # "ack"
    BY <1>2 DEF NoAnswers
  <2> HIDE DEF n, t
  <2>3. 1 \in 1 .. n /\ \A i \in 1 .. n - 1 : i + 1 \in 1 .. n
    BY <2>1
  <2>4. NoAnswers(t)
    BY <2>1, <2>2, <2>3 DEF NoAnswers
  <2> QED
    BY <2>1, <2>2, <2>3, <2>4 DEF t
<1>3. ASSUME NEW q \in Seq(Packets), NEW x \in Packets, NoAnswers(q), x.kind # "ack"
      PROVE  NoAnswers(Append(q, x))
  <2> DEFINE n == Len(q)
             r == Append(q, x)
  <2>1. n \in Nat /\ Len(r) = n + 1 /\ r[n + 1] = x /\ \A i \in 1 .. n : r[i] = q[i]
    BY OneMore
  <2>2. \A i \in 1 .. n : q[i].kind # "ack"
    BY <1>3 DEF NoAnswers
  <2> HIDE DEF n, r
  <2>3. \A i \in 1 .. n + 1 : i \in 1 .. n \/ i = n + 1
    BY <2>1
  <2>4. NoAnswers(r)
    BY <1>3, <2>1, <2>2, <2>3 DEF NoAnswers
  <2> QED
    BY <2>4 DEF r
<1> QED
  BY <1>1, <1>2, <1>3

LEMMA OneAnswerFacts ==
  ASSUME NEW a, NEW at, NEW f
  PROVE  /\ \A q : NoAnswers(q) => OneAnswer(q, a, at, f)
         /\ \A q \in Seq(Packets), x \in Packets :
              \/ NoAnswers(q) /\ Bears(x, a, at, f)
              \/ OneAnswer(q, a, at, f) /\ x.kind # "ack"
              => OneAnswer(Append(q, x), a, at, f)
         /\ \A q \in Seq(Packets) : q # << >> /\ OneAnswer(q, a, at, f) =>
              /\ OneAnswer(Tail(q), a, at, f)
              /\ Head(q).kind = "ack" => Bears(Head(q), a, at, f) /\ NoAnswers(Tail(q))
<1>1. \A q : NoAnswers(q) => OneAnswer(q, a, at, f)
  BY DEF NoAnswers, OneAnswer
<1>2. ASSUME NEW q \in Seq(Packets), NEW x \in Packets,
             \/ NoAnswers(q) /\ Bears(x, a, at, f)
             \/ OneAnswer(q, a, at, f) /\ x.kind # "ack"
      PROVE  OneAnswer(Append(q, x), a, at, f)
  <2> DEFINE n == Len(q)
             r == Append(q, x)
  <2>1. n \in Nat /\ Len(r) = n + 1 /\ r[n + 1] = x /\ \A i \in 1 .. n : r[i] = q[i]
    BY OneMore
  <2>2. CASE NoAnswers(q) /\ Bears(x, a, at, f)
    <3>1. \A i \in 1 .. n : q[i].kind # "ack"
      BY <2>2 DEF NoAnswers
    <3> HIDE DEF n, r
    <3>2. \A i \in 1 .. n + 1 : r[i].kind = "ack" => i = n + 1
      BY <2>1, <3>1
    <3>3. OneAnswer(r, a, at, f)
      BY <2>1, <2>2, <3>2 DEF OneAnswer
    <3> QED
      BY <3>3 DEF r
  <2>3. CASE OneAnswer(q, a, at, f) /\ x.kind # "ack"
    <3>1. \A i \in 1 .. n : q[i].kind = "ack" => /\ Bears(q[i], a, at, f)
                                                 /\ \A j \in 1 .. n : q[j].kind = "ack" => j = i
      BY <2>3 DEF OneAnswer
    <3> HIDE DEF n, r
    <3>2. \A i \in 1 .. n + 1 : r[i].kind = "ack" => i \in 1 .. n
      BY <2>1, <2>3
    <3>3. OneAnswer(r, a, at, f)
      BY <2>1, <3>1, <3>2 DEF OneAnswer
    <3> QED
      BY <3>3 DEF r
  <2> QED
    BY <1>2, <2>2, <2>3
<1>3. ASSUME NEW q \in Seq(Packets), q # << >>, OneAnswer(q, a, at, f)
      PROVE  /\ OneAnswer(Tail(q), a, at, f)
             /\ Head(q).kind = "ack" => Bears(Head(q), a, at, f) /\ NoAnswers(Tail(q))
  <2> DEFINE n == Len(q)
             t == Tail(q)
  <2>1. n \in Nat \ {0} /\ Head(q) = q[1] /\ Len(t) = n - 1 /\ \A i \in 1 .. n - 1 : t[i] = q[i + 1]
    BY <1>3, BehindFirst
  <2>2. \A i \in 1 .. n : q[i].kind = "ack" => /\ Bears(q[i], a, at, f)
                                               /\ \A j \in 1 .. n : q[j].kind = "ack" => j = i
    BY <1>3 DEF OneAnswer
  <2> HIDE DEF n, t
  <2>3. 1 \in 1 .. n /\ \A i \in 1 .. n - 1 : i + 1 \in 1 .. n /\ i + 1 # 1
    BY <2>1
  <2>4. \A i, j \in 1 .. n - 1 : i + 1 = j + 1 => i = j
    BY <2>1
  <2>5. OneAnswer(t, a, at, f)
    BY <2>1, <2>2, <2>3, <2>4 DEF OneAnswer
  <2>6. ASSUME q[1].kind = "ack" PROVE Bears(q[1], a, at, f) /\ NoAnswers(t)
    <3>1. Bears(q[1], a, at, f) /\ \A j \in 1 .. n : q[j].kind = "ack" => j = 1
      BY <2>2, <2>3, <2>6
    <3>2. \A i \in 1 .. n - 1 : q[i + 1].kind # "ack"
      BY <2>3, <3>1
    <3> QED
      BY <2>1, <3>1, <3>2 DEF NoAnswers
  <2> QED
    BY <2>1, <2>5, <2>6 DEF t
<1> QED
  BY <1>1, <1>2, <1>3

\* The steps, as far as they concern an upload.
doing == << upload, answer, lastAck, flash, overlap, strays >>
Elsewhere == UNCHANGED << doing, cmds, uplink >>
OtherSent == UNCHANGED << doing, cmds >> /\ \E x \in Packets : x.kind # "ack" /\ Sent(x)
PacketLost == UNCHANGED << doing, cmds >> /\ uplink # << >> /\ uplink' = Tail(uplink)
CommandLost == UNCHANGED << doing, uplink >> /\ cmds # << >> /\ cmds' \in {Tail(cmds), << >>}
LEMMA UploadCases ==
  ASSUME AllOK, SensorsTypeOK', [DeviceNext]_vars
  PROVE  \/ Elsewhere \/ OtherSent \/ PacketLost \/ CommandLost \/ AssetsBoot \/ GdFlash \/ Dispatch
         \/ \E a \in Uploaders : Begin(a) \/ Proceed(a) \/ UploadEnds(a)
<1>1. BoardTypeOK /\ UplinkOK /\ AssetsOK /\ SensorsTypeOK
  BY DEF AllOK
<1>2. ASSUME UNCHANGED << assetVars, uplink >> PROVE Elsewhere
  BY <1>2 DEF assetVars, Elsewhere, doing
<1>3. ASSUME UNCHANGED assetVars, NEW x \in Packets, x.kind # "ack", Sent(x) PROVE OtherSent
  BY <1>3 DEF assetVars, OtherSent, doing
<1>4. CASE (WebRequest /\ UNCHANGED << buttonVars, assetVars, bodyVars >>) \/ WebStep \/ Timer \/ Answer
  BY <1>2, <1>4
     DEF WebRequest, PostSettings, PostWifi, PortalSave, PostReboot, PostUpdate, WebStep, RunJob, Apply,
         StartUpdate, PortalRuns, KeepGlobals, Connect, Timer, HoldDue, ClickDue, ClearDue, Answer, Resend,
         linkVars, boardVars
<1>5. CASE ButtonStep
  <2>1. CASE Press
    <3>1. Sent([kind |-> "press"])
      BY <2>1 DEF Press
    <3> QED
      BY <1>3, <1>5, <3>1, PacketFacts DEF ButtonStep
  <2>2. ASSUME NEW d \in 0 .. Long, LetGo(d) PROVE OtherSent
    <3>1. Sent([kind |-> "release", duration |-> d])
      BY <2>2 DEF LetGo
    <3> QED
      BY <1>3, <1>5, <3>1, PacketFacts DEF ButtonStep
  <2>3. CASE Elapse \/ (\E leds \in Lights : SetLeds(leds)) \/ (\E led \in Leds : SwitchLed(led))
    BY <1>2, <1>5, <2>3 DEF ButtonStep, Elapse, SetLeds, SwitchLed, boardVars
  <2> QED
    BY <1>5, <2>1, <2>2, <2>3 DEF ButtonStep
<1>6. CASE AssetStep
  <2>1. CASE PostAssets \/ RemoteAssets
    BY <2>1 DEF PostAssets, RemoteAssets, Uploaders
  <2>2. CASE NoRemoteAssets
    BY <1>2, <2>2 DEF NoRemoteAssets, linkVars
  <2>3. CASE Lose
    BY <2>3 DEF Lose, PacketLost, CommandLost, doing
  <2> QED
    BY <1>6, <2>1, <2>2, <2>3 DEF AssetStep, GdWrites, Advance
<1>7. CASE BodyStep
  <2>1. UNCHANGED << assetVars, uplink >>
    BY <1>7 DEF BodyStep, SensorStep, FetchSht, Plug, Notice, DrawCharge, Darken, Tap, ScreenStep, LocalScreen,
                Update, Change, Refresh, DrawEnds, linkVars, boardVars
  <2> QED
    BY <1>2, <2>1
<1>8. CASE Telemetry
  <2>1. Report \in Packets /\ Report.kind = "telemetry"
    BY <1>1, ReportFacts DEF Report
  <2> QED
    BY <1>3, <1>8, <2>1 DEF Telemetry
<1>9. CASE GdStarts
  BY <1>3, <1>9, PacketFacts DEF GdStarts
<1>10. CASE Restart
  <2>1. CASE Reboot \/ EspStarts \/ EnterStandby \/ PowerCut
    BY <2>1 DEF Reboot, EspStarts, EnterStandby, PowerCut, EspOff, EspBoots
  <2>2. CASE FlashEsp \/ Wake
    BY <1>2, <2>2 DEF FlashEsp, Wake, EspBoots, linkVars
  <2>3. CASE GdRestart
    BY <2>3 DEF GdRestart, Elsewhere, CommandLost, doing
  <2> QED
    BY <1>10, <2>1, <2>2, <2>3 DEF Restart
<1>11. CASE UNCHANGED vars
  BY <1>2, <1>11 DEF vars, boardVars
<1> QED
  BY <1>4, <1>5, <1>6, <1>7, <1>8, <1>9, <1>10, <1>11 DEF DeviceNext

LEMMA TalkGoesOn ==
  ASSUME NEW a, NEW u, NEW c \in Seq(Orders), NEW q \in Seq(Packets), NEW l, NEW f, Talk(a, u, c, q, l, f)
  PROVE  /\ Talk(a, u, c, << >>, l, f)
         /\ \A x \in Packets : x.kind # "ack" => Talk(a, u, c, Append(q, x), l, f)
         /\ c # << >> => Talk(a, u, << >>, q, l, f)
<1>1. CASE c = << Command(a, u.at, u.page) >> /\ l = NoAck /\ NoAnswers(q)
  BY <1>1, NoAnswersFacts, OneAnswerFacts DEF Talk
<1>2. CASE c = << >> /\ l = NoAck /\ OneAnswer(q, a, u.at, f)
  BY <1>2, NoAnswersFacts, OneAnswerFacts DEF Talk
<1>3. CASE c = << >> /\ Bears(l, a, u.at, f) /\ NoAnswers(q)
  BY <1>3, NoAnswersFacts DEF Talk
<1> QED
  BY <1>1, <1>2, <1>3 DEF Talk

LEMMA TalkShorter ==
  ASSUME NEW a, NEW u, NEW c \in Seq(Orders), NEW q \in Seq(Packets), q # << >>, NEW l, NEW f,
         Talk(a, u, c, q, l, f)
  PROVE  Talk(a, u, c, Tail(q), l, f)
<1>1. CASE c = << Command(a, u.at, u.page) >> /\ l = NoAck /\ NoAnswers(q)
  BY <1>1, NoAnswersFacts DEF Talk
<1>2. CASE c = << >> /\ l = NoAck /\ OneAnswer(q, a, u.at, f)
  BY <1>2, OneAnswerFacts DEF Talk
<1>3. CASE c = << >> /\ Bears(l, a, u.at, f) /\ NoAnswers(q)
  BY <1>3, NoAnswersFacts DEF Talk
<1> QED
  BY <1>1, <1>2, <1>3 DEF Talk

LEMMA TalkAnswered ==
  ASSUME NEW a, NEW u, NEW c, NEW q \in Seq(Packets), q # << >>, Head(q).kind = "ack", NEW l, NEW f,
         Talk(a, u, c, q, l, f)
  PROVE  Talk(a, u, c, Tail(q), [cmd |-> Head(q).cmd, ok |-> Head(q).ok], f)
<1>1. ~NoAnswers(q)
  BY NoAnswersFacts
<1>2. c = << >> /\ OneAnswer(q, a, u.at, f)
  BY <1>1 DEF Talk
<1>3. Bears(Head(q), a, u.at, f) /\ NoAnswers(Tail(q))
  BY <1>2, OneAnswerFacts
<1>4. Bears([cmd |-> Head(q).cmd, ok |-> Head(q).ok], a, u.at, f)
  BY <1>3 DEF Bears
<1> QED
  BY <1>2, <1>3, <1>4 DEF Talk

\* What an answer that was taken says.
LEMMA TalkHeard ==
  ASSUME NEW a, NEW u, u.at # "none", NEW c, NEW q, NEW l, l.cmd = u.at, NEW f, Talk(a, u, c, q, l, f)
  PROVE  c = << >> /\ NoAnswers(q) /\ Bears(l, a, u.at, f)
BY DEF Talk, NoAck

LEMMA TalkWritten ==
  ASSUME AllOK, NEW a \in Uploaders, GdFlash, Talk(a, upload[a], cmds, uplink, lastAck, flash)
  PROVE  Talk(a, upload[a], cmds', uplink', lastAck', flash')
<1> DEFINE u == upload[a]
           c == Command(a, u.at, u.page)
<1>1. uplink \in Seq(Packets) /\ cmds \in Seq(Orders)
  BY DEF AllOK, UplinkOK, AssetsOK
<1>2. cmds # << >> /\ cmds' = Tail(cmds) /\ lastAck' = lastAck
  BY DEF GdFlash
<1>3. cmds = << c >> /\ lastAck = NoAck /\ NoAnswers(uplink)
  BY <1>2 DEF Talk
<1>4. Head(cmds) = c /\ cmds' = << >>
  BY <1>2, <1>3
<1>5. c \in Orders
  BY <1>1, <1>2, <1>4, HeadTailProperties
<1>6. c.cmd = u.at /\ c.image = a
  BY DEF Command
<1>7. PICK good \in BOOLEAN :
        /\ c.cmd = "verify" => good = Holds(c.image)
        /\ Done(c, good)
        /\ Sent([kind |-> "ack", cmd |-> c.cmd, ok |-> good])
  BY <1>4 DEF GdFlash
<1> DEFINE x == [kind |-> "ack", cmd |-> c.cmd, ok |-> good]
<1>8. x \in Packets
  BY <1>5, OrderFacts, PacketFacts
<1> HIDE DEF c
<1>9. Bears(x, a, u.at, flash')
  <2>1. x.cmd = u.at /\ x.ok = good
    BY <1>6
  <2>2. ASSUME u.at = "verify", good PROVE \A p \in PageNumbers : flash'[p] = a
    <3>1. Holds(a)
      BY <1>6, <1>7, <2>2
    <3>2. flash' = flash
      BY <1>6, <1>7, <2>2 DEF Done
    <3> QED
      BY <3>1, <3>2 DEF Holds
  <2> QED
    BY <2>1, <2>2 DEF Bears
<1>10. uplink' = Append(uplink, x) \/ uplink' = << >>
  BY <1>7 DEF Sent
<1>11. OneAnswer(uplink', a, u.at, flash')
  BY <1>1, <1>3, <1>8, <1>9, <1>10, NoAnswersFacts, OneAnswerFacts
<1> QED
  BY <1>2, <1>3, <1>4, <1>11 DEF Talk

LEMMA WrittenStarts == DeviceInit => WrittenInv
<1> SUFFICES ASSUME DeviceInit PROVE WrittenInv
  OBVIOUS
<1>1. \A a \in Uploaders : ~Active(a)
  BY DEF DeviceInit, AssetsInit, Resting, Active
<1> QED
  BY <1>1 DEF WrittenInv

LEMMA WrittenStep == AllOK /\ AloneInv /\ WrittenInv /\ [DeviceNext]_vars => WrittenInv'
<1> SUFFICES ASSUME AllOK, AloneInv, WrittenInv, [DeviceNext]_vars,
                    NEW a \in Uploaders, Active(a)', ~overlap', ~strays'
             PROVE  Talk(a, upload'[a], cmds', uplink', lastAck', flash')
  BY DEF WrittenInv
<1>1. /\ uplink \in Seq(Packets) /\ cmds \in Seq(Orders)
      /\ upload \in [Uploaders -> [at : Stages, page : Nat]] /\ overlap \in BOOLEAN
  BY DEF AllOK, UplinkOK, AssetsOK, AloneInv
<1>2. ASSUME UNCHANGED << upload, overlap, strays >>
      PROVE  upload'[a] = upload[a] /\ Talk(a, upload[a], cmds, uplink, lastAck, flash)
  BY <1>2 DEF WrittenInv, Active
<1>3. CASE Elsewhere
  BY <1>2, <1>3 DEF Elsewhere, doing
<1>4. CASE OtherSent
  <2>1. PICK x \in Packets : x.kind # "ack" /\ Sent(x)
    BY <1>4 DEF OtherSent
  <2>2. UNCHANGED << upload, lastAck, flash, overlap, strays, cmds >>
    BY <1>4 DEF OtherSent, doing
  <2>3. Talk(a, upload[a], cmds, uplink, lastAck, flash)
    BY <1>2, <2>2
  <2>4. Talk(a, upload[a], cmds, Append(uplink, x), lastAck, flash)
        /\ Talk(a, upload[a], cmds, << >>, lastAck, flash)
    BY <1>1, <2>1, <2>3, TalkGoesOn
  <2>5. uplink' = Append(uplink, x) \/ uplink' = << >>
    BY <2>1 DEF Sent
  <2> QED
    BY <2>2, <2>4, <2>5
<1>5. CASE PacketLost
  BY <1>1, <1>2, <1>5, TalkShorter DEF PacketLost, doing
<1>6. CASE CommandLost
  <2>1. UNCHANGED << doing, uplink >> /\ cmds # << >> /\ cmds' \in {Tail(cmds), << >>}
    BY <1>6 DEF CommandLost
  <2>2. Talk(a, upload[a], cmds, uplink, lastAck, flash)
    BY <1>2, <2>1 DEF doing
  <2>3. cmds' = << >>
    <3>1. cmds = << Command(a, upload[a].at, upload[a].page) >>
      BY <2>1, <2>2 DEF Talk
    <3>2. Tail(cmds) = << >>
      BY <3>1
    <3> QED
      BY <2>1, <3>2
  <2>4. Talk(a, upload[a], << >>, uplink, lastAck, flash)
    BY <1>1, <2>1, <2>2, TalkGoesOn
  <2> QED
    BY <1>2, <2>1, <2>3, <2>4 DEF doing
<1>7. CASE AssetsBoot
  BY <1>7 DEF AssetsBoot, Active, Resting
<1>8. CASE GdFlash
  <2>1. UNCHANGED << upload, overlap, strays >>
    BY <1>8 DEF GdFlash
  <2> QED
    BY <1>2, <1>8, <2>1, TalkWritten
<1>9. CASE Dispatch
  <2> DEFINE x == Head(uplink)
  <2>1. /\ uplink # << >> /\ uplink' = Tail(uplink) /\ UNCHANGED << upload, cmds, flash, overlap, strays >>
        /\ lastAck' = IF x.kind = "ack" THEN [cmd |-> x.cmd, ok |-> x.ok] ELSE lastAck
    BY <1>9 DEF Dispatch, TakeAck
  <2>2. Talk(a, upload[a], cmds, uplink, lastAck, flash)
    BY <1>2, <2>1
  <2>3. CASE x.kind = "ack"
    BY <1>1, <1>2, <2>1, <2>2, <2>3, TalkAnswered
  <2>4. CASE x.kind # "ack"
    BY <1>1, <1>2, <2>1, <2>2, <2>4, TalkShorter
  <2> QED
    BY <2>3, <2>4
<1>10. ASSUME NEW b \in Uploaders, Begin(b) PROVE Talk(a, upload'[a], cmds', uplink', lastAck', flash')
  <2> DEFINE u == [at |-> "erase", page |-> 0]
  <2>1. /\ upload' = [upload EXCEPT ![b] = u] /\ overlap' = \E o \in Uploaders \ {b} : Active(o)
        /\ Send(Command(b, "erase", 0)) /\ strays' = (cmds # << >>)
        /\ lastAck' = NoAck /\ uplink' = << >>
    BY <1>10 DEF Begin
  <2>2. a = b
    BY <1>1, <2>1 DEF Active
  <2>3. cmds = << >>
    BY <2>1
  <2>4. upload'[a] = u /\ cmds' \in {<< Command(a, "erase", 0) >>, << >>}
    BY <1>1, <2>1, <2>2, <2>3 DEF Send
  <2>5. upload'[a].at = "erase" /\ upload'[a].page = 0
    BY <2>4
  <2> HIDE DEF u
  <2>6. NoAnswers(uplink') /\ OneAnswer(uplink', a, "erase", flash')
    BY <2>1, NoAnswersFacts, NoAnswersIsOne
  <2> QED
    BY <2>1, <2>4, <2>5, <2>6 DEF Talk
<1>11. ASSUME NEW b \in Uploaders, Proceed(b) PROVE Talk(a, upload'[a], cmds', uplink', lastAck', flash')
  <2> DEFINE u == Following(upload[b])
  <2>1. /\ Active(b) /\ lastAck.cmd = upload[b].at /\ upload' = [upload EXCEPT ![b] = u]
        /\ Send(Command(b, u.at, u.page)) /\ lastAck' = NoAck
        /\ UNCHANGED << uplink, overlap, strays >>
    BY <1>11 DEF Proceed, Answered, boardVars
  <2>2. a = b
    BY <1>1, <2>1, UploadersAre DEF Active, AloneInv
  <2>3. Talk(a, upload[a], cmds, uplink, lastAck, flash)
    BY <2>1, <2>2 DEF WrittenInv
  <2>4. upload[a].at # "none"
    BY <1>1 DEF Stages
  <2>5. cmds = << >> /\ NoAnswers(uplink)
    BY <2>1, <2>2, <2>3, <2>4, TalkHeard
  <2> HIDE DEF u
  <2>6. upload'[a] = u /\ cmds' \in {<< Command(a, u.at, u.page) >>, << >>}
    BY <1>1, <2>1, <2>2, <2>5 DEF Send
  <2>7. NoAnswers(uplink') /\ OneAnswer(uplink', a, u.at, flash')
    BY <2>1, <2>5, NoAnswersIsOne
  <2> QED
    BY <2>1, <2>6, <2>7 DEF Talk
<1>12. ASSUME NEW b \in Uploaders, UploadEnds(b) PROVE FALSE
  <2>1. /\ Active(b) /\ upload' = [upload EXCEPT ![b] = Resting]
        /\ overlap' = (overlap /\ \E o \in Uploaders \ {b} : Active(o))
    BY <1>12, EndIsReturn DEF Return
  <2>2. a # b /\ Active(a)
    BY <1>1, <2>1 DEF Active, Resting
  <2>3. ~overlap
    BY <1>1, <2>1, <2>2
  <2> QED
    BY <2>1, <2>2, <2>3, UploadersAre DEF AloneInv
<1>13. SensorsTypeOK'
  BY SensorsStep DEF AllOK
<1> QED
  BY <1>3, <1>4, <1>5, <1>6, <1>7, <1>8, <1>9, <1>10, <1>11, <1>12, <1>13, UploadCases

\* An upload that answers ok has left the whole of its assets in the flash, whatever was
\* lost, late or restarted on the way, for any number of pages: unless another ran with
\* it, or commands of an earlier one were still to be carried out when it began. With
\* neither, what is on its way at any time is one command or one answer, the upload's own.
THEOREM UploadsWritten == DeviceSpec => OkMeansWritten
<1>1. AllOK /\ AloneInv /\ WrittenInv /\ [DeviceNext]_vars
      => [\A a \in Uploaders : answer'[a] = "ok" /\ answer[a] # "ok" => overlap \/ strays \/ Holds(a)]_vars
  <2> SUFFICES ASSUME AllOK, AloneInv, WrittenInv, [DeviceNext]_vars, NEW a \in Uploaders,
                      answer'[a] = "ok", answer[a] # "ok", ~overlap, ~strays
               PROVE  Holds(a)
    OBVIOUS
  <2>1. answer \in [Uploaders -> {"none", "ok", "failed"}] /\ upload \in [Uploaders -> [at : Stages, page : Nat]]
    BY DEF AllOK, AssetsOK, AssetsTypeOK, AloneInv
  <2>2. ASSUME NEW b \in Uploaders, UploadEnds(b) PROVE Holds(a)
    <3>1. Verified(a)
      BY <2>1, <2>2, EndIsReturn DEF Return
    <3>2. Active(a) /\ upload[a].at = "verify" /\ lastAck.cmd = "verify" /\ lastAck.ok
      BY <3>1 DEF Verified, Answered
    <3>3. Talk(a, upload[a], cmds, uplink, lastAck, flash)
      BY <3>2 DEF WrittenInv
    <3>4. Bears(lastAck, a, "verify", flash)
      BY <3>2, <3>3, TalkHeard
    <3> QED
      BY <3>2, <3>4 DEF Bears, Holds
  <2>3. ~Elsewhere /\ ~OtherSent /\ ~PacketLost /\ ~CommandLost /\ ~AssetsBoot /\ ~GdFlash /\ ~Dispatch
    BY <2>1 DEF Elsewhere, OtherSent, PacketLost, CommandLost, doing, AssetsBoot, GdFlash, Dispatch
  <2>4. \A b \in Uploaders : ~Begin(b) /\ ~Proceed(b)
    BY <2>1 DEF Begin, Proceed
  <2>5. SensorsTypeOK'
    BY SensorsStep DEF AllOK
  <2> QED
    BY <2>2, <2>3, <2>4, <2>5, UploadCases
<1> QED
  BY <1>1, TypesStart, TypesStep, AloneStarts, AloneStep, WrittenStarts, WrittenStep, PTL
     DEF DeviceSpec, OkMeansWritten

-----------------------------------------------------------------------------
(***************************************************************************)
(* What is done with the button is told: GesturesTold, for any budgets and *)
(* whatever is lost, late or restarted.  The argument follows the edges on *)
(* their way to the ESP32.  HoldsInv: a hold that may yet be told and each *)
(* press on its way have a press of their own.  ToldInv, unless something  *)
(* was lost or late: the timers are where the press under way has to have  *)
(* them, and what is neither told nor counted is on its way.               *)
(***************************************************************************)

-----------------------------------------------------------------------------
(* The edges of the button on their way. *)

Edge(p) == p.kind \in {"press", "release"}
Durations == 0 .. Long
Downs == {p \in Packets : p.kind = "press"}
Ups(durations) == {p \in Packets : p.kind = "release" /\ p.duration \in durations}

\* How many packets of q are in K.
PlacesOf(q, K) == {i \in 1 .. Len(q) : q[i] \in K}
Count(q, K) == Cardinality(PlacesOf(q, K))

\* After place i of q the next edge is in K; no edge comes.
NextIn(q, i, K) == \E k \in i + 1 .. Len(q) : q[k] \in K /\ \A m \in i + 1 .. k - 1 : ~Edge(q[m])
QuietFrom(q, i) == \A m \in i + 1 .. Len(q) : ~Edge(q[m])

\* Every edge of q in K is followed by one in L, or is the last where that may be.
Chain(q, K, L, last) ==
  \A i \in 1 .. Len(q) : q[i] \in K => NextIn(q, i, L) \/ (last /\ QuietFrom(q, i))

LEMMA EdgeSets ==
  /\ \A p \in Downs : Edge(p)
  /\ \A D : \A p \in Ups(D) : Edge(p)
  /\ \A p \in Packets : Edge(p) => p \in Downs \/ p \in Ups(Durations)
BY PacketFacts DEF Edge, Downs, Ups, Durations

LEMMA CountFacts ==
  ASSUME NEW S, NEW q \in Seq(S), NEW K
  PROVE  /\ IsFiniteSet(PlacesOf(q, K)) /\ Count(q, K) \in Nat
         /\ (\A i \in 1 .. Len(q) : q[i] \notin K) => Count(q, K) = 0
<1>1. Len(q) \in Nat /\ IsFiniteSet(1 .. Len(q)) /\ PlacesOf(q, K) \in SUBSET (1 .. Len(q))
  <2>1. Len(q) \in Nat /\ PlacesOf(q, K) \in SUBSET (1 .. Len(q))
    BY LenProperties DEF PlacesOf
  <2> QED
    BY <2>1, FS_Interval
<1>2. IsFiniteSet(PlacesOf(q, K))
  BY <1>1, FS_Subset
<1>3. (\A i \in 1 .. Len(q) : q[i] \notin K) => PlacesOf(q, K) = {}
  BY DEF PlacesOf
<1> QED
  BY <1>2, <1>3, FS_CardinalityType, FS_EmptySet DEF Count

LEMMA CountMore ==
  ASSUME NEW S, NEW q \in Seq(S), NEW x \in S, NEW K
  PROVE  Count(Append(q, x), K) = Count(q, K) + IF x \in K THEN 1 ELSE 0
<1> DEFINE n == Len(q)
           r == Append(q, x)
<1>1. n \in Nat /\ Len(r) = n + 1 /\ r[n + 1] = x /\ \A i \in 1 .. n : r[i] = q[i]
  BY OneMore
<1> HIDE DEF n, r
<1>2. 1 .. n + 1 = (1 .. n) \cup {n + 1} /\ n + 1 \notin 1 .. n
  BY <1>1
<1>3. PlacesOf(r, K) = IF x \in K THEN PlacesOf(q, K) \cup {n + 1} ELSE PlacesOf(q, K)
  <2>1. PlacesOf(r, K) = {i \in (1 .. n) \cup {n + 1} : r[i] \in K} /\ PlacesOf(q, K) = {i \in 1 .. n : q[i] \in K}
    BY <1>1, <1>2 DEF PlacesOf, n
  <2> QED
    BY <1>1, <1>2, <2>1
<1>4. n + 1 \notin PlacesOf(q, K)
  BY <1>2 DEF PlacesOf, n
<1>5. IsFiniteSet(PlacesOf(q, K)) /\ Cardinality(PlacesOf(q, K)) \in Nat
  BY CountFacts DEF Count
<1>6. Cardinality(PlacesOf(q, K) \cup {n + 1}) = Cardinality(PlacesOf(q, K)) + 1
  BY <1>4, <1>5, FS_AddElement
<1>7. CASE x \in K
  BY <1>3, <1>6, <1>7 DEF Count, r
<1>8. CASE x \notin K
  BY <1>3, <1>5, <1>8 DEF Count, r
<1> QED
  BY <1>7, <1>8

LEMMA CountLess ==
  ASSUME NEW S, NEW q \in Seq(S), q # << >>, NEW K
  PROVE  Count(q, K) = Count(Tail(q), K) + IF q[1] \in K THEN 1 ELSE 0
<1> DEFINE n == Len(q)
           r == Tail(q)
           P == PlacesOf(q, K)
           f == [i \in P \ {1} |-> i - 1]
<1>1. n \in Nat \ {0} /\ r \in Seq(S) /\ Len(r) = n - 1 /\ \A i \in 1 .. n - 1 : r[i] = q[i + 1]
  BY BehindFirst
<1> HIDE DEF n, r
<1>2. P = {i \in 1 .. n : q[i] \in K} /\ PlacesOf(r, K) = {i \in 1 .. n - 1 : r[i] \in K}
  BY <1>1 DEF PlacesOf, n
<1>3. 1 \in P <=> q[1] \in K
  BY <1>1, <1>2
<1>4. IsFiniteSet(P) /\ Cardinality(P) \in Nat
  BY CountFacts DEF Count
<1>5. IsFiniteSet(P \ {1}) /\ Cardinality(P \ {1}) = IF 1 \in P THEN Cardinality(P) - 1 ELSE Cardinality(P)
  BY <1>4, FS_RemoveElement
<1>6. f \in Bijection(P \ {1}, PlacesOf(r, K))
  <2>1. \A i \in P \ {1} : i \in 2 .. n /\ i - 1 \in 1 .. n - 1 /\ r[i - 1] = q[i] /\ q[i] \in K
    BY <1>1, <1>2
  <2>2. f \in [P \ {1} -> PlacesOf(r, K)]
    BY <1>2, <2>1
  <2>3. \A a, b \in P \ {1} : f[a] = f[b] => a = b
    BY <2>1
  <2>4. \A t \in PlacesOf(r, K) : t + 1 \in P \ {1} /\ f[t + 1] = t
    BY <1>1, <1>2
  <2> HIDE DEF f
  <2>5. \A t \in PlacesOf(r, K) : \E s \in P \ {1} : f[s] = t
    BY <2>4
  <2> QED
    BY <2>2, <2>3, <2>5, Fun_IsBij
<1>7. Cardinality(PlacesOf(r, K)) = Cardinality(P \ {1})
  <2>1. ExistsBijection(P \ {1}, PlacesOf(r, K))
    BY <1>6, Fun_ExistsBij
  <2> QED
    BY <1>5, <2>1, FS_Bijection
<1> HIDE DEF P
<1>8. CASE q[1] \in K
  BY <1>3, <1>4, <1>5, <1>7, <1>8 DEF Count, P, r
<1>9. CASE q[1] \notin K
  BY <1>3, <1>4, <1>5, <1>7, <1>9 DEF Count, P, r
<1> QED
  BY <1>8, <1>9

LEMMA NextAppended ==
  ASSUME NEW S, NEW q \in Seq(S), NEW x \in S, NEW i \in 0 .. Len(q)
  PROVE  /\ QuietFrom(Append(q, x), i) <=> QuietFrom(q, i) /\ ~Edge(x)
         /\ \A K : NextIn(Append(q, x), i, K) <=> NextIn(q, i, K) \/ (QuietFrom(q, i) /\ x \in K)
<1> DEFINE n == Len(q)
           r == Append(q, x)
<1>1. n \in Nat /\ Len(r) = n + 1 /\ r[n + 1] = x /\ \A k \in 1 .. n : r[k] = q[k]
  BY OneMore
<1>2. i \in 0 .. n
  OBVIOUS
<1> HIDE DEF n, r
<1>3. i + 1 .. n + 1 = (i + 1 .. n) \cup {n + 1} /\ i + 1 .. n \subseteq 1 .. n
  BY <1>1, <1>2
<1>4. QuietFrom(r, i) <=> (\A m \in i + 1 .. n : ~Edge(r[m])) /\ ~Edge(x)
  BY <1>1, <1>3 DEF QuietFrom
<1>5. (\A m \in i + 1 .. n : ~Edge(r[m])) <=> QuietFrom(q, i)
  BY <1>1, <1>3 DEF QuietFrom, n
<1>6. ASSUME NEW K, NextIn(q, i, K) PROVE NextIn(r, i, K)
  <2>1. PICK k \in i + 1 .. n : q[k] \in K /\ \A m \in i + 1 .. k - 1 : ~Edge(q[m])
    BY <1>6 DEF NextIn, n
  <2>2. k \in i + 1 .. n + 1 /\ i + 1 .. k - 1 \subseteq 1 .. n
    BY <1>1, <1>2
  <2>3. r[k] \in K /\ \A m \in i + 1 .. k - 1 : ~Edge(r[m])
    BY <1>1, <1>3, <2>1, <2>2
  <2> QED
    BY <1>1, <2>2, <2>3 DEF NextIn
<1>7. ASSUME NEW K, QuietFrom(q, i), x \in K PROVE NextIn(r, i, K)
  <2>1. n + 1 \in i + 1 .. n + 1 /\ (n + 1) - 1 = n
    BY <1>1, <1>2
  <2>2. \A m \in i + 1 .. n : ~Edge(r[m])
    BY <1>5, <1>7
  <2> QED
    BY <1>1, <1>7, <2>1, <2>2 DEF NextIn
<1>8. ASSUME NEW K, NextIn(r, i, K) PROVE NextIn(q, i, K) \/ (QuietFrom(q, i) /\ x \in K)
  <2>1. PICK k \in i + 1 .. n + 1 : r[k] \in K /\ \A m \in i + 1 .. k - 1 : ~Edge(r[m])
    BY <1>1, <1>8 DEF NextIn
  <2>2. CASE k = n + 1
    <3>1. (n + 1) - 1 = n
      BY <1>1
    <3> QED
      BY <1>1, <1>5, <2>1, <2>2, <3>1
  <2>3. CASE k # n + 1
    <3>1. k \in i + 1 .. n /\ i + 1 .. k - 1 \subseteq 1 .. n
      BY <1>1, <1>2, <1>3, <2>3
    <3>2. q[k] \in K /\ \A m \in i + 1 .. k - 1 : ~Edge(q[m])
      BY <1>1, <1>3, <2>1, <3>1
    <3> QED
      BY <3>1, <3>2 DEF NextIn, n
  <2> QED
    BY <2>2, <2>3
<1> QED
  BY <1>4, <1>5, <1>6, <1>7, <1>8 DEF r

LEMMA NextBehind ==
  ASSUME NEW S, NEW q \in Seq(S), q # << >>, NEW i \in 0 .. Len(q) - 1
  PROVE  /\ QuietFrom(Tail(q), i) <=> QuietFrom(q, i + 1)
         /\ \A K : NextIn(Tail(q), i, K) <=> NextIn(q, i + 1, K)
<1> DEFINE n == Len(q)
           t == Tail(q)
<1>1. n \in Nat \ {0} /\ Len(t) = n - 1 /\ \A k \in 1 .. n - 1 : t[k] = q[k + 1]
  BY BehindFirst
<1>2. i \in 0 .. n - 1
  OBVIOUS
<1> HIDE DEF n, t
<1>3. /\ \A k \in i + 1 .. n - 1 : k \in 1 .. n - 1 /\ k + 1 \in (i + 1) + 1 .. n
      /\ \A k \in (i + 1) + 1 .. n : k - 1 \in i + 1 .. n - 1 /\ k - 1 \in 1 .. n - 1 /\ (k - 1) + 1 = k
  BY <1>1, <1>2
<1>4. QuietFrom(t, i) <=> QuietFrom(q, i + 1)
  <2>1. QuietFrom(t, i) <=> \A k \in i + 1 .. n - 1 : ~Edge(q[k + 1])
    BY <1>1, <1>3 DEF QuietFrom
  <2>2. QuietFrom(q, i + 1) <=> \A k \in (i + 1) + 1 .. n : ~Edge(q[k])
    BY DEF QuietFrom, n
  <2> QED
    BY <1>3, <2>1, <2>2
<1>5. ASSUME NEW K, NextIn(t, i, K) PROVE NextIn(q, i + 1, K)
  <2>1. PICK k \in i + 1 .. n - 1 : t[k] \in K /\ \A m \in i + 1 .. k - 1 : ~Edge(t[m])
    BY <1>1, <1>5 DEF NextIn
  <2>2. k + 1 \in (i + 1) + 1 .. n /\ q[k + 1] \in K
    BY <1>1, <1>3, <2>1
  <2>3. ASSUME NEW m \in (i + 1) + 1 .. (k + 1) - 1 PROVE ~Edge(q[m])
    <3>1. m - 1 \in i + 1 .. k - 1 /\ m - 1 \in 1 .. n - 1 /\ (m - 1) + 1 = m
      BY <1>1, <1>2
    <3> QED
      BY <1>1, <2>1, <3>1
  <2> QED
    BY <2>2, <2>3 DEF NextIn, n
<1>6. ASSUME NEW K, NextIn(q, i + 1, K) PROVE NextIn(t, i, K)
  <2>1. PICK k \in (i + 1) + 1 .. n : q[k] \in K /\ \A m \in (i + 1) + 1 .. k - 1 : ~Edge(q[m])
    BY <1>6 DEF NextIn, n
  <2>2. k - 1 \in i + 1 .. n - 1 /\ t[k - 1] \in K
    BY <1>1, <1>3, <2>1
  <2>3. ASSUME NEW m \in i + 1 .. (k - 1) - 1 PROVE ~Edge(t[m])
    <3>1. m + 1 \in (i + 1) + 1 .. k - 1 /\ m \in 1 .. n - 1
      BY <1>1, <1>2
    <3> QED
      BY <1>1, <2>1, <3>1
  <2> QED
    BY <1>1, <2>2, <2>3 DEF NextIn
<1> QED
  BY <1>4, <1>5, <1>6 DEF t

LEMMA NextAtHead ==
  ASSUME NEW S, NEW q \in Seq(S), q # << >>
  PROVE  /\ QuietFrom(q, 0) <=> ~Edge(q[1]) /\ QuietFrom(Tail(q), 0)
         /\ \A K : NextIn(q, 0, K) <=> q[1] \in K \/ (~Edge(q[1]) /\ NextIn(Tail(q), 0, K))
<1> DEFINE n == Len(q)
<1>1. n \in Nat \ {0}
  BY BehindFirst
<1>2. /\ QuietFrom(Tail(q), 0) <=> QuietFrom(q, 1)
      /\ \A K : NextIn(Tail(q), 0, K) <=> NextIn(q, 1, K)
  <2>1. 0 \in 0 .. Len(q) - 1 /\ 0 + 1 = 1
    BY <1>1
  <2> QED
    BY <2>1, NextBehind
<1> HIDE DEF n
<1>3. 0 + 1 = 1 /\ 1 .. n = {1} \cup (2 .. n) /\ 1 + 1 = 2
  BY <1>1
<1>4. QuietFrom(q, 0) <=> ~Edge(q[1]) /\ QuietFrom(q, 1)
  BY <1>3 DEF QuietFrom, n
<1>5. ASSUME NEW K, q[1] \in K PROVE NextIn(q, 0, K)
  <2>1. 1 \in 1 .. n /\ 1 .. 1 - 1 = {}
    BY <1>1
  <2> QED
    BY <1>3, <1>5, <2>1 DEF NextIn, n
<1>6. ASSUME NEW K, ~Edge(q[1]), NextIn(q, 1, K) PROVE NextIn(q, 0, K)
  <2>1. PICK k \in 2 .. n : q[k] \in K /\ \A m \in 2 .. k - 1 : ~Edge(q[m])
    BY <1>3, <1>6 DEF NextIn, n
  <2>2. k \in 1 .. n /\ \A m \in 1 .. k - 1 : m = 1 \/ m \in 2 .. k - 1
    BY <1>1
  <2> QED
    BY <1>3, <1>6, <2>1, <2>2 DEF NextIn, n
<1>7. ASSUME NEW K, NextIn(q, 0, K), q[1] \notin K PROVE ~Edge(q[1]) /\ NextIn(q, 1, K)
  <2>1. PICK k \in 1 .. n : q[k] \in K /\ \A m \in 1 .. k - 1 : ~Edge(q[m])
    BY <1>3, <1>7 DEF NextIn, n
  <2>2. k # 1
    BY <1>7, <2>1
  <2>3. k \in 2 .. n /\ 1 \in 1 .. k - 1 /\ 2 .. k - 1 \subseteq 1 .. k - 1
    BY <1>1, <2>2
  <2> QED
    BY <1>3, <2>1, <2>3 DEF NextIn, n
<1> QED
  BY <1>2, <1>4, <1>5, <1>6, <1>7

\* The next edge is one.
LEMMA OneNext ==
  ASSUME NEW S, NEW q \in Seq(S), NEW i \in Nat
  PROVE  /\ \A K, L : (\A p \in K \cup L : Edge(p)) /\ NextIn(q, i, K) /\ NextIn(q, i, L) => NextIn(q, i, K \cap L)
         /\ \A K : (\A p \in K : Edge(p)) /\ NextIn(q, i, K) => ~QuietFrom(q, i)
         /\ \A K : \A L : NextIn(q, i, K \cup L) => NextIn(q, i, K) \/ NextIn(q, i, L)
         /\ \A K : \A L \in SUBSET K : NextIn(q, i, L) => NextIn(q, i, K)
<1>0. Len(q) \in Nat
  BY LenProperties
<1>1. ASSUME NEW K, NEW L, \A p \in K \cup L : Edge(p), NextIn(q, i, K), NextIn(q, i, L)
      PROVE  NextIn(q, i, K \cap L)
  <2>1. PICK k \in i + 1 .. Len(q) : q[k] \in K /\ \A m \in i + 1 .. k - 1 : ~Edge(q[m])
    BY <1>1 DEF NextIn
  <2>2. PICK l \in i + 1 .. Len(q) : q[l] \in L /\ \A m \in i + 1 .. l - 1 : ~Edge(q[m])
    BY <1>1 DEF NextIn
  <2>3. k \notin i + 1 .. l - 1 /\ l \notin i + 1 .. k - 1
    BY <1>1, <2>1, <2>2
  <2>4. k = l
    BY <1>0, <2>3
  <2> QED
    BY <2>1, <2>2, <2>4 DEF NextIn
<1>2. ASSUME NEW K, \A p \in K : Edge(p), NextIn(q, i, K) PROVE ~QuietFrom(q, i)
  BY <1>2 DEF NextIn, QuietFrom
<1>3. ASSUME NEW K, NEW L, NextIn(q, i, K \cup L) PROVE NextIn(q, i, K) \/ NextIn(q, i, L)
  BY <1>3 DEF NextIn
<1>4. ASSUME NEW K, NEW L \in SUBSET K, NextIn(q, i, L) PROVE NextIn(q, i, K)
  BY <1>4 DEF NextIn
<1> QED
  BY <1>1, <1>2, <1>3, <1>4

LEMMA QuietCounts ==
  ASSUME NEW S, NEW q \in Seq(S), NEW K, \A p \in K : Edge(p), QuietFrom(q, 0)
  PROVE  Count(q, K) = 0 /\ ~NextIn(q, 0, K)
<1>1. \A i \in 1 .. Len(q) : q[i] \notin K
  BY DEF QuietFrom
<1> QED
  BY <1>1, CountFacts DEF NextIn

LEMMA NothingThere ==
  \A K : /\ QuietFrom(<< >>, 0) /\ ~NextIn(<< >>, 0, K) /\ Count(<< >>, K) = 0
         /\ \A L, last : Chain(<< >>, K, L, last)
<1> SUFFICES ASSUME NEW K
             PROVE  /\ QuietFrom(<< >>, 0) /\ ~NextIn(<< >>, 0, K) /\ Count(<< >>, K) = 0
                    /\ \A L, last : Chain(<< >>, K, L, last)
  OBVIOUS
<1>1. Len(<< >>) = 0 /\ 1 .. 0 = {} /\ 0 + 1 = 1
  OBVIOUS
<1>2. PlacesOf(<< >>, K) = {}
  BY <1>1 DEF PlacesOf
<1> QED
  BY <1>1, <1>2, FS_EmptySet DEF QuietFrom, NextIn, Count, Chain

LEMMA ChainAppended ==
  ASSUME NEW S, NEW q \in Seq(S), NEW x \in S, NEW K, NEW L, NEW was \in BOOLEAN, NEW is \in BOOLEAN,
         Chain(q, K, L, was),
         \/ ~Edge(x) /\ x \notin K /\ (was => is)
         \/ Edge(x) /\ (x \in K => is) /\ (was => x \in L)
  PROVE  Chain(Append(q, x), K, L, is)
<1> DEFINE n == Len(q)
           r == Append(q, x)
<1>1. n \in Nat /\ r \in Seq(S) /\ Len(r) = n + 1 /\ r[n + 1] = x /\ \A k \in 1 .. n : r[k] = q[k]
  BY OneMore
<1>2. ASSUME NEW i \in 1 .. n, q[i] \in K PROVE NextIn(r, i, L) \/ (is /\ QuietFrom(r, i))
  <2>1. i \in 0 .. Len(q)
    OBVIOUS
  <2>2. NextIn(q, i, L) \/ (was /\ QuietFrom(q, i))
    BY <1>2 DEF Chain
  <2>3. /\ QuietFrom(r, i) <=> QuietFrom(q, i) /\ ~Edge(x)
        /\ NextIn(r, i, L) <=> NextIn(q, i, L) \/ (QuietFrom(q, i) /\ x \in L)
    BY <2>1, NextAppended
  <2> QED
    BY <2>2, <2>3
<1>3. ASSUME x \in K PROVE is /\ QuietFrom(r, n + 1)
  BY <1>1, <1>3 DEF QuietFrom
<1> HIDE DEF n, r
<1>4. \A i \in 1 .. n + 1 : i \in 1 .. n \/ i = n + 1
  BY <1>1
<1> QED
  BY <1>1, <1>2, <1>3, <1>4 DEF Chain, r

LEMMA ChainBehind ==
  ASSUME NEW S, NEW q \in Seq(S), q # << >>, NEW K, NEW L, NEW last, Chain(q, K, L, last)
  PROVE  /\ Chain(Tail(q), K, L, last)
         /\ q[1] \in K => NextIn(Tail(q), 0, L) \/ (last /\ QuietFrom(Tail(q), 0))
<1> DEFINE n == Len(q)
           t == Tail(q)
<1>1. n \in Nat \ {0} /\ Len(t) = n - 1 /\ \A k \in 1 .. n - 1 : t[k] = q[k + 1]
  BY BehindFirst
<1>2. \A i \in 0 .. n - 1 : /\ QuietFrom(t, i) <=> QuietFrom(q, i + 1)
                            /\ NextIn(t, i, L) <=> NextIn(q, i + 1, L)
  BY NextBehind
<1>3. \A i \in 1 .. n : q[i] \in K => NextIn(q, i, L) \/ (last /\ QuietFrom(q, i))
  BY DEF Chain
<1> HIDE DEF n, t
<1>4. 1 \in 1 .. n /\ 0 \in 0 .. n - 1 /\ 0 + 1 = 1 /\ \A i \in 1 .. n - 1 : i \in 0 .. n - 1 /\ i + 1 \in 1 .. n
  BY <1>1
<1>5. q[1] \in K => NextIn(t, 0, L) \/ (last /\ QuietFrom(t, 0))
  BY <1>2, <1>3, <1>4
<1>6. ASSUME NEW i \in 1 .. n - 1, t[i] \in K PROVE NextIn(t, i, L) \/ (last /\ QuietFrom(t, i))
  BY <1>1, <1>2, <1>3, <1>4, <1>6
<1> QED
  BY <1>1, <1>5, <1>6 DEF Chain, t

LEMMA ChainQuiet ==
  ASSUME NEW q, NEW K, NEW L, NEW last, \A p \in K : Edge(p), QuietFrom(q, 0)
  PROVE  Chain(q, K, L, last)
BY DEF Chain, QuietFrom

-----------------------------------------------------------------------------
(* The steps, as far as they concern a gesture. *)

sofar == << held, hold, click, fired, clicks, presses, taps, holds, longs, told >>

Aside == UNCHANGED << sofar, uplink, disturbed >> /\ (On => On')
Behind == /\ UNCHANGED << sofar, disturbed >> /\ On' = On
          /\ \E x \in Packets : ~Edge(x) /\ Sent(x)
OneLost == /\ UNCHANGED sofar /\ (On => On')
           /\ uplink # << >> /\ uplink' = Tail(uplink) /\ disturbed' = (disturbed \/ Edges)
AllLost == UNCHANGED sofar /\ uplink' = << >> /\ disturbed' = (disturbed \/ Edges)
EspAnew == /\ uplink' = << >> /\ held' \in {held, 0}
           /\ hold' = 0 /\ click' = 0 /\ fired' = FALSE /\ clicks' = 0
           /\ disturbed' /\ longs' = 0 /\ told' = 0 /\ UNCHANGED presses
GdAnew == /\ held' = 0 /\ disturbed' /\ On' = On
          /\ UNCHANGED << uplink, hold, click, fired, clicks, presses, taps, holds, longs, told >>

LEMMA GestureCases ==
  ASSUME AllOK, SensorsTypeOK', [DeviceNext]_vars
  PROVE  \/ Aside \/ Behind \/ OneLost \/ AllLost \/ EspAnew \/ GdAnew
         \/ Press \/ (\E d \in 0 .. Long : LetGo(d)) \/ Elapse \/ HoldDue \/ ClickDue \/ Dispatch
<1>1. BoardTypeOK /\ UplinkOK /\ AssetsOK /\ SensorsTypeOK
  BY DEF AllOK
<1>2. ASSUME UNCHANGED << buttonVars, uplink >>, On => On' PROVE Aside
  BY <1>2 DEF buttonVars, Aside, sofar
<1>3. ASSUME UNCHANGED << buttonVars, esp >>, NEW x \in Packets, ~Edge(x), Sent(x) PROVE Behind
  BY <1>3 DEF buttonVars, Behind, sofar, On
<1>4. CASE WebRequest /\ UNCHANGED << buttonVars, assetVars, bodyVars >>
  <2>1. UNCHANGED << esp, uplink >>
    BY <1>4 DEF WebRequest, PostSettings, PostWifi, PortalSave, PostReboot, PostUpdate, linkVars, boardVars
  <2> QED
    BY <1>2, <1>4, <2>1 DEF On
<1>5. CASE WebStep
  <2>1. UNCHANGED uplink
    BY <1>5 DEF WebStep, RunJob, Apply, StartUpdate, PortalRuns, KeepGlobals, Connect,
           linkVars, boardVars
  <2>2. UNCHANGED esp \/ esp' \in {"free", "job", "upload"}
    BY <1>5 DEF WebStep, RunJob, Apply, StartUpdate, PortalRuns, KeepGlobals, Connect,
           linkVars, boardVars
  <2> QED
    BY <1>2, <1>5, <2>1, <2>2 DEF WebStep, On
<1>6. CASE Timer
  <2>1. CASE ClearDue
    BY <2>1 DEF ClearDue, Aside, sofar, counts, boardVars, On
  <2> QED
    BY <1>6, <2>1 DEF Timer
<1>7. CASE Answer
  <2>1. UNCHANGED << sofar, uplink, disturbed >>
    BY <1>7 DEF Answer, Resend, counts, sofar
  <2>2. On => On'
    BY <1>7 DEF Answer, Frame, On
  <2> QED
    BY <2>1, <2>2 DEF Aside
<1>8. CASE ButtonStep
  <2>1. ASSUME NEW leds \in Lights, SetLeds(leds) PROVE Aside
    BY <1>2, <2>1 DEF SetLeds, On
  <2>2. ASSUME NEW led \in Leds, SwitchLed(led) PROVE Aside
    BY <2>2 DEF SwitchLed, Aside, sofar, counts, On
  <2> QED
    BY <1>8, <2>1, <2>2 DEF ButtonStep
<1>9. CASE AssetStep
  <2>1. ASSUME NEW some, EdgesLost(some) PROVE UNCHANGED sofar /\ disturbed' = (disturbed \/ (some /\ Edges))
    BY <2>1 DEF EdgesLost, sofar, counts
  <2>2. CASE PostAssets \/ RemoteAssets
    <3>1. uplink' = << >> /\ EdgesLost(TRUE)
      BY <2>2 DEF PostAssets, RemoteAssets, Begin
    <3> QED
      BY <2>1, <3>1 DEF AllLost
  <2>3. CASE NoRemoteAssets
    BY <1>2, <2>3 DEF NoRemoteAssets, linkVars, On
  <2>4. CASE GdWrites
    <3>1. Head(cmds) \in Orders
      BY <1>1, <2>4, HeadTailProperties DEF GdWrites, GdFlash, AssetsOK
    <3>2. PICK good \in BOOLEAN : Sent([kind |-> "ack", cmd |-> Head(cmds).cmd, ok |-> good])
      BY <2>4 DEF GdWrites, GdFlash
    <3>3. [kind |-> "ack", cmd |-> Head(cmds).cmd, ok |-> good] \in Packets
      BY <3>1, OrderFacts, PacketFacts
    <3>4. UNCHANGED << buttonVars, esp >>
      BY <2>4 DEF GdWrites, GdFlash
    <3> QED
      BY <1>3, <3>2, <3>3, <3>4 DEF Edge
  <2>5. ASSUME NEW a \in Uploaders, Advance(a) PROVE Aside
    <3>1. UNCHANGED << buttonVars, uplink >> /\ (On => On')
      BY <2>5 DEF Advance, Proceed, boardVars, On
    <3> QED
      BY <1>2, <3>1
  <2>6. ASSUME EdgesLost(uplink' # uplink), On => On',
               (uplink # << >> /\ uplink' = Tail(uplink)) \/ UNCHANGED uplink
        PROVE  Aside \/ OneLost
    <3>1. CASE uplink' = uplink
      <4>1. UNCHANGED sofar /\ disturbed' = (disturbed \/ (FALSE /\ Edges))
        BY <2>1, <2>6, <3>1
      <4>2. disturbed \in BOOLEAN
        BY DEF AllOK, ButtonsTypeOK
      <4> QED
        BY <2>6, <3>1, <4>1, <4>2 DEF Aside
    <3>2. CASE uplink' # uplink
      <4>1. UNCHANGED sofar /\ disturbed' = (disturbed \/ (TRUE /\ Edges))
        BY <2>1, <2>6, <3>2
      <4> QED
        BY <2>6, <3>2, <4>1 DEF OneLost
    <3> QED
      BY <3>1, <3>2
  <2>7. ASSUME NEW a \in Uploaders, UploadEnds(a) PROVE Aside \/ OneLost
    <3>1. EdgesLost(uplink' # uplink) /\ (On => On')
      BY <2>7 DEF UploadEnds, On
    <3> QED
      BY <2>6, <2>7, <3>1, EndIsReturn
  <2>8. CASE Lose /\ EdgesLost(uplink' # uplink)
    <3>1. UNCHANGED esp /\ ((uplink # << >> /\ uplink' = Tail(uplink)) \/ UNCHANGED uplink)
      BY <2>8 DEF Lose
    <3> QED
      BY <2>6, <2>8, <3>1 DEF On
  <2> QED
    BY <1>9, <2>2, <2>3, <2>4, <2>5, <2>7, <2>8 DEF AssetStep
<1>10. CASE BodyStep
  <2>1. UNCHANGED << buttonVars, uplink >>
    BY <1>10 DEF BodyStep, SensorStep, FetchSht, Plug, Notice, DrawCharge, Darken, Tap, ScreenStep, LocalScreen,
                 Update, Change, Refresh, DrawEnds, linkVars, boardVars
  <2>2. On => On'
    BY <1>10 DEF BodyStep, SensorStep, FetchSht, Plug, Notice, DrawCharge, Darken, Tap, ScreenStep, LocalScreen,
                 Update, Change, Refresh, DrawEnds, Frame, linkVars, boardVars, On
  <2> QED
    BY <1>2, <2>1, <2>2
<1>11. CASE Telemetry
  <2>1. Report \in Packets /\ Report.kind = "telemetry"
    BY <1>1, ReportFacts DEF Report
  <2> QED
    BY <1>3, <1>11, <2>1 DEF Telemetry, Edge
<1>12. CASE GdStarts
  BY <1>3, <1>12, PacketFacts DEF GdStarts, Edge
<1>13. CASE Restart
  <2>1. ASSUME EspBoots(TRUE) \/ EspBoots(FALSE) PROVE EspAnew
    BY <2>1 DEF EspBoots, ButtonsBoot, EspAnew
  <2>2. CASE Reboot \/ EspStarts
    BY <2>1, <2>2 DEF Reboot, EspStarts
  <2>3. CASE FlashEsp
    BY <1>2, <2>1, <2>3 DEF FlashEsp, linkVars, On
  <2>4. CASE EnterStandby \/ PowerCut
    BY <2>4 DEF EnterStandby, PowerCut, EspOff, ButtonsBoot, EspAnew
  <2>5. CASE Wake
    BY <1>2, <2>5 DEF Wake, On
  <2>6. CASE GdRestart
    BY <2>6 DEF GdRestart, GdAnew, counts, On
  <2> QED
    BY <1>13, <2>2, <2>3, <2>4, <2>5, <2>6 DEF Restart
<1>14. CASE UNCHANGED vars
  BY <1>2, <1>14 DEF vars, boardVars, On
<1> QED
  BY <1>4, <1>5, <1>6, <1>7, <1>8, <1>9, <1>10, <1>11, <1>12, <1>13, <1>14 DEF DeviceNext

-----------------------------------------------------------------------------
(* No press is told as a hold twice: a hold that is still to be told has its   *)
(* press, and so has each press on its way.                                    *)

Releases == Ups(Durations)

\* With the edges q on their way to the ESP32 and the button h: the next is one up.
UpNext(q, h) == NextIn(q, 0, Releases) \/ (h > 0 /\ QuietFrom(q, 0))

\* With the timer o, and f for long_press_fired_: the last press may yet be told.
MayTell(q, h, o, f) == o > 0 \/ (~f /\ UpNext(q, h))

HoldsAt(q, h, o, f, l, p) ==
  /\ h > 0 => p >= 1
  /\ Chain(q, Releases, Downs, h = 0)
  /\ l + Count(q, Downs) + (IF MayTell(q, h, o, f) THEN 1 ELSE 0) <= p

HoldsInv == /\ On \/ uplink = << >>
            /\ HoldsAt(uplink, held, hold, fired, longs, presses)

LEMMA NextKinds ==
  ASSUME NEW q \in Seq(Packets), NEW i \in Nat
  PROVE  /\ NextIn(q, i, Downs) => ~QuietFrom(q, i) /\ \A D : ~NextIn(q, i, Ups(D))
         /\ \A D : NextIn(q, i, Ups(D)) => ~QuietFrom(q, i)
         /\ \A D : D \subseteq Durations /\ NextIn(q, i, Ups(D)) => NextIn(q, i, Releases)
<1>1. (\A p \in Downs : Edge(p)) /\ \A D : \A p \in Ups(D) : Edge(p)
  BY EdgeSets
<1>2. NextIn(q, i, Downs) => ~QuietFrom(q, i)
  BY <1>1, OneNext
<1>3. ASSUME NEW D, NextIn(q, i, Ups(D)) PROVE ~QuietFrom(q, i) /\ ~NextIn(q, i, Downs)
  <2>1. ~QuietFrom(q, i)
    BY <1>1, <1>3, OneNext
  <2>2. SUFFICES ASSUME NextIn(q, i, Downs) PROVE FALSE
    BY <2>1
  <2>3. \A p \in Ups(D) \cup Downs : Edge(p)
    BY <1>1
  <2>4. NextIn(q, i, Ups(D) \cap Downs)
    BY <1>3, <2>2, <2>3, OneNext
  <2>5. Ups(D) \cap Downs = {}
    BY DEF Ups, Downs
  <2> QED
    BY <2>4, <2>5 DEF NextIn
<1>4. ASSUME NEW D, D \subseteq Durations, NextIn(q, i, Ups(D)) PROVE NextIn(q, i, Releases)
  <2>1. Ups(D) \in SUBSET Releases
    BY <1>4 DEF Ups, Releases
  <2> QED
    BY <1>4, <2>1, OneNext
<1> QED
  BY <1>2, <1>3, <1>4

LEMMA CountType == \A q \in Seq(Packets) : \A K : Count(q, K) \in Nat
BY CountFacts

LEMMA HoldsTaken ==
  ASSUME NEW q \in Seq(Packets), q # << >>, NEW h \in Nat, NEW o \in Nat, NEW f \in BOOLEAN, NEW l \in Nat,
         NEW p \in Nat, HoldsAt(q, h, o, f, l, p)
  PROVE  /\ HoldsAt(Tail(q), h, o, f, l, p)
         /\ q[1] \in Releases => ~UpNext(Tail(q), h)
         /\ Count(q, Downs) = Count(Tail(q), Downs) + IF q[1] \in Downs THEN 1 ELSE 0
<1> DEFINE t == Tail(q)
<1>1. t \in Seq(Packets) /\ q[1] \in Packets
  BY BehindFirst
<1>2. Count(q, Downs) = Count(t, Downs) + IF q[1] \in Downs THEN 1 ELSE 0
  BY CountLess
<1>3. /\ Chain(t, Releases, Downs, h = 0)
      /\ q[1] \in Releases => NextIn(t, 0, Downs) \/ (h = 0 /\ QuietFrom(t, 0))
  BY ChainBehind DEF HoldsAt
<1>4. Count(t, Downs) \in Nat /\ Count(q, Downs) \in Nat
  BY <1>1, CountType
<1>5. /\ QuietFrom(q, 0) <=> ~Edge(q[1]) /\ QuietFrom(t, 0)
      /\ NextIn(q, 0, Releases) <=> q[1] \in Releases \/ (~Edge(q[1]) /\ NextIn(t, 0, Releases))
  BY NextAtHead
<1> HIDE DEF t
<1>6. ASSUME q[1] \in Releases PROVE ~UpNext(t, h)
  <2>1. CASE NextIn(t, 0, Downs)
    BY <1>1, <2>1, NextKinds DEF UpNext, Releases
  <2>2. CASE h = 0 /\ QuietFrom(t, 0)
    BY <1>1, <2>2, NextKinds DEF UpNext, Releases
  <2> QED
    BY <1>3, <1>6, <2>1, <2>2
<1>7. q[1] \in Downs \/ (MayTell(t, h, o, f) => MayTell(q, h, o, f))
  <2>1. CASE q[1] \in Releases
    BY <1>6, <2>1 DEF MayTell
  <2>2. CASE ~Edge(q[1])
    BY <1>5, <2>2 DEF MayTell, UpNext
  <2> QED
    BY <1>1, <2>1, <2>2, EdgeSets DEF Releases
<1>8. /\ h > 0 => p >= 1
      /\ l + Count(q, Downs) + (IF MayTell(q, h, o, f) THEN 1 ELSE 0) <= p
  BY DEF HoldsAt
<1>9. l + Count(t, Downs) + (IF MayTell(t, h, o, f) THEN 1 ELSE 0) <= p
  <2>1. CASE q[1] \in Downs
    BY <1>2, <1>4, <1>8, <2>1
  <2>2. CASE q[1] \notin Downs
    BY <1>2, <1>4, <1>7, <1>8, <2>2
  <2> QED
    BY <2>1, <2>2
<1> QED
  BY <1>2, <1>3, <1>6, <1>8, <1>9 DEF HoldsAt, t

LEMMA HoldsEmptied ==
  ASSUME NEW q \in Seq(Packets), NEW h \in Nat, NEW o \in Nat, NEW f \in BOOLEAN, NEW l \in Nat, NEW p \in Nat,
         HoldsAt(q, h, o, f, l, p)
  PROVE  HoldsAt(<< >>, h, o, f, l, p)
<1>1. Count(q, Downs) \in Nat
  BY CountType
<1>2. /\ h > 0 => p >= 1
      /\ l + Count(q, Downs) + (IF MayTell(q, h, o, f) THEN 1 ELSE 0) <= p
  BY DEF HoldsAt
<1>3. /\ QuietFrom(<< >>, 0) /\ ~NextIn(<< >>, 0, Releases) /\ Count(<< >>, Downs) = 0
      /\ Chain(<< >>, Releases, Downs, h = 0)
  BY NothingThere
<1>4. Count(q, Downs) = 0 => (MayTell(<< >>, h, o, f) => MayTell(q, h, o, f))
  <2> SUFFICES ASSUME Count(q, Downs) = 0, ~f, h > 0 PROVE QuietFrom(q, 0)
    BY <1>3 DEF MayTell, UpNext
  <2>1. \A i \in 1 .. Len(q) : q[i] \notin Downs
    <3> SUFFICES ASSUME NEW i \in 1 .. Len(q), q[i] \in Downs PROVE FALSE
      OBVIOUS
    <3>1. PlacesOf(q, Downs) # {} /\ IsFiniteSet(PlacesOf(q, Downs))
      BY CountFacts DEF PlacesOf
    <3> QED
      BY <3>1, FS_EmptySet DEF Count
  <2>2. ASSUME NEW i \in 1 .. Len(q) PROVE ~Edge(q[i])
    <3>1. q[i] \in Packets
      BY ElementOfSeq
    <3>2. q[i] \notin Releases
      <4> SUFFICES ASSUME q[i] \in Releases PROVE FALSE
        OBVIOUS
      <4>1. NextIn(q, i, Downs)
        BY DEF HoldsAt, Chain
      <4>2. PICK k \in i + 1 .. Len(q) : q[k] \in Downs
        BY <4>1 DEF NextIn
      <4>3. k \in 1 .. Len(q)
        OBVIOUS
      <4> QED
        BY <2>1, <4>2, <4>3
    <3> QED
      BY <2>1, <3>1, <3>2, EdgeSets DEF Releases
  <2> QED
    BY <2>2 DEF QuietFrom
<1>5. l + 0 + (IF MayTell(<< >>, h, o, f) THEN 1 ELSE 0) <= p
  <2>1. CASE Count(q, Downs) = 0
    BY <1>2, <1>4, <2>1
  <2>2. CASE Count(q, Downs) # 0
    BY <1>1, <1>2, <2>2
  <2> QED
    BY <2>1, <2>2
<1> QED
  BY <1>2, <1>3, <1>5 DEF HoldsAt

LEMMA HoldsBehind ==
  ASSUME NEW q \in Seq(Packets), NEW x \in Packets, ~Edge(x), NEW h \in Nat, NEW o \in Nat, NEW f \in BOOLEAN,
         NEW l \in Nat, NEW p \in Nat, HoldsAt(q, h, o, f, l, p)
  PROVE  HoldsAt(Append(q, x), h, o, f, l, p)
<1>1. x \notin Downs /\ x \notin Releases
  BY EdgeSets DEF Releases
<1>2. 0 \in 0 .. Len(q)
  BY LenProperties
<1>3. Count(Append(q, x), Downs) = Count(q, Downs) /\ Count(q, Downs) \in Nat
  BY <1>1, CountMore, CountType
<1>4. /\ QuietFrom(Append(q, x), 0) <=> QuietFrom(q, 0)
      /\ NextIn(Append(q, x), 0, Releases) <=> NextIn(q, 0, Releases)
  BY <1>1, <1>2, NextAppended
<1>5. Chain(Append(q, x), Releases, Downs, h = 0)
  BY <1>1, ChainAppended DEF HoldsAt
<1> QED
  BY <1>3, <1>4, <1>5 DEF HoldsAt, MayTell, UpNext

LEMMA HoldsPressed ==
  ASSUME NEW q \in Seq(Packets), NEW x \in Downs, NEW o \in Nat, NEW f \in BOOLEAN, NEW l \in Nat,
         NEW p \in Nat, HoldsAt(q, 0, o, f, l, p)
  PROVE  /\ HoldsAt(Append(q, x), 1, o, f, l, p + 1)
         /\ QuietFrom(q, 0) => HoldsAt(Append(q, x), 1, 0, f, 0, 1)
<1> DEFINE r == Append(q, x)
<1>1. x \in Packets /\ Edge(x) /\ x \notin Releases
  BY EdgeSets DEF Downs, Releases, Ups
<1>2. 0 \in 0 .. Len(q)
  BY LenProperties
<1>3. Count(r, Downs) = Count(q, Downs) + 1 /\ Count(q, Downs) \in Nat
  BY <1>1, CountMore, CountType
<1>4. ~QuietFrom(r, 0) /\ (NextIn(r, 0, Releases) <=> NextIn(q, 0, Releases))
  BY <1>1, <1>2, NextAppended
<1>6. Chain(r, Releases, Downs, 1 = 0)
  <2>1. Chain(q, Releases, Downs, 0 = 0)
    BY DEF HoldsAt
  <2> QED
    BY <1>1, <2>1, ChainAppended
<1> HIDE DEF r
<1>7. l + Count(q, Downs) + (IF MayTell(q, 0, o, f) THEN 1 ELSE 0) <= p
  BY DEF HoldsAt
<1>8. MayTell(r, 1, o, f) => MayTell(q, 0, o, f)
  BY <1>4 DEF MayTell, UpNext
<1>9. HoldsAt(r, 1, o, f, l, p + 1)
  <2>1. l + Count(r, Downs) + (IF MayTell(r, 1, o, f) THEN 1 ELSE 0) <= p + 1
    BY <1>3, <1>7, <1>8
  <2> QED
    BY <1>6, <2>1 DEF HoldsAt
<1>10. ASSUME QuietFrom(q, 0) PROVE HoldsAt(r, 1, 0, f, 0, 1)
  <2>1. Count(q, Downs) = 0
    BY <1>10, EdgeSets, QuietCounts
  <2>2. ~MayTell(r, 1, 0, f)
    <3>1. ~NextIn(q, 0, Releases)
      BY <1>10, NextKinds DEF Releases
    <3> QED
      BY <1>4, <3>1 DEF MayTell, UpNext
  <2> QED
    BY <1>3, <1>6, <2>1, <2>2 DEF HoldsAt
<1> QED
  BY <1>9, <1>10 DEF r

LEMMA HoldsReleased ==
  ASSUME NEW q \in Seq(Packets), NEW x \in Releases, NEW h \in Nat, h > 0, NEW o \in Nat, NEW f \in BOOLEAN,
         NEW l \in Nat, NEW p \in Nat, HoldsAt(q, h, o, f, l, p)
  PROVE  HoldsAt(Append(q, x), 0, o, f, l, p)
<1> DEFINE r == Append(q, x)
<1>1. x \in Packets /\ Edge(x) /\ x \notin Downs
  BY EdgeSets DEF Downs, Releases, Ups
<1>2. 0 \in 0 .. Len(q)
  BY LenProperties
<1>3. Count(r, Downs) = Count(q, Downs) /\ Count(q, Downs) \in Nat
  BY <1>1, CountMore, CountType
<1>4. ~QuietFrom(r, 0) /\ (NextIn(r, 0, Releases) <=> NextIn(q, 0, Releases) \/ QuietFrom(q, 0))
  BY <1>1, <1>2, NextAppended
<1>5. Chain(r, Releases, Downs, 0 = 0)
  <2>1. Chain(q, Releases, Downs, h = 0) /\ h # 0
    BY DEF HoldsAt
  <2> QED
    BY <1>1, <2>1, ChainAppended
<1> HIDE DEF r
<1>6. MayTell(r, 0, o, f) => MayTell(q, h, o, f)
  BY <1>4 DEF MayTell, UpNext
<1>7. l + Count(r, Downs) + (IF MayTell(r, 0, o, f) THEN 1 ELSE 0) <= p
  BY <1>3, <1>6 DEF HoldsAt
<1> QED
  BY <1>5, <1>7 DEF HoldsAt, r

\* The same with the button up, as after a restart of the GD32.
LEMMA HoldsLifted ==
  ASSUME NEW q \in Seq(Packets), NEW h \in Nat, NEW o \in Nat, NEW f \in BOOLEAN, NEW l \in Nat, NEW p \in Nat,
         HoldsAt(q, h, o, f, l, p)
  PROVE  HoldsAt(q, 0, o, f, l, p)
<1>1. Chain(q, Releases, Downs, 0 = 0)
  BY DEF HoldsAt, Chain
<1>2. MayTell(q, 0, o, f) => MayTell(q, h, o, f)
  BY DEF MayTell, UpNext
<1>3. l + Count(q, Downs) + (IF MayTell(q, 0, o, f) THEN 1 ELSE 0) <= p
  BY <1>2, CountType DEF HoldsAt
<1> QED
  BY <1>1, <1>3 DEF HoldsAt

LEMMA EdgesSeen == ASSUME UplinkOK PROVE ~Edges <=> QuietFrom(uplink, 0)
<1>1. DOMAIN uplink = 1 .. Len(uplink) /\ 0 + 1 = 1
  BY LenProperties DEF UplinkOK
<1> QED
  BY <1>1 DEF Edges, QuietFrom, Edge

LEMMA GestureTypes ==
  ASSUME AllOK
  PROVE  /\ held \in 0 .. Standby /\ hold \in 0 .. HoldUnits + 1 /\ click \in 0 .. ClickUnits + 1
         /\ held \in Nat /\ hold \in Nat /\ click \in Nat /\ clicks \in Nat
         /\ fired \in BOOLEAN /\ disturbed \in BOOLEAN
         /\ presses \in Nat /\ taps \in Nat /\ holds \in Nat /\ longs \in Nat /\ told \in Nat
<1>1. /\ held \in 0 .. Standby /\ hold \in 0 .. HoldUnits + 1 /\ click \in 0 .. ClickUnits + 1
      /\ clicks \in Nat /\ fired \in BOOLEAN /\ disturbed \in BOOLEAN
  BY DEF AllOK, ButtonsTypeOK
<1>2. presses \in Nat /\ taps \in Nat /\ holds \in Nat /\ longs \in Nat /\ told \in Nat
  BY DEF AllOK, ButtonsTypeOK
<1>3. held \in Nat /\ hold \in Nat /\ click \in Nat
  BY <1>1
<1> QED
  BY <1>1, <1>2, <1>3

LEMMA HoldsDispatched ==
  ASSUME AllOK, HoldsInv, Dispatch
  PROVE  HoldsAt(uplink', held', hold', fired', longs', presses')
<1> DEFINE p == Head(uplink)
           t == Tail(uplink)
           C(q) == Count(q, Downs)
<1>1. /\ uplink \in Seq(Packets) /\ uplink # << >> /\ uplink' = t
      /\ Process(p) /\ UNCHANGED << held, presses >>
  BY DEF Dispatch, AllOK, UplinkOK
<1>2. /\ t \in Seq(Packets) /\ p = uplink[1] /\ p \in Packets
  BY <1>1, BehindFirst
<1>3. held \in Nat /\ hold \in Nat /\ fired \in BOOLEAN /\ longs \in Nat /\ presses \in Nat
  BY GestureTypes
<1>4. HoldsAt(uplink, held, hold, fired, longs, presses)
  BY DEF HoldsInv
<1>5. /\ HoldsAt(t, held, hold, fired, longs, presses)
      /\ p \in Releases => ~UpNext(t, held)
      /\ C(uplink) = C(t) + IF p \in Downs THEN 1 ELSE 0
  BY <1>1, <1>2, <1>3, <1>4, HoldsTaken
<1>6. C(t) \in Nat /\ C(uplink) \in Nat
  BY <1>1, <1>2, CountType
<1>7. longs + C(uplink) + (IF MayTell(uplink, held, hold, fired) THEN 1 ELSE 0) <= presses
  BY <1>4 DEF HoldsAt
<1>8. Chain(t, Releases, Downs, held = 0) /\ (held > 0 => presses >= 1)
  BY <1>5 DEF HoldsAt
<1>9. NextIn(uplink, 0, Releases) <=> p \in Releases \/ (~Edge(p) /\ NextIn(t, 0, Releases))
  BY <1>1, <1>2, NextAtHead
<1> HIDE DEF p, t, C
<1>10. CASE NoGesture
  BY <1>1, <1>5, <1>10 DEF NoGesture
<1>11. CASE TakePress /\ p.kind = "press"
  <2>1. p \in Downs
    BY <1>2, <1>11 DEF Downs
  <2>2. longs + C(t) + 1 <= presses
    BY <1>3, <1>5, <1>6, <1>7, <2>1
  <2>3. longs + C(t) + (IF MayTell(t, held, hold', fired') THEN 1 ELSE 0) <= presses
    BY <1>3, <1>6, <2>2
  <2>4. UNCHANGED longs
    BY <1>11 DEF TakePress
  <2> QED
    BY <1>1, <1>8, <2>3, <2>4 DEF HoldsAt, C
<1>12. CASE TakeRelease(p.duration) /\ p.kind = "release"
  <2>1. p \in Releases /\ p \notin Downs
    BY <1>2, <1>12, PacketFacts DEF Releases, Ups, Downs, Durations
  <2>2. hold' = 0 /\ (longs' = longs \/ (longs' = longs + 1 /\ ~fired))
    BY <1>12 DEF TakeRelease
  <2>3. ~MayTell(t, held, hold', fired')
    BY <1>5, <2>1, <2>2 DEF MayTell
  <2>4. ~fired => MayTell(uplink, held, hold, fired)
    BY <1>9, <2>1 DEF MayTell, UpNext
  <2>5. longs' + C(t) <= presses
    BY <1>3, <1>5, <1>6, <1>7, <2>1, <2>2, <2>4
  <2>6. longs' + C(t) + (IF MayTell(t, held, hold', fired') THEN 1 ELSE 0) <= presses
    BY <1>3, <1>6, <2>2, <2>3, <2>5
  <2> QED
    BY <1>1, <1>8, <2>6 DEF HoldsAt, C
<1> QED
  BY <1>1, <1>10, <1>11, <1>12 DEF Process

LEMMA HoldsStep == AllOK /\ SensorsTypeOK' /\ HoldsInv /\ [DeviceNext]_vars => HoldsInv'
<1> SUFFICES ASSUME AllOK, SensorsTypeOK', HoldsInv, [DeviceNext]_vars PROVE HoldsInv'
  OBVIOUS
<1>1. uplink \in Seq(Packets) /\ UplinkOK
  BY DEF AllOK, UplinkOK
<1>2. held \in Nat /\ hold \in Nat /\ fired \in BOOLEAN /\ longs \in Nat /\ presses \in Nat
  BY GestureTypes
<1>3. HoldsAt(uplink, held, hold, fired, longs, presses) /\ (On \/ uplink = << >>)
  BY DEF HoldsInv
<1>4. ASSUME On' \/ uplink' = << >>, HoldsAt(uplink', held', hold', fired', longs', presses') PROVE HoldsInv'
  BY <1>4 DEF HoldsInv
<1>5. \A h, o, f, l, p : HoldsAt(<< >>, h, o, f, l, p) <=>
        /\ h > 0 => p >= 1
        /\ l + 0 + (IF o > 0 \/ (~f /\ h > 0) THEN 1 ELSE 0) <= p
  BY NothingThere DEF HoldsAt, MayTell, UpNext
<1>6. CASE Aside
  BY <1>3, <1>4, <1>6 DEF Aside, sofar
<1>7. CASE Behind
  <2>1. PICK x \in Packets : ~Edge(x) /\ Sent(x)
    BY <1>7 DEF Behind
  <2>2. On' = On /\ UNCHANGED << held, hold, fired, longs, presses >>
    BY <1>7 DEF Behind, sofar
  <2>3. CASE On
    BY <1>1, <1>2, <1>3, <1>4, <2>1, <2>2, <2>3, HoldsBehind DEF Sent
  <2>4. CASE ~On
    BY <1>3, <1>4, <2>1, <2>2, <2>4 DEF Sent
  <2> QED
    BY <2>3, <2>4
<1>8. CASE OneLost
  <2>1. HoldsAt(Tail(uplink), held, hold, fired, longs, presses)
    BY <1>1, <1>2, <1>3, <1>8, HoldsTaken DEF OneLost
  <2> QED
    BY <1>3, <1>4, <1>8, <2>1 DEF OneLost, sofar
<1>9. CASE AllLost
  <2>1. HoldsAt(<< >>, held, hold, fired, longs, presses)
    BY <1>1, <1>2, <1>3, HoldsEmptied
  <2> QED
    BY <1>4, <1>9, <2>1 DEF AllLost, sofar
<1>10. CASE EspAnew
  <2>1. /\ uplink' = << >> /\ hold' = 0 /\ ~fired' /\ longs' = 0 /\ presses' = presses
        /\ held' = held \/ held' = 0
    BY <1>10 DEF EspAnew
  <2>2. held > 0 => presses >= 1
    BY <1>3 DEF HoldsAt
  <2>3. /\ held' > 0 => presses' >= 1
        /\ longs' + 0 + (IF hold' > 0 \/ (~fired' /\ held' > 0) THEN 1 ELSE 0) <= presses'
    BY <1>2, <2>1, <2>2
  <2> QED
    BY <1>4, <1>5, <2>1, <2>3
<1>11. CASE GdAnew
  <2>1. HoldsAt(uplink, 0, hold, fired, longs, presses)
    BY <1>1, <1>2, <1>3, HoldsLifted
  <2> QED
    BY <1>3, <1>4, <1>11, <2>1 DEF GdAnew
<1>12. CASE Press
  <2>1. /\ held = 0 /\ held' = 1 /\ Sent([kind |-> "press"]) /\ UNCHANGED << esp, hold, fired >>
        /\ IF AtRest THEN presses' = 1 /\ longs' = 0 ELSE presses' = presses + 1 /\ longs' = longs
    BY <1>12 DEF Press
  <2>2. [kind |-> "press"] \in Downs
    BY PacketFacts DEF Downs
  <2>3. AtRest => hold = 0 /\ QuietFrom(uplink, 0)
    BY <1>1, EdgesSeen DEF AtRest
  <2>4. CASE On
    <3>1. uplink' = Append(uplink, [kind |-> "press"]) /\ On'
      BY <2>1, <2>4 DEF Sent, On
    <3>2. /\ HoldsAt(uplink', 1, hold, fired, longs, presses + 1)
          /\ QuietFrom(uplink, 0) => HoldsAt(uplink', 1, 0, fired, 0, 1)
      BY <1>1, <1>2, <1>3, <2>1, <2>2, <3>1, HoldsPressed
    <3> QED
      BY <1>4, <2>1, <2>3, <3>1, <3>2
  <2>5. CASE ~On
    <3>1. uplink' = << >> /\ uplink = << >>
      BY <1>3, <2>1, <2>5 DEF Sent
    <3>2. longs + 0 + (IF hold > 0 \/ (~fired /\ held > 0) THEN 1 ELSE 0) <= presses
      BY <1>3, <1>5, <3>1
    <3>3. /\ held' > 0 => presses' >= 1
          /\ longs' + 0 + (IF hold' > 0 \/ (~fired' /\ held' > 0) THEN 1 ELSE 0) <= presses'
      BY <1>2, <2>1, <2>3, <3>2
    <3> QED
      BY <1>4, <1>5, <3>1, <3>3
  <2> QED
    BY <2>4, <2>5
<1>13. ASSUME NEW d \in 0 .. Long, LetGo(d) PROVE HoldsInv'
  <2> DEFINE x == [kind |-> "release", duration |-> d]
  <2>1. /\ held > 0 /\ held' = 0 /\ Sent(x) /\ UNCHANGED << esp, hold, fired, longs, presses >>
    BY <1>13 DEF LetGo
  <2>2. x \in Releases
    BY PacketFacts DEF Releases, Ups, Durations
  <2> HIDE DEF x
  <2>3. CASE On
    <3>1. uplink' = Append(uplink, x) /\ On'
      BY <2>1, <2>3 DEF Sent, On
    <3>2. HoldsAt(uplink', 0, hold, fired, longs, presses)
      BY <1>1, <1>2, <1>3, <2>1, <2>2, <3>1, HoldsReleased
    <3> QED
      BY <1>4, <2>1, <3>1, <3>2
  <2>4. CASE ~On
    <3>1. uplink' = << >> /\ uplink = << >>
      BY <1>3, <2>1, <2>4 DEF Sent
    <3>2. HoldsAt(uplink, 0, hold, fired, longs, presses)
      BY <1>1, <1>2, <1>3, HoldsLifted
    <3> QED
      BY <1>4, <2>1, <3>1, <3>2
  <2> QED
    BY <2>3, <2>4
<1>14. CASE Elapse
  <2>1. /\ held' = (IF held \in 1 .. Long THEN held + 1 ELSE held)
        /\ hold' = Less(hold) /\ UNCHANGED << esp, uplink, fired, longs, presses >>
    BY <1>14 DEF Elapse, boardVars, counts
  <2>2. held' = held \/ (held' = held + 1 /\ held > 0)
    BY <2>1 DEF Long
  <2>3. hold' > 0 <=> hold > 0
    BY <1>2, <2>1 DEF Less
  <2>4. (held' > 0 <=> held > 0) /\ (held' = 0 <=> held = 0)
    BY <1>2, <2>2
  <2>5. Chain(uplink, Releases, Downs, held' = 0)
    BY <1>3, <2>4 DEF HoldsAt, Chain
  <2>6. MayTell(uplink, held', hold', fired) <=> MayTell(uplink, held, hold, fired)
    BY <2>3, <2>4 DEF MayTell, UpNext
  <2>7. HoldsAt(uplink, held', hold', fired, longs, presses)
    BY <1>3, <2>4, <2>5, <2>6 DEF HoldsAt
  <2> QED
    BY <1>3, <1>4, <2>1, <2>7 DEF On
<1>15. CASE HoldDue
  <2>1. hold > 0 /\ hold' = 0 /\ fired' /\ longs' = longs + 1 /\ UNCHANGED << esp, uplink, held, presses >>
    BY <1>15 DEF HoldDue, boardVars
  <2>2. longs + Count(uplink, Downs) + 1 <= presses /\ Count(uplink, Downs) \in Nat
    BY <1>1, <1>3, <2>1, CountType DEF HoldsAt, MayTell
  <2>3. ~MayTell(uplink, held, hold', fired')
    BY <2>1 DEF MayTell
  <2>4. longs' + Count(uplink, Downs) + (IF MayTell(uplink, held, hold', fired') THEN 1 ELSE 0) <= presses
    BY <1>2, <2>1, <2>2, <2>3
  <2>5. HoldsAt(uplink, held, hold', fired', longs', presses)
    BY <1>3, <2>4 DEF HoldsAt
  <2> QED
    BY <1>3, <1>4, <2>1, <2>5 DEF On
<1>16. CASE ClickDue
  BY <1>3, <1>4, <1>16 DEF ClickDue, boardVars, On
<1>17. CASE Dispatch
  <2>1. On'
    BY <1>3, <1>17 DEF Dispatch, On
  <2> QED
    BY <1>4, <1>17, <2>1, HoldsDispatched
<1> QED
  BY <1>6, <1>7, <1>8, <1>9, <1>10, <1>11, <1>12, <1>13, <1>14, <1>15, <1>16, <1>17, GestureCases

-----------------------------------------------------------------------------
(* Every gesture is told once, unless something came late or was lost.         *)

Clicked == Ups(1 .. 3)
Shorts == Ups({0, 1})
Units(d) == IF d = Blip THEN 1 ELSE d

\* With a press under way for n units, the timers o and k and f for long_press_fired_
\* are where they have to be.
TimersOf(n, o, k, f) ==
  \/ ~f /\ o + n = HoldUnits + 2 /\ o >= 1 /\ (k = 0 \/ k + ClickUnits <= o)
  \/ f /\ o = 0 /\ n >= HoldUnits + 1 /\ k = 0

\* With b holds made and l told: where the button is, as the ESP32 sees it.
Phase(q, h, o, k, f, b, l) ==
  \/ QuietFrom(q, 0) /\ h = 0 /\ o = 0 /\ ~f /\ l = b
  \/ QuietFrom(q, 0) /\ h > 0 /\ TimersOf(h, o, k, f) /\ l = b + IF f THEN 1 ELSE 0
  \/ NextIn(q, 0, Downs) /\ o = 0 /\ l = b
  \/ \E d \in Durations : /\ NextIn(q, 0, Ups({d})) /\ TimersOf(Units(d), o, k, f)
                          /\ b = l + IF ~f /\ d >= 4 THEN 1 ELSE 0

\* Of a short presses t are told, c are counted, and the rest is on its way.
ToldAt(q, h, o, k, f, c, a, b, l, t) ==
  /\ a = t + c + Count(q, Clicked)
  /\ ~QuietFrom(q, 0) => h = 0 \/ h = 1
  /\ Chain(q, Downs, Shorts, h = 1)
  /\ Phase(q, h, o, k, f, b, l)

\* What these are made of.
Amounts(q, h, o, k, f, c, a, b, l, t) ==
  /\ q \in Seq(Packets) /\ h \in Nat /\ o \in Nat /\ k \in Nat /\ f \in BOOLEAN /\ c \in Nat
  /\ a \in Nat /\ b \in Nat /\ l \in Nat /\ t \in Nat

ToldInv ==
  /\ clicks > 0 => click > 0
  /\ ~disturbed => ToldAt(uplink, held, hold, click, fired, clicks, taps, holds, longs, told)

LEMMA ToldBehind ==
  ASSUME NEW q, NEW h, NEW o, NEW k, NEW f, NEW c, NEW a, NEW b, NEW l, NEW t,
         Amounts(q, h, o, k, f, c, a, b, l, t), ToldAt(q, h, o, k, f, c, a, b, l, t),
         NEW x \in Packets, ~Edge(x)
  PROVE  ToldAt(Append(q, x), h, o, k, f, c, a, b, l, t)
<1>0. /\ q \in Seq(Packets) /\ h \in Nat /\ o \in Nat /\ k \in Nat /\ f \in BOOLEAN /\ c \in Nat
      /\ a \in Nat /\ b \in Nat /\ l \in Nat /\ t \in Nat
  BY DEF Amounts
<1> USE <1>0
<1>1. x \notin Downs /\ \A D : x \notin Ups(D)
  BY EdgeSets
<1>2. 0 \in 0 .. Len(q)
  BY LenProperties
<1>3. Count(Append(q, x), Clicked) = Count(q, Clicked)
  <2>1. Count(q, Clicked) \in Nat
    BY CountType
  <2> QED
    BY <1>1, <2>1, CountMore DEF Clicked
<1>4. /\ QuietFrom(Append(q, x), 0) <=> QuietFrom(q, 0)
      /\ NextIn(Append(q, x), 0, Downs) <=> NextIn(q, 0, Downs)
      /\ \A D : NextIn(Append(q, x), 0, Ups(D)) <=> NextIn(q, 0, Ups(D))
  BY <1>1, <1>2, NextAppended
<1>5. Chain(Append(q, x), Downs, Shorts, h = 1)
  BY <1>1, ChainAppended DEF ToldAt
<1>6. Phase(Append(q, x), h, o, k, f, b, l)
  BY <1>4 DEF ToldAt, Phase
<1> QED
  BY <1>3, <1>4, <1>5, <1>6 DEF ToldAt

LEMMA ToldSkipped ==
  ASSUME NEW q, NEW h, NEW o, NEW k, NEW f, NEW c, NEW a, NEW b, NEW l, NEW t,
         Amounts(q, h, o, k, f, c, a, b, l, t), ToldAt(q, h, o, k, f, c, a, b, l, t),
         q # << >>, ~Edge(q[1])
  PROVE  ToldAt(Tail(q), h, o, k, f, c, a, b, l, t)
<1>0. /\ q \in Seq(Packets) /\ h \in Nat /\ o \in Nat /\ k \in Nat /\ f \in BOOLEAN /\ c \in Nat
      /\ a \in Nat /\ b \in Nat /\ l \in Nat /\ t \in Nat
  BY DEF Amounts
<1> USE <1>0
<1>1. q[1] \notin Downs /\ \A D : q[1] \notin Ups(D)
  BY EdgeSets
<1>2. Count(Tail(q), Clicked) = Count(q, Clicked)
  <2>1. Count(Tail(q), Clicked) \in Nat
    BY BehindFirst, CountType
  <2> QED
    BY <1>1, <2>1, CountLess DEF Clicked
<1>3. /\ QuietFrom(Tail(q), 0) <=> QuietFrom(q, 0)
      /\ NextIn(Tail(q), 0, Downs) <=> NextIn(q, 0, Downs)
      /\ \A D : NextIn(Tail(q), 0, Ups(D)) <=> NextIn(q, 0, Ups(D))
  BY <1>1, NextAtHead
<1>4. Chain(Tail(q), Downs, Shorts, h = 1)
  BY ChainBehind DEF ToldAt
<1>5. Phase(Tail(q), h, o, k, f, b, l)
  BY <1>3 DEF ToldAt, Phase
<1> QED
  BY <1>2, <1>3, <1>4, <1>5 DEF ToldAt

LEMMA ToldEmptied ==
  ASSUME NEW q, NEW h, NEW o, NEW k, NEW f, NEW c, NEW a, NEW b, NEW l, NEW t,
         Amounts(q, h, o, k, f, c, a, b, l, t), ToldAt(q, h, o, k, f, c, a, b, l, t),
         QuietFrom(q, 0)
  PROVE  ToldAt(<< >>, h, o, k, f, c, a, b, l, t)
<1>0. /\ q \in Seq(Packets) /\ h \in Nat /\ o \in Nat /\ k \in Nat /\ f \in BOOLEAN /\ c \in Nat
      /\ a \in Nat /\ b \in Nat /\ l \in Nat /\ t \in Nat
  BY DEF Amounts
<1> USE <1>0
<1>1. Count(q, Clicked) = 0
  BY QuietCounts, EdgeSets DEF Clicked
<1>2. ~NextIn(q, 0, Downs) /\ \A D : ~NextIn(q, 0, Ups(D))
  BY QuietCounts, EdgeSets
<1>3. /\ QuietFrom(<< >>, 0) /\ Count(<< >>, Clicked) = 0
      /\ Chain(<< >>, Downs, Shorts, h = 1)
  BY NothingThere
<1>4. Phase(<< >>, h, o, k, f, b, l)
  BY <1>2, <1>3 DEF ToldAt, Phase
<1> QED
  BY <1>1, <1>3, <1>4 DEF ToldAt

LEMMA ToldPressed ==
  ASSUME NEW q, NEW h, NEW o, NEW k, NEW f, NEW c, NEW a, NEW b, NEW l, NEW t,
         Amounts(q, h, o, k, f, c, a, b, l, t),
         NEW x \in Downs, h = 0, NEW g, g = 1
  PROVE  /\ ToldAt(q, h, o, k, f, c, a, b, l, t) => ToldAt(Append(q, x), g, o, k, f, c, a, b, l, t)
         /\ QuietFrom(q, 0) => ToldAt(Append(q, x), g, 0, k, f, 0, 0, 0, 0, 0)
<1>0. /\ q \in Seq(Packets) /\ h \in Nat /\ o \in Nat /\ k \in Nat /\ f \in BOOLEAN /\ c \in Nat
      /\ a \in Nat /\ b \in Nat /\ l \in Nat /\ t \in Nat
  BY DEF Amounts
<1> USE <1>0
<1> DEFINE r == Append(q, x)
<1>1. x \in Packets /\ Edge(x) /\ \A D : x \notin Ups(D)
  BY EdgeSets DEF Downs, Ups
<1>2. 0 \in 0 .. Len(q)
  BY LenProperties
<1>3. Count(r, Clicked) = Count(q, Clicked)
  <2>1. Count(q, Clicked) \in Nat
    BY CountType
  <2> QED
    BY <1>1, <2>1, CountMore DEF Clicked
<1>4. /\ ~QuietFrom(r, 0)
      /\ NextIn(r, 0, Downs) <=> NextIn(q, 0, Downs) \/ QuietFrom(q, 0)
      /\ \A D : NextIn(r, 0, Ups(D)) <=> NextIn(q, 0, Ups(D))
  BY <1>1, <1>2, NextAppended
<1>5. ASSUME Chain(q, Downs, Shorts, h = 1) PROVE Chain(r, Downs, Shorts, g = 1)
  <2>1. (h = 1) \in BOOLEAN /\ (g = 1) \in BOOLEAN
    OBVIOUS
  <2>2. Edge(x) /\ (x \in Downs => g = 1) /\ (h = 1 => x \in Shorts)
    BY <1>1
  <2>3. q \in Seq(Packets) /\ x \in Packets
    BY <1>1
  <2> QED
    BY <1>5, <2>1, <2>2, <2>3, ChainAppended, Zenon
<1>6. QuietFrom(q, 0) => Chain(q, Downs, Shorts, h = 1)
  BY EdgeSets, ChainQuiet
<1>7. QuietFrom(q, 0) => Count(q, Clicked) = 0
  BY EdgeSets, QuietCounts DEF Clicked
<1> HIDE DEF r
<1>8. ASSUME ToldAt(q, h, o, k, f, c, a, b, l, t) PROVE ToldAt(r, g, o, k, f, c, a, b, l, t)
  <2>1. Phase(r, g, o, k, f, b, l)
    <3>1. Phase(q, h, o, k, f, b, l)
      BY <1>8 DEF ToldAt
    <3>2. CASE QuietFrom(q, 0) /\ o = 0 /\ l = b
      BY <1>4, <3>2 DEF Phase
    <3>3. CASE NextIn(q, 0, Downs) /\ o = 0 /\ l = b
      BY <1>4, <3>3 DEF Phase
    <3>4. ASSUME NEW d \in Durations, NextIn(q, 0, Ups({d})), TimersOf(Units(d), o, k, f),
                 b = l + IF ~f /\ d >= 4 THEN 1 ELSE 0
          PROVE  Phase(r, g, o, k, f, b, l)
      BY <1>4, <3>4 DEF Phase
    <3>0. ~(h > 0)
      OBVIOUS
    <3>5. \/ QuietFrom(q, 0) /\ o = 0 /\ l = b
          \/ NextIn(q, 0, Downs) /\ o = 0 /\ l = b
          \/ \E d \in Durations : /\ NextIn(q, 0, Ups({d})) /\ TimersOf(Units(d), o, k, f)
                                  /\ b = l + IF ~f /\ d >= 4 THEN 1 ELSE 0
      BY <3>0, <3>1, Zenon DEF Phase
    <3> QED
      BY <3>2, <3>3, <3>4, <3>5
  <2> QED
    BY <1>3, <1>5, <1>8, <2>1 DEF ToldAt
<1>9. ASSUME QuietFrom(q, 0) PROVE ToldAt(r, g, 0, k, f, 0, 0, 0, 0, 0)
  <2>1. Phase(r, g, 0, k, f, 0, 0)
    BY <1>4, <1>9 DEF Phase
  <2> QED
    BY <1>3, <1>5, <1>6, <1>7, <1>9, <2>1 DEF ToldAt
<1> QED
  BY <1>8, <1>9 DEF r

LEMMA UpOf ==
  ASSUME NEW d \in Durations
  PROVE  /\ [kind |-> "release", duration |-> d] \in Packets
         /\ \A D : [kind |-> "release", duration |-> d] \in Ups(D) <=> d \in D
BY PacketFacts DEF Ups, Durations

LEMMA ToldReleased ==
  ASSUME NEW q, NEW h, NEW o, NEW k, NEW f, NEW c, NEW a, NEW b, NEW l, NEW t,
         Amounts(q, h, o, k, f, c, a, b, l, t), ToldAt(q, h, o, k, f, c, a, b, l, t),
         h \in 1 .. Long, NEW d \in Durations, d = h \/ (h = 1 /\ d = Blip), NEW g, g = 0
  PROVE  ToldAt(Append(q, [kind |-> "release", duration |-> d]), g, o, k, f, c,
                a + IF d \in 1 .. 3 THEN 1 ELSE 0, b + IF d >= 4 THEN 1 ELSE 0, l, t)
<1>0. /\ q \in Seq(Packets) /\ h \in Nat /\ o \in Nat /\ k \in Nat /\ f \in BOOLEAN /\ c \in Nat
      /\ a \in Nat /\ b \in Nat /\ l \in Nat /\ t \in Nat
  BY DEF Amounts
<1> USE <1>0
<1> DEFINE x == [kind |-> "release", duration |-> d]
           r == Append(q, x)
<1>1. x \in Packets /\ Edge(x) /\ x \notin Downs /\ \A D : x \in Ups(D) <=> d \in D
  BY UpOf DEF Downs, Edge
<1>2. 0 \in 0 .. Len(q)
  BY LenProperties
<1> HIDE DEF x
<1>3. Count(r, Clicked) = Count(q, Clicked) + (IF d \in 1 .. 3 THEN 1 ELSE 0) /\ Count(q, Clicked) \in Nat
  BY <1>1, CountMore, CountType DEF Clicked
<1>4. /\ ~QuietFrom(r, 0)
      /\ NextIn(r, 0, Downs) <=> NextIn(q, 0, Downs)
      /\ \A D : NextIn(r, 0, Ups(D)) <=> NextIn(q, 0, Ups(D)) \/ (QuietFrom(q, 0) /\ d \in D)
  BY <1>1, <1>2, NextAppended
<1>5. ~QuietFrom(q, 0) => h = 1 /\ d \in {0, 1}
  BY DEF ToldAt, Blip
<1>6. Chain(r, Downs, Shorts, g = 1)
  <2>1. Chain(q, Downs, Shorts, h = 1) /\ (QuietFrom(q, 0) => Chain(q, Downs, Shorts, g = 1))
    BY EdgeSets, ChainQuiet DEF ToldAt
  <2>2. (h = 1) \in BOOLEAN /\ (g = 1) \in BOOLEAN
    OBVIOUS
  <2>3. Edge(x) /\ q \in Seq(Packets) /\ x \in Packets
    BY <1>1
  <2>4. CASE QuietFrom(q, 0)
    <3>1. (x \in Downs => g = 1) /\ (g = 1 => x \in Shorts)
      BY <1>1
    <3> QED
      BY <2>1, <2>2, <2>3, <2>4, <3>1, ChainAppended, Zenon
  <2>5. CASE ~QuietFrom(q, 0)
    <3>1. (x \in Downs => g = 1) /\ (h = 1 => x \in Shorts)
      BY <1>1, <1>5, <2>5 DEF Shorts
    <3> QED
      BY <2>1, <2>2, <2>3, <3>1, ChainAppended, Zenon
  <2> QED
    BY <2>4, <2>5
<1> HIDE DEF r
<1> DEFINE e == IF d >= 4 THEN 1 ELSE 0
<1>7. Phase(r, g, o, k, f, b + e, l)
  <2>1. Phase(q, h, o, k, f, b, l) /\ h > 0
    BY DEF ToldAt
  <2>2. CASE QuietFrom(q, 0) /\ TimersOf(h, o, k, f) /\ l = b + IF f THEN 1 ELSE 0
    <3>1. NextIn(r, 0, Ups({d})) /\ Units(d) = h
      BY <1>4, <2>2 DEF Units, Blip
    <3>2. f => d >= 4
      <4>1. f => h >= 5
        BY <2>2 DEF TimersOf, HoldUnits
      <4> QED
        BY <4>1
    <3>3. b + e = l + IF ~f /\ d >= 4 THEN 1 ELSE 0
      BY <2>2, <3>2
    <3> QED
      BY <2>2, <3>1, <3>3 DEF Phase
  <2>3. CASE NextIn(q, 0, Downs) /\ o = 0 /\ l = b
    <3>1. e = 0
      <4>1. ~QuietFrom(q, 0)
        BY <2>3, NextKinds
      <4> QED
        BY <1>5, <4>1
    <3> QED
      BY <1>4, <2>3, <3>1 DEF Phase
  <2>4. ASSUME NEW u \in Durations, NextIn(q, 0, Ups({u})), TimersOf(Units(u), o, k, f),
               b = l + IF ~f /\ u >= 4 THEN 1 ELSE 0
        PROVE  Phase(r, g, o, k, f, b + e, l)
    <3>1. e = 0
      <4>1. ~QuietFrom(q, 0)
        BY <2>4, NextKinds
      <4> QED
        BY <1>5, <4>1
    <3>2. NextIn(r, 0, Ups({u})) /\ b + e = b
      BY <1>4, <2>4, <3>1
    <3> QED
      BY <2>4, <3>2 DEF Phase
  <2>5. \/ QuietFrom(q, 0) /\ TimersOf(h, o, k, f) /\ l = b + IF f THEN 1 ELSE 0
        \/ NextIn(q, 0, Downs) /\ o = 0 /\ l = b
        \/ \E u \in Durations : /\ NextIn(q, 0, Ups({u})) /\ TimersOf(Units(u), o, k, f)
                                /\ b = l + IF ~f /\ u >= 4 THEN 1 ELSE 0
    <3>1. h # 0
      OBVIOUS
    <3> QED
      BY <2>1, <3>1, Zenon DEF Phase
  <2> QED
    BY <2>2, <2>3, <2>4, <2>5
<1>8. a + (IF d \in 1 .. 3 THEN 1 ELSE 0) = t + c + Count(r, Clicked)
  BY <1>3 DEF ToldAt
<1> QED
  BY <1>6, <1>7, <1>8 DEF ToldAt, x, r

\* The ESP32 takes a press.
LEMMA ToldDown ==
  ASSUME NEW q, NEW h, NEW o, NEW k, NEW f, NEW c, NEW a, NEW b, NEW l, NEW t,
         Amounts(q, h, o, k, f, c, a, b, l, t), ToldAt(q, h, o, k, f, c, a, b, l, t),
         q # << >>, q[1] \in Downs, k \in 0 .. ClickUnits + 1, NEW g, g = FALSE
  PROVE  ToldAt(Tail(q), h, HoldUnits + 1, k, g, c, a, b, l, t)
<1>0. /\ q \in Seq(Packets) /\ h \in Nat /\ o \in Nat /\ k \in Nat /\ f \in BOOLEAN /\ c \in Nat
      /\ a \in Nat /\ b \in Nat /\ l \in Nat /\ t \in Nat
  BY DEF Amounts
<1> USE <1>0
<1> DEFINE s == Tail(q)
<1>1. s \in Seq(Packets) /\ q[1] \in Packets
  BY BehindFirst
<1>2. NextIn(q, 0, Downs) /\ ~QuietFrom(q, 0) /\ \A D : ~NextIn(q, 0, Ups(D))
  BY NextAtHead, NextKinds
<1>3. (h = 0 \/ h = 1) /\ o = 0 /\ l = b
  BY <1>2 DEF ToldAt, Phase
<1>4. /\ Chain(s, Downs, Shorts, h = 1)
      /\ NextIn(s, 0, Shorts) \/ (h = 1 /\ QuietFrom(s, 0))
  BY ChainBehind DEF ToldAt
<1>5. Count(q, Clicked) = Count(s, Clicked)
  <2>1. q[1] \notin Clicked
    BY DEF Downs, Clicked, Ups
  <2>2. Count(s, Clicked) \in Nat
    BY <1>1, CountType
  <2> QED
    BY <2>1, <2>2, CountLess
<1> HIDE DEF s
<1>6. TimersOf(1, HoldUnits + 1, k, g)
  BY DEF TimersOf, HoldUnits, ClickUnits
<1>7. Phase(s, h, HoldUnits + 1, k, g, b, l)
  <2>1. CASE h = 1 /\ QuietFrom(s, 0)
    <3>1. h > 0 /\ TimersOf(h, HoldUnits + 1, k, g) /\ l = b + IF g THEN 1 ELSE 0
      BY <1>3, <1>6, <2>1
    <3> QED
      BY <2>1, <3>1 DEF Phase
  <2>2. CASE NextIn(s, 0, Shorts)
    <3>1. Shorts = Ups({0}) \cup Ups({1})
      BY DEF Shorts, Ups
    <3>2. NextIn(s, 0, Ups({0})) \/ NextIn(s, 0, Ups({1}))
      BY <1>1, <2>2, <3>1, OneNext
    <3>3. ASSUME NEW d \in {0, 1}, NextIn(s, 0, Ups({d})) PROVE Phase(s, h, HoldUnits + 1, k, g, b, l)
      <4>1. d \in Durations /\ Units(d) = 1 /\ b = l + IF ~g /\ d >= 4 THEN 1 ELSE 0
        BY <1>3 DEF Durations, Units, Blip, Long
      <4> QED
        BY <1>6, <3>3, <4>1 DEF Phase
    <3> QED
      BY <3>2, <3>3
  <2> QED
    BY <1>4, <2>1, <2>2
<1> QED
  BY <1>3, <1>4, <1>5, <1>7 DEF ToldAt, s

\* The ESP32 takes a release of duration d; s is what is on its way then.
AfterUp(s, h, k, f, c, a, b, l, t, d, g) ==
  /\ f => ToldAt(s, h, 0, k, g, 0, a, b, l, t)
  /\ ~f /\ d \in {4, 5} => ToldAt(s, h, 0, 0, g, 0, a, b, l + 1, t)
  /\ ~f /\ d \in 1 .. 3 => ToldAt(s, h, 0, ClickUnits + 1, g, c + 1, a, b, l, t)
  /\ ~f /\ d \notin {4, 5} /\ d \notin 1 .. 3 => ToldAt(s, h, 0, k, g, c, a, b, l, t)

LEMMA ToldUp ==
  ASSUME NEW q, NEW h, NEW o, NEW k, NEW f, NEW c, NEW a, NEW b, NEW l, NEW t,
         Amounts(q, h, o, k, f, c, a, b, l, t), ToldAt(q, h, o, k, f, c, a, b, l, t),
         NEW p, HoldsAt(q, h, o, f, l, p), c > 0 => k > 0,
         q # << >>, NEW d \in Durations, q[1] \in Ups({d}), NEW g, g = FALSE
  PROVE  AfterUp(Tail(q), h, k, f, c, a, b, l, t, d, g)
<1>0. /\ q \in Seq(Packets) /\ h \in Nat /\ o \in Nat /\ k \in Nat /\ f \in BOOLEAN /\ c \in Nat
      /\ a \in Nat /\ b \in Nat /\ l \in Nat /\ t \in Nat
  BY DEF Amounts
<1> USE <1>0
<1> DEFINE s == Tail(q)
<1>1. s \in Seq(Packets) /\ q[1] \in Packets /\ q[1] \in Releases /\ Edge(q[1])
  BY BehindFirst, EdgeSets DEF Ups, Releases
<1>2. /\ ~QuietFrom(q, 0) /\ ~NextIn(q, 0, Downs)
      /\ \A u : NextIn(q, 0, Ups({u})) => u = d
  <2>1. NextIn(q, 0, Ups({d})) /\ \A D : NextIn(q, 0, Ups(D)) <=> q[1] \in Ups(D)
    BY <1>1, NextAtHead
  <2>2. \A u : q[1] \in Ups({u}) => u = d
    BY DEF Ups
  <2> QED
    BY <2>1, <2>2, NextKinds
<1>3. TimersOf(Units(d), o, k, f) /\ b = l + IF ~f /\ d >= 4 THEN 1 ELSE 0
  <2>1. Phase(q, h, o, k, f, b, l)
    BY DEF ToldAt
  <2> QED
    BY <1>2, <2>1, Zenon DEF Phase
<1>4. NextIn(s, 0, Downs) \/ (h = 0 /\ QuietFrom(s, 0))
  BY <1>1, ChainBehind DEF HoldsAt
<1>5. Chain(s, Downs, Shorts, h = 1) /\ (h = 0 \/ h = 1) /\ a = t + c + Count(q, Clicked)
  BY <1>2, ChainBehind DEF ToldAt
<1>6. Count(q, Clicked) = Count(s, Clicked) + (IF d \in 1 .. 3 THEN 1 ELSE 0) /\ Count(s, Clicked) \in Nat
  <2>1. q[1] \in Clicked <=> d \in 1 .. 3
    BY DEF Clicked, Ups
  <2> QED
    BY <1>1, <2>1, CountLess, CountType
<1> HIDE DEF s
<1>7. ASSUME NEW y, NEW z, z = b PROVE Phase(s, h, 0, y, g, b, z)
  BY <1>4, <1>7 DEF Phase
<1>8. ASSUME NEW y, NEW x \in Nat, NEW z, z = b, a = t + x + Count(s, Clicked) PROVE ToldAt(s, h, 0, y, g, x, a, b, z, t)
  BY <1>5, <1>7, <1>8 DEF ToldAt
\* What the timers say about the duration.
<1>9. /\ f => d >= 5 /\ k = 0
      /\ ~f /\ d >= 4 => k = 0 /\ d < 6
  <2>1. d \in Nat /\ ((d = 0 /\ Units(d) = 1) \/ Units(d) = d)
    BY DEF Units, Blip, Durations
  <2> DEFINE n == Units(d)
  <2>2. /\ f => o = 0 /\ n >= 5 /\ k = 0
        /\ ~f => o + n = 6 /\ o >= 1 /\ (k = 0 \/ k + 2 <= o)
    BY <1>3 DEF TimersOf, HoldUnits, ClickUnits
  <2>3. n = 1 \/ n = d
    BY <2>1
  <2> HIDE DEF n
  <2>4. ASSUME f PROVE d >= 5 /\ k = 0
    BY <2>2, <2>3, <2>4
  <2>5. ASSUME ~f, d >= 4 PROVE k = 0 /\ d < 6
    <3>1. n = d
      BY <2>1, <2>3, <2>5 DEF n
    <3> QED
      BY <2>1, <2>2, <2>5, <3>1
  <2> QED
    BY <2>4, <2>5
<1>10. k = 0 => c = 0
  BY DEF ToldAt
<1>11. ASSUME f PROVE ToldAt(s, h, 0, k, g, 0, a, b, l, t)
  <2>1. l = b /\ a = t + 0 + Count(s, Clicked)
    BY <1>3, <1>5, <1>6, <1>9, <1>10, <1>11
  <2> QED
    BY <1>8, <2>1
<1>12. ASSUME ~f, d \in {4, 5} PROVE ToldAt(s, h, 0, 0, g, 0, a, b, l + 1, t)
  <2>1. l + 1 = b /\ a = t + 0 + Count(s, Clicked)
    BY <1>3, <1>5, <1>6, <1>9, <1>10, <1>12
  <2> QED
    BY <1>8, <2>1
<1>13. ASSUME ~f, d \in 1 .. 3 PROVE ToldAt(s, h, 0, ClickUnits + 1, g, c + 1, a, b, l, t)
  <2>1. l = b /\ a = t + (c + 1) + Count(s, Clicked) /\ c + 1 \in Nat
    BY <1>3, <1>5, <1>6, <1>13
  <2> QED
    BY <1>8, <2>1
<1>14. ASSUME ~f, d \notin {4, 5}, d \notin 1 .. 3 PROVE ToldAt(s, h, 0, k, g, c, a, b, l, t)
  <2>1. l = b /\ a = t + c + Count(s, Clicked)
    BY <1>3, <1>5, <1>6, <1>9, <1>14 DEF Durations, Long
  <2> QED
    BY <1>8, <2>1
<1> QED
  BY <1>11, <1>12, <1>13, <1>14 DEF AfterUp, s

\* Time passes, and nothing is late.
LEMMA ToldLater ==
  ASSUME AllOK, ToldInv, Elapse, ~disturbed'
  PROVE  ToldAt(uplink, held', hold', click', fired, clicks, taps, holds, longs, told)
<1>1. /\ held' = (IF held \in 1 .. Long THEN held + 1 ELSE held)
      /\ hold' = Less(hold) /\ click' = Less(click) /\ held < Standby
      /\ ~disturbed /\ ~Edges /\ hold # 1 /\ click # 1
  BY DEF Elapse, Waiting
<1>2. /\ held \in 0 .. Standby /\ held \in Nat /\ hold \in Nat /\ click \in Nat
      /\ holds \in Nat /\ longs \in Nat
  BY GestureTypes
<1>3. uplink \in Seq(Packets) /\ QuietFrom(uplink, 0)
  BY <1>1, EdgesSeen DEF AllOK, UplinkOK
<1>4. ToldAt(uplink, held, hold, click, fired, clicks, taps, holds, longs, told)
  BY <1>1 DEF ToldInv
<1>5. ~NextIn(uplink, 0, Downs) /\ \A D : ~NextIn(uplink, 0, Ups(D))
  BY <1>3, NextKinds
<1>6. Chain(uplink, Downs, Shorts, held' = 1)
  BY <1>3, EdgeSets, ChainQuiet
<1>7. Phase(uplink, held', hold', click', fired, holds, longs)
  <2>1. CASE held = 0 /\ hold = 0 /\ ~fired /\ longs = holds
    <3>1. held' = 0 /\ hold' = 0
      BY <1>1, <2>1 DEF Less, Long
    <3> QED
      BY <1>3, <2>1, <3>1 DEF Phase
  <2>2. CASE held > 0 /\ TimersOf(held, hold, click, fired) /\ longs = holds + IF fired THEN 1 ELSE 0
    <3>1. held' > 0 /\ (held' = held \/ held' = held + 1) /\ (held <= 4 => held' = held + 1)
      BY <1>1, <1>2, <2>2 DEF Long, Standby
    <3>2. CASE fired
      <4>1. hold = 0 /\ held >= 5 /\ click = 0
        BY <2>2, <3>2 DEF TimersOf, HoldUnits
      <4>2. hold' = 0 /\ held' >= 5 /\ click' = 0
        BY <1>1, <1>2, <3>1, <4>1 DEF Less
      <4> QED
        BY <3>2, <4>2, <3>1, <1>3, <2>2 DEF TimersOf, Phase, HoldUnits
    <3>3. CASE ~fired
      <4>1. hold + held = 6 /\ hold >= 1 /\ (click = 0 \/ click + 2 <= hold)
        BY <2>2, <3>3 DEF TimersOf, HoldUnits, ClickUnits
      <4>2. hold' = hold - 1 /\ hold >= 2 /\ held' = held + 1
        BY <1>1, <1>2, <3>1, <4>1 DEF Less
      <4>3. click' = 0 \/ click' + 2 <= hold'
        BY <1>1, <1>2, <4>1, <4>2 DEF Less
      <4>4. hold' + held' = 6 /\ hold' >= 1
        BY <1>2, <4>1, <4>2
      <4> QED
        BY <1>3, <2>2, <3>1, <3>3, <4>3, <4>4 DEF TimersOf, Phase, HoldUnits, ClickUnits
    <3> QED
      BY <3>2, <3>3
  <2> QED
    BY <1>4, <1>5, <2>1, <2>2 DEF ToldAt, Phase
<1> QED
  BY <1>3, <1>4, <1>6, <1>7 DEF ToldAt

\* The hold is told.
LEMMA ToldHold ==
  ASSUME AllOK, ToldInv, HoldDue, ~disturbed
  PROVE  ToldAt(uplink, held, hold', click', fired', clicks', taps, holds, longs', told)
<1>1. hold = 1 /\ hold' = 0 /\ fired' /\ clicks' = 0 /\ click' = 0 /\ longs' = longs + 1
  BY DEF HoldDue
<1>2. held \in Nat /\ click \in Nat /\ clicks \in Nat /\ longs \in Nat /\ holds \in Nat /\ fired \in BOOLEAN
  BY GestureTypes
<1>3. ToldAt(uplink, held, hold, click, fired, clicks, taps, holds, longs, told) /\ (clicks > 0 => click > 0)
  BY DEF ToldInv
<1>4. \A n \in Nat : TimersOf(n, hold, click, fired) => ~fired /\ n = 5 /\ click = 0
  BY <1>1, <1>2 DEF TimersOf, HoldUnits, ClickUnits
<1>5. TimersOf(5, hold', click', fired')
  BY <1>1 DEF TimersOf, HoldUnits
<1>6. click = 0 => clicks = 0
  BY <1>2, <1>3
<1>7. CASE QuietFrom(uplink, 0) /\ held > 0 /\ TimersOf(held, hold, click, fired)
           /\ longs = holds + IF fired THEN 1 ELSE 0
  <2>1. ~fired /\ held = 5 /\ click = 0
    BY <1>2, <1>4, <1>7
  <2>2. longs' = holds + IF fired' THEN 1 ELSE 0
    BY <1>1, <1>2, <1>7, <2>1
  <2>3. Phase(uplink, held, hold', click', fired', holds, longs')
    BY <1>5, <1>7, <2>1, <2>2 DEF Phase
  <2> QED
    BY <1>1, <1>3, <1>6, <2>1, <2>3 DEF ToldAt
<1>8. ASSUME NEW d \in Durations, NextIn(uplink, 0, Ups({d})), TimersOf(Units(d), hold, click, fired),
             holds = longs + IF ~fired /\ d >= 4 THEN 1 ELSE 0
      PROVE  ToldAt(uplink, held, hold', click', fired', clicks', taps, holds, longs', told)
  <2>1. d \in Nat /\ Units(d) \in Nat /\ (Units(d) = 5 => d = 5)
    BY DEF Durations, Units, Blip
  <2>2. ~fired /\ d = 5 /\ click = 0 /\ Units(d) = 5
    BY <1>4, <1>8, <2>1
  <2>3. holds = longs' + IF ~fired' /\ d >= 4 THEN 1 ELSE 0
    BY <1>1, <1>2, <1>8, <2>2
  <2>4. Phase(uplink, held, hold', click', fired', holds, longs')
    BY <1>5, <1>8, <2>2, <2>3 DEF Phase
  <2> QED
    BY <1>1, <1>3, <1>6, <2>2, <2>4 DEF ToldAt
<1>9. Phase(uplink, held, hold, click, fired, holds, longs) /\ hold # 0
  BY <1>1, <1>3 DEF ToldAt
<1> QED
  BY <1>7, <1>8, <1>9, Zenon DEF Phase

\* The clicks are told.
LEMMA ToldClicks ==
  ASSUME AllOK, ToldInv, ClickDue, ~disturbed
  PROVE  ToldAt(uplink, held, hold, click', fired, clicks', taps, holds, longs, told')
<1>1. click = 1 /\ click' = 0 /\ clicks' = 0 /\ told' = told + clicks
  BY DEF ClickDue
<1>2. clicks \in Nat /\ told \in Nat
  BY GestureTypes
<1>3. ToldAt(uplink, held, hold, click, fired, clicks, taps, holds, longs, told)
  BY DEF ToldInv
<1>4. \A n : TimersOf(n, hold, click, fired) => TimersOf(n, hold, click', fired)
  BY <1>1 DEF TimersOf
<1>5. Phase(uplink, held, hold, click', fired, holds, longs)
  BY <1>3, <1>4, Zenon DEF ToldAt, Phase
<1>6. taps = told' + clicks' + Count(uplink, Clicked)
  <2>1. Count(uplink, Clicked) \in Nat
    BY CountType DEF AllOK, UplinkOK
  <2> QED
    BY <1>1, <1>2, <1>3, <2>1 DEF ToldAt
<1> QED
  BY <1>3, <1>5, <1>6 DEF ToldAt

LEMMA AmountsNow == AllOK => Amounts(uplink, held, hold, click, fired, clicks, taps, holds, longs, told)
BY GestureTypes DEF Amounts, AllOK, UplinkOK

LEMMA ToldDispatched ==
  ASSUME AllOK, HoldsInv, ToldInv, Dispatch, ~disturbed'
  PROVE  ToldAt(uplink', held', hold', click', fired', clicks', taps', holds', longs', told')
<1> DEFINE p == Head(uplink)
           s == Tail(uplink)
<1>1. /\ uplink \in Seq(Packets) /\ uplink # << >> /\ uplink' = s
      /\ Process(p) /\ UNCHANGED << held, taps, holds >>
  <2>1. UNCHANGED << held, taps, holds >>
    BY DEF Dispatch
  <2> QED
    BY <2>1 DEF Dispatch, AllOK, UplinkOK
<1>2. p = uplink[1] /\ p \in Packets /\ s \in Seq(Packets)
  BY <1>1, BehindFirst
<1> HIDE DEF p
<1>3. /\ held \in Nat /\ hold \in Nat /\ click \in Nat /\ clicks \in Nat /\ fired \in BOOLEAN
      /\ taps \in Nat /\ holds \in Nat /\ longs \in Nat /\ told \in Nat
      /\ click \in 0 .. ClickUnits + 1
  BY GestureTypes
<1>0. Amounts(uplink, held, hold, click, fired, clicks, taps, holds, longs, told)
  BY AmountsNow
<1>4. disturbed' = (disturbed \/ (ota /\ p.kind \in {"press", "release"}))
  BY <1>1 DEF Process
<1>5. ~disturbed /\ (Edge(p) => ~ota)
  BY <1>4 DEF Edge
<1>6. ToldAt(uplink, held, hold, click, fired, clicks, taps, holds, longs, told) /\ (clicks > 0 => click > 0)
  BY <1>5 DEF ToldInv
<1>7. HoldsAt(uplink, held, hold, fired, longs, presses)
  BY DEF HoldsInv
<1> HIDE DEF s
<1>8. CASE ~Edge(p)
  <2>1. NoGesture
    BY <1>1, <1>8 DEF Process, Edge
  <2>2. ToldAt(s, held, hold, click, fired, clicks, taps, holds, longs, told)
    BY <1>0, <1>1, <1>2, <1>6, <1>8, ToldSkipped DEF s
  <2> QED
    BY <1>1, <2>1, <2>2 DEF NoGesture
<1>9. CASE p.kind = "press"
  <2>1. TakePress
    BY <1>1, <1>5, <1>9 DEF Process, Edge
  <2>2. uplink[1] \in Downs
    BY <1>2, <1>9 DEF Downs
  <2>3. ASSUME NEW g, g = FALSE PROVE ToldAt(s, held, HoldUnits + 1, click, g, clicks, taps, holds, longs, told)
    BY <1>0, <1>1, <1>3, <1>6, <2>2, <2>3, ToldDown DEF s
  <2>4. hold' = HoldUnits + 1 /\ fired' = FALSE /\ UNCHANGED << click, clicks, longs, told >>
    BY <2>1 DEF TakePress
  <2> QED
    BY <1>1, <2>3, <2>4
<1>10. CASE p.kind = "release"
  <2>1. TakeRelease(p.duration)
    BY <1>1, <1>5, <1>10 DEF Process, Edge
  <2>2. PICK d \in Durations : d = p.duration
    BY <1>2, <1>10, PacketFacts DEF Durations
  <2>3. uplink[1] \in Ups({d})
    BY <1>2, <1>10, <2>2 DEF Ups
  <2>4. AfterUp(s, held, click, fired, clicks, taps, holds, longs, told, d, fired')
    <3>1. uplink # << >> /\ (clicks > 0 => click > 0)
      BY <1>1, <1>6
    <3>2. ToldAt(uplink, held, hold, click, fired, clicks, taps, holds, longs, told)
      BY <1>6
    <3>3. fired' = FALSE
      BY <1>3, <2>1 DEF TakeRelease
    <3> QED
      BY <1>0, <1>7, <2>3, <3>1, <3>2, <3>3, ToldUp, Zenon DEF s
  <2>5. hold' = 0 /\ UNCHANGED told
    BY <1>3, <2>1 DEF TakeRelease
  <2>6. CASE fired
    BY <1>1, <2>1, <2>4, <2>5, <2>6 DEF TakeRelease, AfterUp
  <2>7. CASE ~fired /\ d \in {4, 5}
    <3>1. longs' = longs + 1 /\ click' = 0 /\ clicks' = 0
      BY <2>1, <2>2, <2>7 DEF TakeRelease
    <3> QED
      BY <1>1, <2>4, <2>5, <2>7, <3>1 DEF AfterUp
  <2>8. CASE ~fired /\ d \in 1 .. 3
    <3>1. longs' = longs /\ click' = ClickUnits + 1 /\ clicks' = clicks + 1
      BY <2>1, <2>2, <2>8 DEF TakeRelease
    <3> QED
      BY <1>1, <2>4, <2>5, <2>8, <3>1 DEF AfterUp
  <2>9. CASE ~fired /\ d \notin {4, 5} /\ d \notin 1 .. 3
    <3>1. UNCHANGED << click, clicks, longs >>
      BY <2>1, <2>2, <2>9 DEF TakeRelease
    <3> QED
      BY <1>1, <2>4, <2>5, <2>9, <3>1 DEF AfterUp
  <2> QED
    BY <2>6, <2>7, <2>8, <2>9
<1> QED
  BY <1>8, <1>9, <1>10 DEF Edge

\* The clicks that are counted have their timer.
LEMMA ClicksTimed ==
  ASSUME AllOK, SensorsTypeOK', clicks > 0 => click > 0, [DeviceNext]_vars
  PROVE  clicks' > 0 => click' > 0
<1>1. clicks \in Nat /\ click \in Nat
  BY GestureTypes
<1>2. CASE Aside \/ Behind \/ OneLost \/ AllLost
  BY <1>2 DEF Aside, Behind, OneLost, AllLost, sofar
<1>3. CASE EspAnew \/ GdAnew
  BY <1>3 DEF EspAnew, GdAnew
<1>4. CASE Press \/ \E d \in 0 .. Long : LetGo(d)
  BY <1>4 DEF Press, LetGo
<1>5. CASE Elapse
  <2>1. click' = Less(click) /\ clicks' = clicks
    BY <1>5 DEF Elapse
  <2> QED
    BY <1>1, <2>1 DEF Less
<1>6. CASE HoldDue \/ ClickDue
  BY <1>6 DEF HoldDue, ClickDue
<1>7. CASE Dispatch
  <2>1. NoGesture \/ TakePress \/ \E d : TakeRelease(d)
    BY <1>7 DEF Dispatch, Process
  <2>2. CASE NoGesture \/ TakePress
    BY <2>2 DEF NoGesture, TakePress
  <2>3. ASSUME NEW d, TakeRelease(d) PROVE clicks' > 0 => click' > 0
    BY <2>3 DEF TakeRelease, ClickUnits
  <2> QED
    BY <2>1, <2>2, <2>3
<1> QED
  BY <1>2, <1>3, <1>4, <1>5, <1>6, <1>7, GestureCases

LEMMA ToldStep == AllOK /\ SensorsTypeOK' /\ HoldsInv /\ ToldInv /\ [DeviceNext]_vars => ToldInv'
<1> SUFFICES ASSUME AllOK, SensorsTypeOK', HoldsInv, ToldInv, [DeviceNext]_vars, ~disturbed'
             PROVE  ToldAt(uplink', held', hold', click', fired', clicks', taps', holds', longs', told')
  BY ClicksTimed DEF ToldInv
<1>1. uplink \in Seq(Packets) /\ UplinkOK
  BY DEF AllOK, UplinkOK
<1>2. /\ held \in Nat /\ hold \in Nat /\ click \in Nat /\ clicks \in Nat /\ fired \in BOOLEAN
      /\ taps \in Nat /\ holds \in Nat /\ longs \in Nat /\ told \in Nat
      /\ held \in 0 .. Standby
  BY GestureTypes
<1>3. ~disturbed => ToldAt(uplink, held, hold, click, fired, clicks, taps, holds, longs, told)
  BY DEF ToldInv
<1>4. On \/ uplink = << >>
  BY DEF HoldsInv
<1>0. Amounts(uplink, held, hold, click, fired, clicks, taps, holds, longs, told)
  BY AmountsNow
<1>5. CASE Aside
  BY <1>3, <1>5 DEF Aside, sofar
<1>6. CASE Behind
  <2>1. PICK x \in Packets : ~Edge(x) /\ Sent(x)
    BY <1>6 DEF Behind
  <2>2. UNCHANGED << sofar, disturbed >>
    BY <1>6 DEF Behind
  <2>3. ToldAt(uplink', held, hold, click, fired, clicks, taps, holds, longs, told)
    <3>1. ToldAt(Append(uplink, x), held, hold, click, fired, clicks, taps, holds, longs, told)
      BY <1>0, <1>3, <2>1, <2>2, ToldBehind
    <3> QED
      BY <1>3, <1>4, <2>1, <2>2, <3>1 DEF Sent
  <2> QED
    BY <2>2, <2>3 DEF sofar
<1>7. CASE OneLost
  <2>1. ~disturbed /\ ~Edges
    BY <1>7 DEF OneLost
  <2>2. ~Edge(uplink[1])
    <3>1. 1 \in 1 .. Len(uplink) /\ 0 + 1 = 1
      BY <1>1, <1>7, BehindFirst DEF OneLost
    <3> QED
      BY <1>1, <2>1, <3>1, EdgesSeen DEF QuietFrom
  <2>3. ToldAt(Tail(uplink), held, hold, click, fired, clicks, taps, holds, longs, told)
    BY <1>0, <1>3, <1>7, <2>1, <2>2, ToldSkipped DEF OneLost
  <2> QED
    BY <1>7, <2>3 DEF OneLost, sofar
<1>8. CASE AllLost
  <2>1. ~disturbed /\ QuietFrom(uplink, 0)
    BY <1>1, <1>8, EdgesSeen DEF AllLost
  <2>2. ToldAt(<< >>, held, hold, click, fired, clicks, taps, holds, longs, told)
    BY <1>0, <1>3, <2>1, ToldEmptied
  <2> QED
    BY <1>8, <2>2 DEF AllLost, sofar
<1>9. CASE EspAnew \/ GdAnew
  BY <1>9 DEF EspAnew, GdAnew
<1>10. CASE Press
  <2>1. /\ held = 0 /\ held' = 1 /\ Sent([kind |-> "press"])
        /\ UNCHANGED << esp, hold, click, fired, clicks >>
        /\ On
    BY <1>10 DEF Press
  <2>2. uplink' = Append(uplink, [kind |-> "press"]) /\ [kind |-> "press"] \in Downs
    BY <2>1, PacketFacts DEF Sent, Downs
  <2>3. ASSUME NEW g, g = 1
        PROVE  /\ ToldAt(uplink, held, hold, click, fired, clicks, taps, holds, longs, told)
                  => ToldAt(uplink', g, hold, click, fired, clicks, taps, holds, longs, told)
               /\ QuietFrom(uplink, 0) => ToldAt(uplink', g, 0, click, fired, 0, 0, 0, 0, 0)
    BY <1>0, <2>1, <2>2, <2>3, ToldPressed
  <2>4. CASE AtRest
    <3>1. hold = 0 /\ click = 0 /\ QuietFrom(uplink, 0) /\ clicks = 0
      <4>1. clicks > 0 => click > 0
        BY DEF ToldInv
      <4> QED
        BY <1>1, <1>2, <2>4, <4>1, EdgesSeen DEF AtRest
    <3>2. taps' = 0 /\ holds' = 0 /\ longs' = 0 /\ told' = 0
      BY <1>10, <2>4 DEF Press
    <3> QED
      BY <2>1, <2>3, <3>1, <3>2
  <2>5. CASE ~AtRest
    <3>1. ~disturbed /\ UNCHANGED << taps, holds, longs, told >>
      BY <1>10, <2>5 DEF Press
    <3> QED
      BY <1>3, <2>1, <2>3, <3>1
  <2> QED
    BY <2>4, <2>5
<1>11. ASSUME NEW d \in 0 .. Long, LetGo(d)
       PROVE  ToldAt(uplink', held', hold', click', fired', clicks', taps', holds', longs', told')
  <2>1. /\ held \in 1 .. Long /\ held' = 0 /\ Sent([kind |-> "release", duration |-> d])
        /\ d = held \/ (held = 1 /\ d = Blip)
        /\ UNCHANGED << esp, hold, click, fired, clicks, longs, told >>
        /\ taps' = taps + (IF d \in 1 .. 3 THEN 1 ELSE 0)
        /\ holds' = holds + (IF d >= 4 THEN 1 ELSE 0)
        /\ On /\ ~disturbed
    BY <1>11 DEF LetGo
  <2>2. uplink' = Append(uplink, [kind |-> "release", duration |-> d]) /\ d \in Durations
    BY <2>1 DEF Sent, Durations
  <2>3. ASSUME NEW g, g = 0
        PROVE  ToldAt(Append(uplink, [kind |-> "release", duration |-> d]), g, hold, click, fired, clicks,
                      taps + IF d \in 1 .. 3 THEN 1 ELSE 0, holds + IF d >= 4 THEN 1 ELSE 0, longs, told)
    BY <1>0, <1>3, <2>1, <2>2, <2>3, ToldReleased
  <2> QED
    BY <2>1, <2>2, <2>3
<1>12. CASE Elapse
  <2>1. UNCHANGED << uplink, fired, clicks, taps, holds, longs, told >>
    BY <1>12 DEF Elapse, boardVars, counts
  <2> QED
    BY <1>12, <2>1, ToldLater
<1>13. CASE HoldDue
  <2>1. UNCHANGED << uplink, held, taps, holds, told, disturbed >>
    BY <1>13 DEF HoldDue, boardVars
  <2> QED
    BY <1>13, <2>1, ToldHold
<1>14. CASE ClickDue
  <2>1. UNCHANGED << uplink, held, hold, fired, taps, holds, longs, disturbed >>
    BY <1>14 DEF ClickDue, boardVars
  <2> QED
    BY <1>14, <2>1, ToldClicks
<1>15. CASE Dispatch
  BY <1>15, ToldDispatched
<1> QED
  BY <1>5, <1>6, <1>7, <1>8, <1>9, <1>10, <1>11, <1>12, <1>13, <1>14, <1>15, GestureCases

LEMMA GesturesStart == DeviceInit => HoldsInv /\ ToldInv
<1> SUFFICES ASSUME DeviceInit PROVE HoldsInv /\ ToldInv
  OBVIOUS
<1>1. /\ uplink = << >> /\ held = 0 /\ hold = 0 /\ click = 0 /\ fired = FALSE /\ clicks = 0
      /\ presses = 0 /\ taps = 0 /\ holds = 0 /\ longs = 0 /\ told = 0
  BY DEF DeviceInit, ButtonsInit
<1>2. /\ QuietFrom(<< >>, 0) /\ ~NextIn(<< >>, 0, Releases) /\ Count(<< >>, Downs) = 0
      /\ Count(<< >>, Clicked) = 0
      /\ Chain(<< >>, Releases, Downs, held = 0) /\ Chain(<< >>, Downs, Shorts, held = 1)
  BY NothingThere
<1>3. HoldsInv
  <2>1. ~MayTell(uplink, held, hold, fired)
    BY <1>1, <1>2 DEF MayTell, UpNext
  <2> QED
    BY <1>1, <1>2, <2>1 DEF HoldsInv, HoldsAt
<1>4. Phase(uplink, held, hold, click, fired, holds, longs)
  BY <1>1, <1>2 DEF Phase
<1> QED
  BY <1>1, <1>2, <1>3, <1>4 DEF ToldInv, ToldAt

LEMMA GesturesFollow == AllOK /\ HoldsInv /\ ToldInv => GesturesTold
<1> SUFFICES ASSUME AllOK, HoldsInv, ToldInv PROVE GesturesTold
  OBVIOUS
<1>1. uplink \in Seq(Packets) /\ UplinkOK
  BY DEF AllOK, UplinkOK
<1>2. /\ clicks \in Nat /\ taps \in Nat /\ holds \in Nat /\ longs \in Nat /\ told \in Nat
      /\ presses \in Nat /\ Count(uplink, Downs) \in Nat
  BY <1>1, GestureTypes, CountType
<1>3. HoldToldOnce
  <2>1. longs + Count(uplink, Downs) + (IF MayTell(uplink, held, hold, fired) THEN 1 ELSE 0) <= presses
    BY DEF HoldsInv, HoldsAt
  <2> QED
    BY <1>2, <2>1 DEF HoldToldOnce
<1>4. ASSUME AtRest, ~disturbed PROVE told = taps /\ longs = holds
  <2>1. held = 0 /\ click = 0 /\ QuietFrom(uplink, 0)
    BY <1>1, <1>4, EdgesSeen DEF AtRest
  <2>2. taps = told + clicks + Count(uplink, Clicked) /\ Phase(uplink, held, hold, click, fired, holds, longs)
    BY <1>4 DEF ToldInv, ToldAt
  <2>3. Count(uplink, Clicked) = 0
    BY <1>1, <2>1, EdgeSets, QuietCounts DEF Clicked
  <2>4. clicks = 0
    BY <1>2, <2>1 DEF ToldInv
  <2>5. ~NextIn(uplink, 0, Downs) /\ \A D : ~NextIn(uplink, 0, Ups(D))
    BY <1>1, <2>1, NextKinds
  <2>6. longs = holds
    <3>1. ~(held > 0)
      BY <2>1
    <3> QED
      BY <2>2, <2>5, <3>1, Zenon DEF Phase
  <2> QED
    BY <1>2, <2>2, <2>3, <2>4, <2>6
<1> QED
  BY <1>3, <1>4 DEF GesturesTold, ToldAtRest

\* Whoever presses the button for however long, and whatever is lost, late or
\* restarted on the way: when the button is at rest again and nothing was, its clicks
\* and its holds have been told, each once; and in any case no press is told as a hold
\* twice (process_packet_ and the timeouts it sets).
THEOREM GesturesHeard == DeviceSpec => []GesturesTold
<1>1. DeviceInit => AllOK /\ HoldsInv /\ ToldInv
  BY TypesStart, GesturesStart
<1>2. AllOK /\ HoldsInv /\ ToldInv /\ [DeviceNext]_vars => (AllOK /\ HoldsInv /\ ToldInv)'
  <2>1. AllOK' => SensorsTypeOK'
    BY DEF AllOK
  <2> QED
    BY <2>1, TypesStep, HoldsStep, ToldStep
<1>3. AllOK /\ HoldsInv /\ ToldInv => GesturesTold
  BY GesturesFollow
<1> QED
  BY <1>1, <1>2, <1>3, PTL DEF DeviceSpec
=============================================================================
