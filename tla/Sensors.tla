------------------------------- MODULE Sensors -------------------------------
(* The sensors and the charger of the GD32 (main.c, sensors.c, periph.c): the  *)
(* half minute's cycle that asks them and reports, what the ESP32 publishes of *)
(* a report (process_packet_ in htram_gd32.cpp), and the charge screen, which  *)
(* is all that looks at the charger in standby.                                *)
EXTENDS Board

VARIABLES
  air,      \* the readings and their flags in main()
  usb,      \* power is plugged in (PC13)
  charge,   \* the charger is enabled (PB2)
  seen,     \* last_usb, in standby
  lit       \* the charge screen is lit

sensorVars == << air, usb, charge, seen, lit >>
powerVars == << usb, charge, seen, lit >>

-----------------------------------------------------------------------------
(* The cycle. temp stands for temperature and humidity: never measured, measured in    *)
(* the last cycle, or in an older one.                                                 *)

AirStart == [temp |-> "none", err |-> TRUE, pending |-> FALSE, co2 |-> "zero", warmup |-> TRUE]

\* Mutant: a start that fails leaves the error flag as it was.
StartSht_quiet(a, answers) == [a EXCEPT !.pending = answers]

\* A start the SHT30 does not acknowledge is an error at once.
StartSht(a, answers) == [a EXCEPT !.pending = answers, !.err = @ \/ ~answers]

\* A CO2 sensor that does not answer, or not with a good checksum, leaves what there
\* was; one that warms up answers zero.
PollCo2(a, answers) ==
  IF answers
  THEN {[a EXCEPT !.co2 = "measured", !.warmup = FALSE], [a EXCEPT !.co2 = "zero", !.warmup = TRUE]}
  ELSE {a}

\* periph_read_battery: the charger is enabled as power is there.
ReadBattery == charge' = usb

\* That a sensor answers is an event from outside; by itself none does.
Cycle ==
  /\ ~air.pending /\ ReadBattery
  /\ \E answers \in SUBSET {"sht", "co2"} :
       /\ IF answers = {} THEN UNCHANGED events ELSE Ask("air")
       /\ air' \in PollCo2(StartSht([air EXCEPT !.temp = IF @ = "last" THEN "older" ELSE @],
                                    "sht" \in answers),
                           "co2" \in answers)
  /\ UNCHANGED << usb, seen, lit >>

\* The report goes out before the conversion it has just started is done.
Report == [kind |-> "telemetry", leds |-> panel, temp |-> air.temp, err |-> air'.err,
           co2 |-> air'.co2, warmup |-> air'.warmup \/ air'.co2 = "zero"]

\* 40 ms later: a reading, or a checksum that does not fit.
FetchSht ==
  /\ gd = "run" /\ air.pending
  /\ \E good \in BOOLEAN :
       air' = [air EXCEPT !.pending = FALSE, !.err = ~good, !.temp = IF good THEN "last" ELSE @]
  /\ UNCHANGED << boardVars, powerVars >>

\* What process_packet_ publishes of a report's readings.
PublishedOf(p) == (IF p.err THEN {} ELSE {p.temp}) \cup (IF p.warmup THEN {} ELSE {p.co2})

-----------------------------------------------------------------------------
(* Power. *)

Plug ==
  /\ gd # "boot" /\ Ask("power") /\ usb' = ~usb
  /\ UNCHANGED << esp, linkVars, air, charge, seen, lit >>

\* Mutant: power that comes or goes does not light the screen.
Noticed_dark == lit

Noticed == TRUE

\* The charge screen is lit by power that comes or goes, is drawn at once and then
\* every two seconds, each time after a look at the battery, and goes dark after
\* thirty.
Notice ==
  /\ gd = "standby" /\ seen # usb /\ seen' = usb /\ lit' = Noticed
  /\ UNCHANGED << boardVars, air, usb, charge >>

DrawCharge ==
  /\ gd = "standby" /\ lit /\ seen = usb /\ charge # usb /\ ReadBattery
  /\ UNCHANGED << boardVars, air, usb, seen, lit >>

Darken ==
  /\ gd = "standby" /\ lit /\ seen = usb /\ charge = usb /\ lit' = FALSE
  /\ UNCHANGED << boardVars, air, usb, charge, seen >>

\* A tap in standby, too short to wake the device.
Tap ==
  /\ gd = "standby" /\ ~lit /\ Ask("button") /\ lit' = TRUE
  /\ UNCHANGED << esp, linkVars, air, usb, charge, seen >>

SensorStep == FetchSht \/ Plug \/ Notice \/ DrawCharge \/ Darken \/ Tap

-----------------------------------------------------------------------------
\* The start of the GD32's program: nothing measured, and the charger enabled until
\* the first look.
SensorsBoot == air' = AirStart /\ charge' = TRUE /\ UNCHANGED << usb, seen, lit >>

SensorsSleep == seen' = usb /\ lit' = TRUE /\ UNCHANGED << air, usb, charge >>

SensorsInit == /\ air = AirStart
               /\ usb = TRUE /\ charge = TRUE /\ seen = TRUE /\ lit = FALSE

SensorsTypeOK ==
  /\ air \in [temp : {"none", "last", "older"}, co2 : {"zero", "measured"},
              err : BOOLEAN, pending : BOOLEAN, warmup : BOOLEAN]
  /\ {usb, charge, seen, lit} \subseteq BOOLEAN

\* Of the reports on their way, the flags hold back every temperature and humidity that
\* is older than the last cycle, whatever failed or restarted, and every zero for a CO2
\* value. A CO2 value that was measured stays good: a CO2 sensor that stops answering
\* sets no flag, and its last value is published for as long as the GD32 runs.
OnlyReadings ==
  \A i \in DOMAIN uplink :
    uplink[i].kind = "telemetry" => PublishedOf(uplink[i]) \subseteq {"last", "measured"}

\* Whoever runs, the charger comes to be enabled exactly when power is there: in
\* standby too, where only the charge screen looks.
ChargerFollows == []<>(charge = usb \/ gd = "boot")
=============================================================================
