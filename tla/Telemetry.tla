------------------------------ MODULE Telemetry ------------------------------
(***************************************************************************)
(* The way of a reading: measured (app_sensor.c), kept for the case that   *)
(* the next measurement fails, put into a payload (app_coap_client_send),  *)
(* sent without confirmation, and stored as the node's last_reading by     *)
(* the registry.  One node, which polls and sleeps between its readings    *)
(* as NodeOta says and may restart at any time; here a sleep or a restart   *)
(* only clears its memory or does not.  The number of a report             *)
(* (s_seq_num) is left out: neither the registry nor the REST API looks at *)
(* it.                                                                     *)
(***************************************************************************)
EXTENDS SensorHal

CONSTANTS
  Drivers,         \* the builds: CONFIG_APP_SENSOR_TYPE_DHT22 and _SHT31
  Deep,            \* CONFIG_APP_SLEEP_MODE_DEEP
  CoapMaxRetries,  \* COAP_MAX_RETRIES
  NoTruth,         \* nothing was measured
  MaxReadings, MaxMishaps \* bounds

ASSUME TelemetryAssumption ==
  /\ Drivers \subseteq {"dht22", "sht31"} /\ Deep \in BOOLEAN
  /\ CoapMaxRetries \in Nat \ {0}
  /\ NoTruth \notin [t : Int, h : Int]
  /\ {MaxReadings, MaxMishaps} \subseteq Nat

VARIABLES
  driver,     \* the build of the node
  phase,      \* where its sensor task is
  s_last,     \* the last successful reading
  reading,    \* the reading of this cycle
  attempt,    \* failed attempts to send it
  readings,   \* how many have been taken
  network,    \* payloads on their way
  entry,      \* the router's entry of the node: total_reports and last_reading
  mishaps     \* failed sends, duplicates and restarts so far

nodeVars == <<driver, phase, s_last, reading, attempt, readings>>
pathVars == <<nodeVars, network, entry, mishaps>>

\* truth and number are history: the measurement a reading stands for, and
\* the cycle that sends it.
Empty     == [t |-> 0, h |-> 0, valid |-> FALSE, truth |-> NoTruth, number |-> 0]
Payload(r) == [t |-> r.t, h |-> r.h, err |-> ~r.valid, truth |-> r.truth,
               number |-> r.number]

PathInit ==
  /\ driver \in Drivers
  /\ phase = "read" /\ s_last = Empty /\ reading = Empty /\ attempt = 0
  /\ readings = 0
  /\ network = {} /\ mishaps = 0
  /\ entry = [reports |-> 0, last |-> Payload(Empty)]

------------------------------------------------------------------------------
(* The node.                                                               *)

\* app_sensor_read, and the last reading instead of one that failed.
TakeReading ==
  /\ phase = "read" /\ readings < MaxReadings
  /\ \E m \in Measurements[driver] : \E r \in m.reads :
       /\ reading' = IF r.ok THEN [t |-> r.t, h |-> r.h, valid |-> TRUE, truth |-> m.truth, number |-> readings + 1]
                             ELSE [s_last EXCEPT !.valid = FALSE, !.number = readings + 1]
       /\ s_last' = IF r.ok THEN reading' ELSE s_last
  /\ phase' = "send" /\ attempt' = 0 /\ readings' = readings + 1
  /\ UNCHANGED <<driver, network, entry, mishaps>>

\* Not confirmable: what is handed to the network counts as sent.
SendReading ==
  /\ phase = "send"
  /\ network' = network \cup {Payload(reading)}
  /\ phase' = "sleep"
  /\ UNCHANGED <<driver, s_last, reading, attempt, readings, entry, mishaps>>

\* No session.
SendFails ==
  /\ phase = "send" /\ mishaps < MaxMishaps /\ mishaps' = mishaps + 1
  /\ attempt' = attempt + 1
  /\ phase' = IF attempt' = CoapMaxRetries THEN "sleep" ELSE "send"
  /\ UNCHANGED <<driver, s_last, reading, readings, network, entry>>

\* What is in RAM is lost.
Cleared == phase' = "read" /\ s_last' = Empty /\ reading' = Empty /\ attempt' = 0

\* Deep sleep ends in a start from clear memory, light sleep is a delay.
Sleep ==
  /\ phase = "sleep"
  /\ \/ Deep /\ Cleared
     \/ ~Deep /\ phase' = "read" /\ UNCHANGED <<s_last, reading, attempt>>
  /\ UNCHANGED <<driver, readings, network, entry, mishaps>>

\* CMD_REBOOT, the end of an update, or a loss of power, wherever the
\* sensor task is.
Restart ==
  /\ mishaps < MaxMishaps /\ mishaps' = mishaps + 1
  /\ Cleared
  /\ UNCHANGED <<driver, readings, network, entry>>

------------------------------------------------------------------------------
(* The network and the registry.                                           *)

\* app_device_registry_update: the latest to arrive is the last reading.
Arrive(p) ==
  /\ entry' = [reports |-> entry.reports + 1, last |-> p]
  /\ \/ network' = network \ {p} /\ UNCHANGED mishaps
     \/ /\ mishaps < MaxMishaps /\ mishaps' = mishaps + 1
        /\ UNCHANGED network
  /\ UNCHANGED nodeVars

Lose(p) ==
  /\ network' = network \ {p}
  /\ UNCHANGED <<nodeVars, entry, mishaps>>

PathNext ==
  \/ TakeReading \/ SendReading \/ SendFails \/ Sleep \/ Restart
  \/ \E p \in network : Arrive(p) \/ Lose(p)

------------------------------------------------------------------------------
(* Properties.                                                             *)

Int16 == -32768 .. 32767

PathTypeOK ==
  /\ driver \in Drivers /\ phase \in {"read", "send", "sleep"}
  /\ attempt \in 0 .. CoapMaxRetries
  /\ \A r \in {s_last, reading} : r.t \in Int16 /\ r.h \in 0 .. 10000
  /\ entry.reports \in Nat

Near(p) ==
  /\ p.truth # NoTruth
  /\ Abs(p.t - p.truth.t) <= 1 /\ Abs(p.h - p.truth.h) <= 1

\* What arrives without NODE_FLAG_SENSOR_ERROR was measured, to a hundredth,
\* whatever noise did to the sensor's frame, however old the reading is that
\* the payload carries and whenever the node restarts: "Sensor read failed last cycle"
\* (app_protocol.h:41).
UnmarkedIsMeasured == entry.reports > 0 => entry.last.err \/ Near(entry.last)
==============================================================================
