--------------------------- MODULE Connectivity_proofs ---------------------------
(***************************************************************************)
(* Proofs for every back-off ceiling, number of attempts and timeout: how  *)
(* long the MQTT client can be away from a broker it could reach, and what *)
(* the access point takes.                                                 *)
(***************************************************************************)
EXTENDS Connectivity, TLAPS

USE MqttAssumption, WifiAssumption DEF MIN_CONNECT_INTERVAL, MIN_RECONNECT_INTERVAL

-----------------------------------------------------------------------------
(* ReconnectsInTime.  While the client is idle the wait so far is covered  *)
(* by the timer of the last attempt, plus one longest back-off if the last *)
(* thing it did was to start a new cycle.                                  *)
ClientTypes ==
    /\ ready \in Nat /\ sinceConnect \in 0..MAX_CONNECT_INTERVAL
    /\ connectAttempts \in Nat
    /\ connectInterval \in 1..MAX_CONNECT_INTERVAL
    /\ step \in {"idle", "test", "plain", "will"}

InitializedRuns == initialized => pc \in {"loop", "connecting"}

WaitCovered ==
    /\ ready <= 2 * MAX_CONNECT_INTERVAL
    /\ step = "idle" => ready <= sinceConnect + MAX_CONNECT_INTERVAL
    /\ step = "idle" /\ connectAttempts > 0 => ready <= sinceConnect

WaitInv == ClientTypes /\ InitializedRuns /\ WaitCovered

LEMMA DoubledBounded ==
    ASSUME NEW max \in Nat \ {0}, NEW i \in 1..max
    PROVE  Doubled(i, max) \in 1..max
BY DEF Doubled, Least

LEMMA NoWait ==
    ASSUME NEW since \in 0..MAX_CONNECT_INTERVAL
    PROVE  0 <= 2 * MAX_CONNECT_INTERVAL /\ 0 <= since + MAX_CONNECT_INTERVAL /\ 0 <= since
OBVIOUS

LEMMA WaitInvInit == Init => WaitInv
<1> SUFFICES ASSUME Init PROVE WaitInv
  OBVIOUS
<1>1. ClientTypes
  BY DEF Init, ClientTypes
<1>2. InitializedRuns
  BY DEF Init, WifiInit, InitializedRuns
<1>3. WaitCovered
  BY DEF Init, WaitCovered
<1> QED
  BY <1>1, <1>2, <1>3 DEF WaitInv

(* The steps of the loop task and of the environment leave the client      *)
(* alone; the wait goes on or is over.                                     *)
LEMMA WaitKept ==
    ASSUME WaitInv, UNCHANGED <<mqtt, step, connectAttempts, connectInterval, sinceConnect>>,
           ready' \in {ready, 0}, InitializedRuns'
    PROVE  WaitInv'
BY DEF WaitInv, ClientTypes, WaitCovered

LEMMA InitializedRunsStep == InitializedRuns /\ OwnWifi => InitializedRuns'
BY DEF InitializedRuns, OwnWifi, WifiStep, ConnectSucceeds, Begin, BeginFallsBack, BootGivesUp,
       InitializedAnyway, reconnect, OutOfAttempts, ReconnectDue, ReconnectFails, StartStation,
       wifi, settings, backoff

LEMMA WaitInvStep == WaitInv /\ [Next]_vars => WaitInv'
<1> SUFFICES ASSUME WaitInv, [Next]_vars PROVE WaitInv'
  OBVIOUS
<1> USE DEF WaitInv
<1>1. CASE CloseConnection
  BY <1>1, WaitKept DEF CloseConnection, wifi, InitializedRuns
<1>2. CASE StartConnect
  BY <1>2 DEF StartConnect, wifi, InitializedRuns, ClientTypes, WaitCovered
<1>3. CASE BackOff
  <2>1. connectAttempts > 0 /\ step = "idle"
    BY <1>3 DEF BackOff, ConnectDue, Running, ClientTypes
  <2>2. ready <= MAX_CONNECT_INTERVAL
    BY <2>1 DEF WaitCovered, ClientTypes
  <2> QED
    BY <1>3, <2>1, <2>2 DEF BackOff, NextCycle, wifi, InitializedRuns, ClientTypes, WaitCovered
<1>4. CASE TestPasses
  BY <1>4 DEF TestPasses, wifi, InitializedRuns, ClientTypes, WaitCovered
<1>5. CASE PlainFails
  BY <1>5 DEF PlainFails, wifi, InitializedRuns, ClientTypes, WaitCovered
<1>6. CASE Connects
  BY <1>6 DEF Connects, wifi, InitializedRuns, ClientTypes, WaitCovered
<1>7. CASE ConnectFails
  <2>1. connectInterval' \in 1..MAX_CONNECT_INTERVAL
    BY <1>7, DoubledBounded DEF ConnectFails, ClientTypes
  <2> QED
    BY <1>7, <2>1 DEF ConnectFails, wifi, InitializedRuns, ClientTypes, WaitCovered
<1>8. CASE Time
  <2>1. UNCHANGED <<mqtt, step, connected, connectAttempts, connectInterval>> /\ step = "idle"
    BY <1>8 DEF Time, MqttBusy
  <2>2. InitializedRuns'
    BY <1>8 DEF Time, WifiTime, InitializedRuns
  <2>3. sinceConnect' = Least(sinceConnect + 1, MAX_CONNECT_INTERVAL)
    BY <1>8 DEF Time
  <2>4. \/ ready' = 0
        \/ ready' = ready + 1 /\ mqtt /\ Reachable /\ ~connected
    BY <1>8 DEF Time
  <2>5. CASE ready' = 0
    <3>1. sinceConnect' \in 0..MAX_CONNECT_INTERVAL
      BY <2>3 DEF Least, ClientTypes
    <3>2. ClientTypes'
      BY <2>1, <2>5, <3>1 DEF ClientTypes
    <3>3. WaitCovered'
      BY <2>5, <3>1, NoWait DEF WaitCovered
    <3> QED
      BY <2>2, <3>2, <3>3
  <2>6. CASE ready' = ready + 1 /\ mqtt /\ Reachable /\ ~connected
    <3>1. sinceConnect < connectInterval
      BY <1>8, <2>1, <2>6 DEF Time, MqttBusy, ConnectDue, Running, Reachable, isConnected,
                          InitializedRuns, ClientTypes
    <3>2. sinceConnect' = sinceConnect + 1
      BY <2>3, <3>1 DEF Least, ClientTypes
    <3> QED
      BY <2>1, <2>2, <2>6, <3>1, <3>2 DEF ClientTypes, WaitCovered
  <2> QED
    BY <2>4, <2>5, <2>6
<1>9. CASE Settle
  BY <1>9, WaitKept DEF Settle, wifi, client, InitializedRuns, ClientTypes
<1>10. ASSUME Disturbed PROVE ready' \in {ready, 0}
  BY <1>10 DEF Disturbed
<1>11. CASE OwnWifi /\ Disturbed
  <2>1. UNCHANGED client
    BY <1>11 DEF OwnWifi
  <2> QED
    BY <1>10, <1>11, <2>1, InitializedRunsStep, WaitKept DEF client, ClientTypes
<1>12. CASE Air /\ Disturbed
  <2>1. UNCHANGED <<client, initialized, pc>>
    BY <1>12 DEF Air, Associate, RadioDrops, RouterGoes, RouterComes, Radio
  <2> QED
    BY <1>10, <1>12, <2>1, WaitKept DEF client, ClientTypes, InitializedRuns
<1>13. CASE BrokerGoes /\ Disturbed
  BY <1>10, <1>13, WaitKept DEF BrokerGoes, wifi, InitializedRuns
<1>14. CASE BrokerComes /\ Disturbed
  BY <1>10, <1>14, WaitKept DEF BrokerComes, wifi, client, InitializedRuns, ClientTypes
<1>15. CASE UNCHANGED vars
  BY <1>15, WaitKept DEF vars, wifi, client, InitializedRuns, ClientTypes
<1> QED
  BY <1>1, <1>2, <1>3, <1>4, <1>5, <1>6, <1>7, <1>8, <1>9, <1>11, <1>12, <1>13, <1>14, <1>15
  DEF Next, MqttStep

(* Whatever the back-off constants are, the client is back at a broker it  *)
(* can reach within two of its longest back-offs.                          *)
THEOREM ClientReconnectsInTime == Spec => []ReconnectsInTime
<1>1. WaitInv => ReconnectsInTime
  BY DEF WaitInv, WaitCovered, ReconnectsInTime
<1> QED
  BY WaitInvInit, WaitInvStep, <1>1, PTL DEF Spec

-----------------------------------------------------------------------------
(* FallbackEarned.  In the loop the count of attempts is, up to its        *)
(* ceiling, the count of attempts that failed since the last success.      *)
CountsFailures ==
    /\ reconnectAttempts \in Nat /\ failures \in Nat
    /\ pc \in {"off", "boot"} => reconnectAttempts = 0 /\ failures = 0
    /\ pc = "loop" => failures = Least(reconnectAttempts, MAX_RECONNECT_ATTEMPTS)
    /\ pc = "connecting" => /\ reconnectAttempts = failures + 1
                            /\ reconnectAttempts <= MAX_RECONNECT_ATTEMPTS

LEMMA CountsFailuresInit == Init => CountsFailures
BY DEF Init, WifiInit, CountsFailures

LEMMA CountsFailuresStep == CountsFailures /\ [Next]_vars => CountsFailures'
<1> SUFFICES ASSUME CountsFailures, [Next]_vars PROVE CountsFailures'
  OBVIOUS
<1> USE DEF CountsFailures
<1>1. CASE UNCHANGED <<pc, backoff, failures>>
  BY <1>1 DEF backoff
<1>2. CASE ConnectSucceeds
  BY <1>2 DEF ConnectSucceeds, ResetBackoff, Least
<1>3. CASE Begin
  BY <1>3 DEF Begin, backoff
<1>4. CASE BeginFallsBack
  BY <1>4 DEF BeginFallsBack, BootGivesUp, backoff, Least
<1>5. CASE reconnect
  BY <1>5 DEF reconnect, ReconnectDue, CountAttempt, Least
<1>6. CASE OutOfAttempts
  BY <1>6 DEF OutOfAttempts, ReconnectDue, CountAttempt, Least
<1>7. CASE ReconnectFails
  BY <1>7 DEF ReconnectFails, Least
<1>8. CASE MqttStep \/ Settle \/ BrokerGoes \/ BrokerComes
  BY <1>1, <1>8 DEF MqttStep, CloseConnection, StartConnect, BackOff, TestPasses, PlainFails,
     Connects, ConnectFails, Settle, BrokerGoes, BrokerComes, wifi
<1>9. CASE Time \/ Air
  BY <1>1, <1>9 DEF Time, WifiTime, Air, Associate, RadioDrops, RouterGoes, RouterComes, Radio
<1> QED
  BY <1>1, <1>2, <1>3, <1>4, <1>5, <1>6, <1>7, <1>8, <1>9 DEF Next, OwnWifi, WifiStep, vars, wifi

(* Only OutOfAttempts opens the access point from the loop, after its      *)
(* attempts were all spent in vain.                                        *)
LEMMA FallbackStep ==
    CountsFailures /\ [Next]_vars =>
        [pc = "loop" /\ ~apMode /\ apMode' => failures = MAX_RECONNECT_ATTEMPTS]_vars
<1> SUFFICES ASSUME CountsFailures, Next, pc = "loop", ~apMode, apMode'
             PROVE  failures = MAX_RECONNECT_ATTEMPTS
  OBVIOUS
<1>1. CASE OutOfAttempts
  BY <1>1 DEF OutOfAttempts, CountsFailures, Least
<1>2. CASE ConnectSucceeds \/ Begin \/ BeginFallsBack \/ reconnect \/ ReconnectFails
  BY <1>2 DEF ConnectSucceeds, StationUp, Begin, BeginFallsBack, BootGivesUp, reconnect,
              ReconnectFails
<1>3. CASE MqttStep \/ Settle \/ BrokerGoes \/ BrokerComes
  BY <1>3 DEF MqttStep, CloseConnection, StartConnect, BackOff, TestPasses, PlainFails,
     Connects, ConnectFails, Settle, BrokerGoes, BrokerComes, wifi
<1>4. CASE Time \/ Air
  BY <1>4 DEF Time, WifiTime, Air, Associate, RadioDrops, RouterGoes, RouterComes, Radio
<1> QED
  BY <1>1, <1>2, <1>3, <1>4 DEF Next, OwnWifi, WifiStep

(* The access point is opened only after every allowed reconnect failed.   *)
THEOREM WifiFallbackEarned == Spec => FallbackEarned
BY CountsFailuresInit, CountsFailuresStep, FallbackStep, PTL DEF Spec, FallbackEarned

-----------------------------------------------------------------------------
(* The types are inductive as they stand: a connect is given up when its   *)
(* timeout is reached, because time passes only when nothing is due.       *)
Flags == {apEnabled, ssid, initialized, apMode, associated, router, mqtt, connected, broker,
          calm} \subseteq BOOLEAN
Places == /\ pc \in {"off", "boot", "loop", "connecting"} /\ mode \in {"off", "sta", "ap"}
          /\ step \in {"idle", "test", "plain", "will"}
WifiCounts ==
    /\ reconnectAttempts \in 0..(MAX_RECONNECT_ATTEMPTS + 1)
    /\ failures \in 0..MAX_RECONNECT_ATTEMPTS
    /\ reconnectInterval \in 1..MAX_RECONNECT_INTERVAL
    /\ sinceAttempt \in 0..MAX_RECONNECT_INTERVAL /\ waiting \in 0..ConnectTimeout
ClientCounts ==
    /\ connectAttempts \in 0..MAX_CONNECT_ATTEMPTS
    /\ connectInterval \in 1..MAX_CONNECT_INTERVAL
    /\ sinceConnect \in 0..MAX_CONNECT_INTERVAL /\ ready \in Nat
Types == Flags /\ Places /\ WifiCounts /\ ClientCounts

LEMMA TypesAre == Types <=> TypeOK
  BY DEF Types, Flags, Places, WifiCounts, ClientCounts, TypeOK, WifiTypeOK

LEMMA TypesInit == Init => Types
<1> SUFFICES ASSUME Init PROVE Types
  OBVIOUS
<1>1. Flags /\ Places
  BY DEF Init, WifiInit, Flags, Places
<1>2. WifiCounts /\ ClientCounts
  BY DEF Init, WifiInit, WifiCounts, ClientCounts
<1> QED
  BY <1>1, <1>2 DEF Types

LEMMA FlagsStep == Flags /\ [Next]_vars => Flags'
  BY DEF Flags, Next, vars, wifi, client, settings, backoff, MqttStep, CloseConnection, StartConnect,
     BackOff, TestPasses, PlainFails, Connects, ConnectFails, Settle, BrokerGoes, BrokerComes,
     Time, WifiTime, Air, Associate, RadioDrops, RouterGoes, RouterComes, Radio, OwnWifi, WifiStep,
     ConnectSucceeds, Begin, BeginFallsBack, InitializedAnyway, startAP, reconnect, OutOfAttempts,
     ReconnectFails

LEMMA PlacesStep == Places /\ [Next]_vars => Places'
  BY DEF Places, Next, vars, wifi, client, MqttStep, CloseConnection, StartConnect,
     BackOff, TestPasses, PlainFails, Connects, ConnectFails, Settle, BrokerGoes, BrokerComes,
     Time, WifiTime, Air, Associate, RadioDrops, RouterGoes, RouterComes, Radio, OwnWifi, WifiStep,
     ConnectSucceeds, Begin, BeginFallsBack, startAP, StartStation, reconnect, OutOfAttempts,
     ReconnectFails

LEMMA WifiCountsStep == Types /\ [Next]_vars => WifiCounts'
<1> SUFFICES ASSUME Types, [Next]_vars PROVE WifiCounts'
  OBVIOUS
<1> USE DEF Types, WifiCounts
<1>1. CASE UNCHANGED <<backoff, sinceAttempt, waiting, failures>>
  BY <1>1 DEF backoff
<1>2. CASE ConnectSucceeds
  BY <1>2 DEF ConnectSucceeds, ResetBackoff
<1>3. CASE Begin
  BY <1>3 DEF Begin, StartStation, backoff
<1>4. CASE reconnect
  <2>1. Doubled(reconnectInterval, MAX_RECONNECT_INTERVAL) \in 1..MAX_RECONNECT_INTERVAL
    BY DoubledBounded
  <2>2. reconnectAttempts' \in 0..(MAX_RECONNECT_ATTEMPTS + 1) /\ sinceAttempt' = 0
    BY <1>4 DEF reconnect, CountAttempt, Least
  <2>3. Least(failures + 1, MAX_RECONNECT_ATTEMPTS) \in 0..MAX_RECONNECT_ATTEMPTS
    BY DEF Least
  <2>4. \/ UNCHANGED <<reconnectInterval, failures>> /\ waiting' = 0
        \/ /\ reconnectInterval' = Doubled(reconnectInterval, MAX_RECONNECT_INTERVAL)
           /\ failures' = Least(failures + 1, MAX_RECONNECT_ATTEMPTS) /\ waiting' = waiting
    BY <1>4 DEF reconnect, StartStation
  <2> QED
    BY <2>1, <2>2, <2>3, <2>4
<1>5. CASE OutOfAttempts
  BY <1>5 DEF OutOfAttempts, CountAttempt, Least
<1>6. CASE ReconnectFails
  <2>1. Doubled(reconnectInterval, MAX_RECONNECT_INTERVAL) \in 1..MAX_RECONNECT_INTERVAL
    BY DoubledBounded
  <2>2. Least(failures + 1, MAX_RECONNECT_ATTEMPTS) \in 0..MAX_RECONNECT_ATTEMPTS
    BY DEF Least
  <2> QED
    BY <1>6, <2>1, <2>2 DEF ReconnectFails
<1>7. CASE Time
  <2>1. pc \in {"boot", "connecting"} => waiting < ConnectTimeout
    BY <1>7 DEF Time, WifiBusy, StationUp, BootGivesUp, StationTimesOut
  <2>2. sinceAttempt' \in 0..MAX_RECONNECT_INTERVAL
    BY <1>7 DEF Time, WifiTime, Least
  <2> QED
    BY <1>7, <2>1, <2>2 DEF Time, WifiTime, backoff
<1> QED
  BY <1>1, <1>2, <1>3, <1>4, <1>5, <1>6, <1>7
  DEF Next, vars, wifi, MqttStep, CloseConnection, StartConnect, BackOff, TestPasses, PlainFails,
      Connects, ConnectFails, Settle, BrokerGoes, BrokerComes, Air, Associate, RadioDrops,
      RouterGoes, RouterComes, Radio, OwnWifi, WifiStep, BeginFallsBack

LEMMA ClientCountsStep == Types /\ [Next]_vars => ClientCounts'
<1> SUFFICES ASSUME Types, [Next]_vars PROVE ClientCounts'
  OBVIOUS
<1> USE DEF Types, ClientCounts
<1>1. CASE UNCHANGED client /\ ready' \in {ready, 0}
  BY <1>1 DEF client
<1>2. CASE StartConnect
  BY <1>2 DEF StartConnect
<1>3. CASE BackOff
  BY <1>3 DEF BackOff, NextCycle
<1>4. CASE Connects
  BY <1>4 DEF Connects
<1>5. CASE ConnectFails
  <2>1. Doubled(connectInterval, MAX_CONNECT_INTERVAL) \in 1..MAX_CONNECT_INTERVAL
    BY DoubledBounded
  <2> QED
    BY <1>5, <2>1 DEF ConnectFails
<1>6. CASE Time
  BY <1>6 DEF Time, Least
<1>7. CASE CloseConnection \/ TestPasses \/ PlainFails \/ (BrokerGoes /\ Disturbed)
  BY <1>7 DEF CloseConnection, TestPasses, PlainFails, BrokerGoes, Disturbed
<1> QED
  BY <1>1, <1>2, <1>3, <1>4, <1>5, <1>6, <1>7
  DEF Next, vars, MqttStep, Settle, OwnWifi, Air, BrokerComes, Disturbed

(* Whatever the link and the broker do, the counters and the back-offs of  *)
(* both managers stay in their ranges, and no connect outlasts its timeout.*)
THEOREM ConnectivityTypes == Spec => []TypeOK
<1>1. Types /\ [Next]_vars => Types'
  BY FlagsStep, PlacesStep, WifiCountsStep, ClientCountsStep DEF Types
<1> QED
  BY TypesInit, TypesAre, <1>1, PTL DEF Spec
=============================================================================
