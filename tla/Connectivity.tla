------------------------------ MODULE Connectivity ------------------------------
(***************************************************************************)
(* The bridge's way to its broker: the WiFi manager, driven by loop(), and *)
(* the MQTT client's reconnection (lib/mqtt_client), driven by mqttTask on *)
(* the other core.  The MQTT client reads the WiFi manager's state between *)
(* the steps of a connect that takes seconds; the link and the broker may  *)
(* go at any point of it.                                                  *)
(***************************************************************************)
EXTENDS WifiManager

CONSTANTS
    MAX_CONNECT_INTERVAL,   \* longest MQTT back-off
    MAX_CONNECT_ATTEMPTS    \* tries before the longest back-off

MIN_CONNECT_INTERVAL == 1

ASSUME MqttAssumption ==
    MAX_CONNECT_INTERVAL \in Nat \ {0} /\ MAX_CONNECT_ATTEMPTS \in Nat \ {0}

VARIABLES
    mqtt,            \* MQTTClient::initialized, settled by begin()
    step,            \* connect(): "idle", "test", "plain" or "will"
    connected,       \* mqttClient.connected()
    connectAttempts, connectInterval,
    sinceConnect,    \* millis() - lastConnectAttempt
    broker,          \* the broker is up
    calm,            \* the environment has stopped failing, for good
    ready            \* history: time both ends were up without a connection,
                     \* since the last attempt that failed

client == <<mqtt, step, connected, connectAttempts, connectInterval, sinceConnect>>
vars == <<wifi, client, broker, calm, ready>>

Init ==
    /\ WifiInit
    /\ mqtt \in BOOLEAN /\ step = "idle" /\ connected = FALSE
    /\ connectAttempts = 0 /\ connectInterval = MIN_CONNECT_INTERVAL /\ sinceConnect = 0
    /\ broker \in BOOLEAN /\ calm = FALSE /\ ready = 0

Reachable == isConnected /\ broker

-----------------------------------------------------------------------------
(* handleConnection(), run by mqttTask once setup() is over.               *)
Running == mqtt /\ pc \in {"loop", "connecting"} /\ step = "idle"

StaleConnection == Running /\ ~isConnected /\ connected
CloseConnection ==
    /\ StaleConnection
    /\ connected' = FALSE
    /\ UNCHANGED <<wifi, mqtt, step, connectAttempts, connectInterval, sinceConnect,
                   broker, calm, ready>>

ConnectDue == Running /\ isConnected /\ ~connected /\ sinceConnect >= connectInterval

(* MQTTClient::reconnect(): every so often it only backs off.              *)
StartConnect ==
    /\ ConnectDue /\ connectAttempts < MAX_CONNECT_ATTEMPTS
    /\ connectAttempts' = connectAttempts + 1 /\ sinceConnect' = 0
    /\ step' = "test"
    /\ UNCHANGED <<wifi, mqtt, connected, connectInterval, broker, calm, ready>>

\* Mutant: the attempts are never reset after the long back-off.
CycleNeverEnds == UNCHANGED connectAttempts
NextCycle == connectAttempts' = 0
BackOff ==
    /\ ConnectDue /\ connectAttempts >= MAX_CONNECT_ATTEMPTS
    /\ connectInterval' = MAX_CONNECT_INTERVAL /\ NextCycle /\ sinceConnect' = 0
    /\ UNCHANGED <<wifi, mqtt, step, connected, broker, calm, ready>>

(* connect(): a TCP test, a plain connect, a second one with the last will *)
(* registered; the back-off grows when the test or the second one fails.   *)
(* A broker that is reached may still refuse, or be too slow to answer.    *)
TestPasses ==
    /\ step = "test" /\ Reachable
    /\ step' = "plain"
    /\ UNCHANGED <<wifi, mqtt, connected, connectAttempts, connectInterval, sinceConnect,
                   broker, calm, ready>>

Refused == ~Reachable \/ ~calm
PlainFails ==
    /\ step = "plain" /\ Refused
    /\ step' = "will" /\ ready' = 0
    /\ UNCHANGED <<wifi, mqtt, connected, connectAttempts, connectInterval, sinceConnect,
                   broker, calm>>

Connects ==
    /\ step \in {"plain", "will"} /\ Reachable
    /\ step' = "idle" /\ connected' = TRUE
    /\ connectAttempts' = 0 /\ connectInterval' = MIN_CONNECT_INTERVAL
    /\ ready' = 0
    /\ UNCHANGED <<wifi, mqtt, sinceConnect, broker, calm>>

ConnectFails ==
    /\ step \in {"test", "will"} /\ Refused
    /\ step' = "idle" /\ ready' = 0
    /\ connectInterval' = Doubled(connectInterval, MAX_CONNECT_INTERVAL)
    /\ UNCHANGED <<wifi, mqtt, connected, connectAttempts, sinceConnect, broker, calm>>

MqttStep == CloseConnection \/ StartConnect \/ BackOff \/ TestPasses \/ PlainFails
            \/ Connects \/ ConnectFails
MqttBusy == step # "idle" \/ StaleConnection \/ ConnectDue

-----------------------------------------------------------------------------
(* The environment.  Time passes when neither task has something to do:    *)
(* they look every 10 and 200 ms, the intervals are seconds.               *)
OwnWifi == WifiStep /\ UNCHANGED <<client, broker, calm>>
Time ==
    /\ ~WifiBusy /\ ~MqttBusy
    /\ WifiTime
    /\ sinceConnect' = Least(sinceConnect + 1, MAX_CONNECT_INTERVAL)
    /\ ready' = IF mqtt /\ Reachable /\ ~connected THEN ready + 1 ELSE 0
    /\ UNCHANGED <<mqtt, step, connected, connectAttempts, connectInterval, broker, calm>>

Air == /\ \/ Associate
          \/ ~calm /\ (RadioDrops \/ RouterGoes \/ RouterComes)
       /\ UNCHANGED <<client, broker, calm>>

BrokerGoes ==
    /\ broker /\ ~calm
    /\ broker' = FALSE /\ connected' = FALSE
    /\ UNCHANGED <<wifi, mqtt, step, connectAttempts, connectInterval, sinceConnect, calm>>
BrokerComes ==
    /\ ~broker /\ broker' = TRUE
    /\ UNCHANGED <<wifi, client, calm>>

Settle == ~calm /\ router /\ broker /\ calm' = TRUE /\ UNCHANGED <<wifi, client, broker, ready>>

(* The wait is over, too, when an end goes away.                           *)
Disturbed == ready' = IF Reachable' THEN ready ELSE 0

Next == \/ MqttStep \/ Time \/ Settle
        \/ (OwnWifi \/ Air \/ BrokerGoes \/ BrokerComes) /\ Disturbed

(* loop() and mqttTask are scheduled for ever, time passes, and the driver *)
(* keeps trying to associate.                                              *)
Spec == Init /\ [][Next]_vars
        /\ WF_vars(OwnWifi /\ Disturbed) /\ WF_vars(MqttStep) /\ WF_vars(Time)
        /\ WF_vars(Associate /\ UNCHANGED <<client, broker, calm>> /\ Disturbed)

-----------------------------------------------------------------------------
(* The two managers' state stays in its ranges.                            *)
TypeOK ==
    /\ WifiTypeOK
    /\ {mqtt, connected, broker, calm} \subseteq BOOLEAN
    /\ step \in {"idle", "test", "plain", "will"}
    /\ connectAttempts \in 0..MAX_CONNECT_ATTEMPTS
    /\ connectInterval \in MIN_CONNECT_INTERVAL..MAX_CONNECT_INTERVAL
    /\ sinceConnect \in 0..MAX_CONNECT_INTERVAL /\ ready \in Nat

(* The access point costs the bridge its network for the rest of the       *)
(* uptime.  With a network configured, reconnect() opens it only when every*)
(* allowed attempt has waited its whole timeout in vain, with no success   *)
(* of connectSTA() in between.                                             *)
FallbackEarned ==
    [][pc = "loop" /\ ~apMode /\ apMode' => failures = MAX_RECONNECT_ATTEMPTS]_vars

(* A broker that is up, over a link that is up, and refuses no attempt, is *)
(* connected to within two of the longest back-offs, wherever in the back-off, in an attempt or in *)
(* the cycle without one the outage ended.                                 *)
ReconnectsInTime == ready <= 2 * MAX_CONNECT_INTERVAL

(* When the outages end for good the bridge gets back to its broker without*)
(* a reboot, however begin() ended, unless the access point is open (and   *)
(* nothing ever closes it) or no network or broker is configured.          *)
BridgeRecovers == calm ~> (connected \/ apMode \/ mode = "ap" \/ ~ssid \/ ~mqtt)

================================================================================
