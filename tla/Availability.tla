---------------------------- MODULE Availability ----------------------------
(***************************************************************************)
(* The poller task (lib/poller), the MQTT publishes it makes               *)
(* (lib/mqtt_client) and what a subscriber finds retained at the broker.   *)
(*                                                                         *)
(* A poll is a sequence of bus reads and publishes that takes seconds; the *)
(* MQTT link, run by another task, comes and goes between any two of them. *)
(* A publish is QoS 0: it reports success once the packet is in the socket,*)
(* and the packet dies with the connection.                                *)
(***************************************************************************)
EXTENDS Integers, Sequences

CONSTANTS
    K,           \* MAX_CONSECUTIVE_FAILURES
    MaxWire      \* bound: packets in flight when a poll starts

ASSUME KAssumption == K \in Nat \ {0}
ASSUME BoundsAssumption == MaxWire \in Nat

VARIABLES
    transceiver, \* is a DE/RE pin configured (ModbusClient::isMAX485Connected)?
    device,      \* the polled device: "up" or "down"
    link,        \* "down", "up", or "half": dead, but connected() says true
    wire,        \* packets in flight to the broker
    broker,      \* retained messages, by topic
    pc,          \* where poll() is
    success,     \* its outcome so far
    consecutiveFailures, publishedAvailability,
    streak,      \* history: polls that failed in a row, counted up to K
    lost         \* history: a transition, or the broker's copy of it, was
                 \* lost since the bridge started

poller == <<pc, success, consecutiveFailures, publishedAvailability, streak>>
net == <<link, wire, broker>>
vars == <<transceiver, device, net, poller, lost>>

Topics == {"availability", "telemetry", "poll_status"}
Values == {"none", "online", "offline", "stale", "fresh", "ok", "failed"}
Packet == [topic : Topics, value : Values]
Msg(t, v) == [topic |-> t, value |-> v]

Min2(a, b) == IF a < b THEN a ELSE b

Init ==
    /\ transceiver \in BOOLEAN
    /\ device \in {"up", "down"}
    /\ link = "down" /\ wire = <<>>
    /\ broker = [t \in Topics |-> "none"]
    /\ pc = "idle" /\ success = FALSE
    /\ consecutiveFailures = 0 /\ publishedAvailability = "Unknown"
    /\ streak = 0 /\ lost = FALSE

-----------------------------------------------------------------------------
(* MQTTClient::publishStatus and the others: false when not connected,     *)
(* otherwise the packet goes to the socket.                                *)
isConnected == link \in {"up", "half"}
Publish(m) == wire' = IF link = "up" THEN Append(wire, m) ELSE wire

(* poll(): the transceiver checks come first and can fail the poll alone.  *)
(* They read the pin number begin() was configured with.                   *)
StartPoll ==
    /\ pc = "idle" /\ Len(wire) <= MaxWire /\ transceiver
    /\ pc' = "read" /\ success' = FALSE
    /\ UNCHANGED <<transceiver, device, net, consecutiveFailures, publishedAvailability,
                   streak, lost>>

HardwareMissing ==
    /\ pc = "idle" /\ Len(wire) <= MaxWire /\ ~transceiver
    /\ Publish(Msg("poll_status", "failed"))
    /\ success' = FALSE /\ pc' = "availability"
    /\ streak' = Min2(streak + 1, K)
    /\ UNCHANGED <<transceiver, device, link, broker, consecutiveFailures,
                   publishedAvailability, lost>>

(* readBasic: a device that is down never answers; one that is up may      *)
(* still fail a poll (CRC errors past the retries).                        *)
ReadSucceeds ==
    /\ pc = "read" /\ device = "up"
    /\ success' = TRUE /\ pc' = "telemetry"
    /\ streak' = 0
    /\ UNCHANGED <<transceiver, device, net, consecutiveFailures, publishedAvailability, lost>>

ReadFails ==
    /\ pc = "read"
    /\ success' = FALSE /\ pc' = "report"
    /\ streak' = Min2(streak + 1, K)
    /\ UNCHANGED <<transceiver, device, net, consecutiveFailures, publishedAvailability, lost>>

PublishTelemetry ==
    /\ pc = "telemetry" /\ pc' = "report"
    /\ Publish(Msg("telemetry", "fresh"))
    /\ UNCHANGED <<transceiver, device, link, broker, success, consecutiveFailures,
                   publishedAvailability, streak, lost>>

PublishPollStatus ==
    /\ pc = "report" /\ pc' = "availability"
    /\ Publish(Msg("poll_status", IF success THEN "ok" ELSE "failed"))
    /\ UNCHANGED <<transceiver, device, link, broker, success, consecutiveFailures,
                   publishedAvailability, streak, lost>>

(* updateAvailability(pollSucceeded): publish a transition, and remember   *)
(* it only if publish() said it went out.                                  *)
(* Mutant of Transition: it is remembered though nothing went out.         *)
TransitionAssumed(value, state) ==
    /\ Publish(Msg("availability", value)) /\ lost' = (lost \/ link = "half")
    /\ publishedAvailability' = state

Transition(value, state) ==
    /\ Publish(Msg("availability", value)) /\ lost' = (lost \/ link = "half")
    /\ publishedAvailability' = IF isConnected THEN state
                                ELSE publishedAvailability

(* Mutant of SucceedAvailability: counts down where the code resets.       *)
SucceedCountsDown ==
    /\ pc = "availability" /\ success /\ pc' = "idle"
    /\ consecutiveFailures' = consecutiveFailures - 1
    /\ IF publishedAvailability # "Online" THEN Transition("online", "Online")
       ELSE UNCHANGED <<wire, publishedAvailability, lost>>
    /\ UNCHANGED <<transceiver, device, link, broker, success, streak>>

SucceedAvailability ==
    /\ pc = "availability" /\ success /\ pc' = "idle"
    /\ consecutiveFailures' = 0
    /\ IF publishedAvailability # "Online" THEN Transition("online", "Online")
       ELSE UNCHANGED <<wire, publishedAvailability, lost>>
    /\ UNCHANGED <<transceiver, device, link, broker, success, streak>>

FailAvailability ==
    /\ pc = "availability" /\ ~success /\ pc' = "idle"
    /\ consecutiveFailures' = Min2(consecutiveFailures + 1, K)
    /\ IF consecutiveFailures' >= K /\ publishedAvailability # "Offline"
       THEN Transition("offline", "Offline")
       ELSE UNCHANGED <<wire, publishedAvailability, lost>>
    /\ UNCHANGED <<transceiver, device, link, broker, success, streak>>

PollStep == StartPoll \/ HardwareMissing \/ ReadSucceeds \/ ReadFails
            \/ PublishTelemetry \/ PublishPollStatus
            \/ SucceedAvailability \/ FailAvailability

-----------------------------------------------------------------------------
(* The broker retains the last packet of a topic.  What it holds of the    *)
(* telemetry goes stale when the device does.                              *)
Deliver ==
    /\ link = "up" /\ wire # <<>>
    /\ broker' = [broker EXCEPT ![Head(wire).topic] = Head(wire).value]
    /\ wire' = Tail(wire)
    /\ UNCHANGED <<transceiver, device, link, poller, lost>>

DeviceGoesDown ==
    /\ device = "up" /\ device' = "down"
    /\ broker' = [broker EXCEPT !["telemetry"] = IF @ = "fresh" THEN "stale" ELSE @]
    /\ UNCHANGED <<transceiver, link, wire, poller, lost>>

DeviceComesUp ==
    /\ device = "down" /\ device' = "up"
    /\ UNCHANGED <<transceiver, net, poller, lost>>

(* mqttTask reconnects (MQTTClient::connect).                              *)
Reconnect ==
    /\ link = "down" /\ link' = "up" /\ wire' = <<>>
    /\ UNCHANGED <<transceiver, device, broker, poller, lost>>

(* TCP dies with what is in flight, and the client may not know yet.       *)
LinkDies ==
    /\ link = "up" /\ link' \in {"half", "down"}
    /\ wire' = <<>>
    /\ lost' = (lost \/ \E i \in DOMAIN wire : wire[i].topic = "availability")
    /\ UNCHANGED <<transceiver, device, broker, poller>>

(* The keepalive, or a failed write, tells the client.                     *)
LinkDeathNoticed ==
    /\ link = "half" /\ link' = "down"
    /\ UNCHANGED <<transceiver, device, wire, broker, poller, lost>>

BrokerForgets ==
    /\ link' = "down" /\ wire' = <<>> /\ lost' = TRUE
    /\ broker' = [t \in Topics |-> "none"]
    /\ UNCHANGED <<transceiver, device, poller>>

(* The bridge restarts, perhaps with another configuration: the poller     *)
(* starts over from Unknown.                                               *)
Reboot ==
    /\ link' = "down" /\ wire' = <<>> /\ lost' = FALSE
    /\ pc' = "idle" /\ success' = FALSE
    /\ consecutiveFailures' = 0 /\ publishedAvailability' = "Unknown"
    /\ streak' = 0
    /\ transceiver' \in BOOLEAN
    /\ UNCHANGED <<device, broker>>

Next == PollStep \/ Deliver \/ DeviceGoesDown \/ DeviceComesUp \/ Reconnect
        \/ LinkDies \/ LinkDeathNoticed \/ BrokerForgets \/ Reboot

(* pollerTask polls for ever; a device that is up answers in some of the   *)
(* polls; TCP delivers while the connection lasts.  Nothing is assumed of  *)
(* the link or of the device.                                              *)
Fairness == WF_vars(PollStep) /\ SF_vars(ReadSucceeds) /\ WF_vars(Deliver)

Spec == Init /\ [][Next]_vars
FairSpec == Spec /\ Fairness

-----------------------------------------------------------------------------
TypeOK ==
    /\ transceiver \in BOOLEAN
    /\ device \in {"up", "down"} /\ link \in {"up", "down", "half"}
    /\ wire \in Seq(Packet) /\ broker \in [Topics -> Values]
    /\ pc \in {"idle", "read", "telemetry", "report", "availability"}
    /\ success \in BOOLEAN
    /\ consecutiveFailures \in 0..K /\ streak \in 0..K /\ lost \in BOOLEAN
    /\ publishedAvailability \in {"Unknown", "Online", "Offline"}

(* What the poller remembers having published is what the broker holds     *)
(* once nothing is in flight, unless the packet itself was lost: a publish *)
(* refused by a link that is down must not count, and of two transitions   *)
(* in flight the later one stays.                                          *)
Shown == [Online |-> "online", Offline |-> "offline"]
BrokerAgrees ==
    wire = <<>> /\ publishedAvailability # "Unknown" /\ ~lost
        => broker["availability"] = Shown[publishedAvailability]

(* The availability a subscriber sees turns offline only after K polls     *)
(* failed in a row, on whichever of the three failure paths of poll(), and *)
(* online only on a poll that succeeded.                                   *)
TransitionsEarned ==
    [][publishedAvailability' # publishedAvailability =>
         /\ publishedAvailability' = "Offline" => streak >= K
         /\ publishedAvailability' = "Online" => streak = 0]_vars

(* The counter is the number of failed polls in a row once a poll is over. *)
CounterIsStreak == pc = "idle" => consecutiveFailures = streak

(* A device that stays down is shown offline (README.md:38), and one that  *)
(* is up is shown online with fresh values, if the link stays up in the    *)
(* end and took no transition with it: whatever the link, the device, the  *)
(* broker and restarts did before.                                         *)
OfflineIsSeen ==
    <>[](device = "down" /\ link = "up" /\ ~lost) =>
        <>[](broker["availability"] = "offline")
OnlineIsSeen ==
    <>[](device = "up" /\ transceiver /\ link = "up" /\ ~lost) =>
        []<>(broker["availability"] = "online" /\ broker["telemetry"] = "fresh")

(* The same without the proviso, as README.md:38 says it.                  *)
OfflineIsAlwaysSeen ==
    <>[](device = "down" /\ link = "up") => <>[](broker["availability"] = "offline")
=============================================================================
