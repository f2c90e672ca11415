------------------------- MODULE Availability_proofs -------------------------
(***************************************************************************)
(* Proofs about Availability, for every MAX_CONSECUTIVE_FAILURES, over a   *)
(* link that may lose anything.                                            *)
(***************************************************************************)
EXTENDS Availability, TLAPS

(* How far the counter lags behind the polls that really failed: until     *)
(* updateAvailability has run, it does not count the poll under way.       *)
Settled == pc \in {"idle", "read"} => consecutiveFailures = streak
Unsettled ==
    /\ pc = "telemetry" => success
    /\ pc \in {"telemetry", "report", "availability"} =>
          streak = IF success THEN 0 ELSE Min2(consecutiveFailures + 1, K)

CountInv == TypeOK /\ Settled /\ Unsettled

LEMMA PublishType ==
    ASSUME TypeOK, NEW t \in Topics, NEW v \in Values, Publish(Msg(t, v))
    PROVE  wire' \in Seq(Packet)
<1>1. Msg(t, v) \in Packet
  BY DEF Msg, Packet
<1> QED
  BY <1>1 DEF Publish, TypeOK

LEMMA PublishesKeepType ==
    ASSUME TypeOK, HardwareMissing \/ PublishTelemetry \/ PublishPollStatus
                   \/ SucceedAvailability \/ FailAvailability
    PROVE  wire' \in Seq(Packet)
<1> USE DEF Topics, Values
<1>1. CASE HardwareMissing
  BY <1>1, PublishType DEF HardwareMissing
<1>2. CASE PublishTelemetry
  BY <1>2, PublishType DEF PublishTelemetry
<1>3. CASE PublishPollStatus
  <2>1. (IF success THEN "ok" ELSE "failed") \in Values
    OBVIOUS
  <2> QED
    BY <1>3, <2>1, PublishType DEF PublishPollStatus
<1>4. CASE SucceedAvailability
  BY <1>4, PublishType DEF SucceedAvailability, Transition, TypeOK
<1>5. CASE FailAvailability
  BY <1>5, PublishType DEF FailAvailability, Transition, TypeOK
<1> QED
  BY <1>1, <1>2, <1>3, <1>4, <1>5

(* The poll under way.                                                     *)
LEMMA PollKeepsCount ==
    ASSUME CountInv, PollStep PROVE CountInv'
<1> USE KAssumption DEF CountInv, TypeOK, Settled, Unsettled, Min2, net
<1>1. CASE StartPoll
  BY <1>1 DEF StartPoll
<1>2. CASE HardwareMissing
  <2>1. wire' \in Seq(Packet)
    BY <1>2, PublishesKeepType
  <2>2. streak' \in 0..K /\ streak' = Min2(consecutiveFailures + 1, K)
    BY <1>2 DEF HardwareMissing
  <2>3. TypeOK'
    BY <1>2, <2>1, <2>2 DEF HardwareMissing
  <2>4. Settled' /\ Unsettled'
    BY <1>2, <2>2 DEF HardwareMissing
  <2> QED
    BY <2>3, <2>4
<1>3. CASE ReadSucceeds
  BY <1>3 DEF ReadSucceeds
<1>4. CASE ReadFails
  <2>1. streak' \in 0..K /\ streak' = Min2(consecutiveFailures + 1, K)
    BY <1>4 DEF ReadFails
  <2>2. TypeOK'
    BY <1>4, <2>1 DEF ReadFails
  <2>3. Settled' /\ Unsettled'
    BY <1>4, <2>1 DEF ReadFails
  <2> QED
    BY <2>2, <2>3
<1>5. CASE PublishTelemetry
  <2>1. wire' \in Seq(Packet)
    BY <1>5, PublishesKeepType
  <2> QED
    BY <1>5, <2>1 DEF PublishTelemetry
<1>6. CASE PublishPollStatus
  <2>1. wire' \in Seq(Packet)
    BY <1>6, PublishesKeepType
  <2> QED
    BY <1>6, <2>1 DEF PublishPollStatus
<1>7. CASE SucceedAvailability
  <2>1. wire' \in Seq(Packet)
    BY <1>7, PublishesKeepType
  <2> QED
    BY <1>7, <2>1 DEF SucceedAvailability, Transition
<1>8. CASE FailAvailability
  <2>1. wire' \in Seq(Packet)
    BY <1>8, PublishesKeepType
  <2> QED
    BY <1>8, <2>1 DEF FailAvailability, Transition
<1> QED
  BY <1>1, <1>2, <1>3, <1>4, <1>5, <1>6, <1>7, <1>8 DEF PollStep

(* What the world does to the link, the broker and the device.             *)
LEMMA WorldKeepsCount ==
    ASSUME CountInv,
           \/ Deliver \/ DeviceGoesDown \/ DeviceComesUp \/ Reconnect
           \/ LinkDies \/ LinkDeathNoticed \/ BrokerForgets \/ Reboot
    PROVE  CountInv'
<1> USE KAssumption
    DEF CountInv, TypeOK, Settled, Unsettled, net, poller, Topics, Values
<1>0. <<>> \in Seq(Packet)
  OBVIOUS
<1>1. CASE Deliver
  <2>1. Head(wire) \in Packet /\ wire' \in Seq(Packet)
    BY <1>1 DEF Deliver
  <2>2. Head(wire).topic \in Topics /\ Head(wire).value \in Values
    BY <2>1 DEF Packet
  <2>3. broker' \in [Topics -> Values]
    BY <1>1, <2>2 DEF Deliver
  <2> QED
    BY <1>1, <2>1, <2>3 DEF Deliver
<1>2. CASE DeviceGoesDown
  BY <1>2 DEF DeviceGoesDown
<1>3. CASE DeviceComesUp
  BY <1>3 DEF DeviceComesUp
<1>4. CASE Reconnect
  BY <1>0, <1>4 DEF Reconnect
<1>5. CASE LinkDies
  BY <1>0, <1>5 DEF LinkDies
<1>6. CASE LinkDeathNoticed
  BY <1>6 DEF LinkDeathNoticed
<1>7. CASE BrokerForgets
  BY <1>0, <1>7 DEF BrokerForgets
<1>8. CASE Reboot
  <2>1. consecutiveFailures' = 0 /\ streak' = 0 /\ 0 \in 0..K /\ pc' = "idle"
    BY <1>8 DEF Reboot
  <2>2. wire' \in Seq(Packet) /\ link' = "down"
    BY <1>0, <1>8 DEF Reboot
  <2>3. TypeOK'
    BY <1>8, <2>1, <2>2 DEF Reboot
  <2> QED
    BY <2>1, <2>3
<1> QED
  BY <1>1, <1>2, <1>3, <1>4, <1>5, <1>6, <1>7, <1>8

LEMMA CountInvInit == Init => CountInv
<1> SUFFICES ASSUME Init PROVE CountInv
  OBVIOUS
<1>1. <<>> \in Seq(Packet) /\ 0 \in 0..K
  BY KAssumption
<1>2. broker \in [Topics -> Values]
  BY DEF Init, Values
<1>3. TypeOK
  BY <1>1, <1>2 DEF Init, TypeOK
<1> QED
  BY <1>3 DEF Init, CountInv, Settled, Unsettled

LEMMA CountInvStep == CountInv /\ [Next]_vars => CountInv'
<1> SUFFICES ASSUME CountInv, [Next]_vars PROVE CountInv'
  OBVIOUS
<1>1. CASE Next
  BY <1>1, PollKeepsCount, WorldKeepsCount DEF Next
<1>2. CASE UNCHANGED vars
  BY <1>2 DEF vars, net, poller, CountInv, TypeOK, Settled, Unsettled
<1> QED
  BY <1>1, <1>2

(* The types, whatever the network and the device do.                      *)
THEOREM AvailabilityTypeOK == Spec => []TypeOK
<1>1. CountInv => TypeOK
  BY DEF CountInv
<1> QED
  BY CountInvInit, CountInvStep, <1>1, PTL DEF Spec

(* Each of poll()'s three ways to fail, and its success, reaches           *)
(* updateAvailability exactly once: between polls the counter is the       *)
(* number of polls that failed in a row.                                   *)
THEOREM AvailabilityCounter == Spec => []CounterIsStreak
<1>1. CountInv => CounterIsStreak
  BY DEF CountInv, Settled, CounterIsStreak
<1> QED
  BY CountInvInit, CountInvStep, <1>1, PTL DEF Spec

(* No transition is published too early: offline takes K failed polls in a *)
(* row, online takes a poll that succeeded.                                *)
THEOREM AvailabilityEarned == Spec => TransitionsEarned
<1> DEFINE Earned ==
      publishedAvailability' # publishedAvailability =>
        /\ publishedAvailability' = "Offline" => streak >= K
        /\ publishedAvailability' = "Online" => streak = 0
<1>1. CountInv /\ [Next]_vars => [Earned]_vars
  <2> SUFFICES ASSUME CountInv, Next PROVE Earned
    OBVIOUS
  <2> USE KAssumption DEF CountInv, TypeOK, Unsettled, Min2, net, poller
  <2>1. CASE SucceedAvailability
    BY <2>1 DEF SucceedAvailability, Transition
  <2>2. CASE FailAvailability
    BY <2>2 DEF FailAvailability, Transition
  <2>3. CASE Reboot
    BY <2>3 DEF Reboot
  <2>4. CASE UNCHANGED publishedAvailability
    BY <2>4
  <2> QED
    BY <2>1, <2>2, <2>3, <2>4
    DEF Next, PollStep, StartPoll, HardwareMissing, ReadSucceeds, ReadFails,
        PublishTelemetry, PublishPollStatus, Deliver, DeviceGoesDown,
        DeviceComesUp, Reconnect, LinkDies, LinkDeathNoticed, BrokerForgets
<1> QED
  BY CountInvInit, CountInvStep, <1>1, PTL DEF Spec, TransitionsEarned

-----------------------------------------------------------------------------
(* What the broker will hold: the value of the last transition in flight,  *)
(* or what it holds already if none is.  Nothing is in flight on a link    *)
(* that is not up.                                                         *)
IsTransition(m) == m.topic = "availability"
NoneIn(w) == \A i \in 1..Len(w) : ~IsTransition(w[i])
LastIn(w, i) == IsTransition(w[i]) /\ \A j \in (i + 1)..Len(w) : ~IsTransition(w[j])
Heading(w, b, value) ==
    /\ \A i \in 1..Len(w) : LastIn(w, i) => w[i].value = value
    /\ NoneIn(w) => b["availability"] = value

AgreeInv ==
    /\ link # "up" => wire = <<>>
    /\ publishedAvailability # "Unknown" /\ ~lost
          => Heading(wire, broker, Shown[publishedAvailability])

LEMMA AppendedTransition ==
    ASSUME NEW w \in Seq(Packet), NEW b, NEW value \in Values
    PROVE  Heading(Append(w, Msg("availability", value)), b, value)
<1> DEFINE v == Append(w, Msg("availability", value))
<1>0. Msg("availability", value) \in Packet
  BY DEF Msg, Packet, Topics
<1>1. Len(v) = Len(w) + 1 /\ Len(w) \in Nat /\ v[Len(v)] = Msg("availability", value)
  BY <1>0
<1>2. IsTransition(v[Len(v)]) /\ v[Len(v)].value = value
  BY <1>1 DEF Msg, IsTransition
<1>3. Len(v) \in 1..Len(v)
  BY <1>1
<1>4. ASSUME NEW i \in 1..Len(v), LastIn(v, i) PROVE i = Len(v)
  <2>1. i # Len(v) => Len(v) \in (i + 1)..Len(v)
    BY <1>1
  <2> QED
    BY <1>2, <1>4, <2>1 DEF LastIn
<1> QED
  BY <1>2, <1>3, <1>4 DEF Heading, NoneIn

LEMMA AppendedOther ==
    ASSUME NEW w \in Seq(Packet), NEW b, NEW value, NEW m \in Packet, ~IsTransition(m),
           Heading(w, b, value)
    PROVE  Heading(Append(w, m), b, value)
<1> DEFINE v == Append(w, m)
<1>1. Len(v) = Len(w) + 1 /\ Len(w) \in Nat /\ v[Len(v)] = m
      /\ \A i \in 1..Len(w) : v[i] = w[i]
  OBVIOUS
<1> HIDE DEF v
<1>2. NoneIn(v) => NoneIn(w)
  BY <1>1 DEF NoneIn
<1>3. ASSUME NEW i \in 1..Len(v), LastIn(v, i) PROVE v[i].value = value
  <2>1. i # Len(v)
    BY <1>1, <1>3 DEF LastIn
  <2>2. i \in 1..Len(w) /\ v[i] = w[i]
    BY <1>1, <2>1
  <2>3. \A j \in (i + 1)..Len(w) : j \in (i + 1)..Len(v) /\ v[j] = w[j]
    BY <1>1, <2>2
  <2>4. LastIn(w, i)
    BY <1>3, <2>2, <2>3 DEF LastIn
  <2> QED
    BY <2>2, <2>4 DEF Heading
<1> QED
  BY <1>2, <1>3 DEF Heading, v

(* Delivering the oldest packet does not change where the broker is heading.*)
LEMMA DeliveredHeading ==
    ASSUME NEW w \in Seq(Packet), w # <<>>, NEW b \in [Topics -> Values], NEW value,
           Heading(w, b, value)
    PROVE  Heading(Tail(w), [b EXCEPT ![Head(w).topic] = Head(w).value], value)
<1> DEFINE v == Tail(w)
           c == [b EXCEPT ![Head(w).topic] = Head(w).value]
<1>1. Len(w) \in Nat \ {0} /\ Len(v) = Len(w) - 1 /\ Head(w) = w[1] /\ w[1] \in Packet
      /\ \A i \in 1..Len(v) : v[i] = w[i + 1]
  OBVIOUS
<1>2. c["availability"] = IF IsTransition(w[1]) THEN w[1].value ELSE b["availability"]
  BY <1>1 DEF IsTransition, Topics, Packet
<1> HIDE DEF v, c
<1>3. ASSUME NEW i \in 1..Len(v), LastIn(v, i) PROVE v[i].value = value
  <2>1. i + 1 \in 1..Len(w) /\ v[i] = w[i + 1]
    BY <1>1
  <2>2. ASSUME NEW j \in (i + 2)..Len(w) PROVE ~IsTransition(w[j])
    <3>1. j - 1 \in (i + 1)..Len(v) /\ j - 1 \in 1..Len(v) /\ (j - 1) + 1 = j
      BY <1>1, <2>1
    <3>2. v[j - 1] = w[j]
      BY <1>1, <3>1
    <3> QED
      BY <1>3, <3>1, <3>2 DEF LastIn
  <2>3. (i + 1) + 1 = i + 2
    BY <1>1
  <2>4. LastIn(w, i + 1)
    BY <1>3, <2>1, <2>2, <2>3 DEF LastIn
  <2> QED
    BY <2>1, <2>4 DEF Heading
<1>4. ASSUME NoneIn(v) PROVE c["availability"] = value
  <2>1. ASSUME NEW j \in 2..Len(w) PROVE ~IsTransition(w[j])
    <3>1. j - 1 \in 1..Len(v) /\ (j - 1) + 1 = j
      BY <1>1
    <3>2. v[j - 1] = w[j]
      BY <1>1, <3>1
    <3> QED
      BY <1>4, <3>1, <3>2 DEF NoneIn
  <2>2. 1 \in 1..Len(w) /\ 1 + 1 = 2
    BY <1>1
  <2>3. CASE IsTransition(w[1])
    BY <1>2, <2>1, <2>2, <2>3 DEF Heading, LastIn
  <2>4. CASE ~IsTransition(w[1])
    <3>1. \A j \in 1..Len(w) : j = 1 \/ j \in 2..Len(w)
      BY <1>1
    <3> QED
      BY <1>2, <2>1, <2>4, <3>1 DEF Heading, NoneIn
  <2> QED
    BY <2>3, <2>4
<1> QED
  BY <1>3, <1>4 DEF Heading, v, c

(* A transition that is remembered was in the socket, of a link that may   *)
(* be dead: then it counts as lost.                                        *)
LEMMA TransitionAgrees ==
    ASSUME TypeOK, AgreeInv, NEW value \in {"online", "offline"}, NEW state \in {"Online", "Offline"},
           value = Shown[state], Transition(value, state), link' = link, broker' = broker
    PROVE  AgreeInv'
<1>1. wire \in Seq(Packet) /\ value \in Values /\ link \in {"up", "down", "half"}
  BY DEF TypeOK, Values
<1>2. CASE link = "up"
  <2>1. wire' = Append(wire, Msg("availability", value)) /\ publishedAvailability' = state
    BY <1>2 DEF Transition, Publish, isConnected
  <2>2. Heading(wire', broker, value)
    BY <1>1, <2>1, AppendedTransition
  <2> QED
    BY <1>2, <2>1, <2>2 DEF AgreeInv, Heading, NoneIn
<1>3. CASE link = "half"
  BY <1>3 DEF Transition, Publish, AgreeInv
<1>4. CASE link = "down"
  <2>1. wire' = wire /\ publishedAvailability' = publishedAvailability /\ (~lost' => ~lost)
    BY <1>4 DEF Transition, Publish, isConnected
  <2> QED
    BY <2>1 DEF AgreeInv, Heading, NoneIn
<1> QED
  BY <1>1, <1>2, <1>3, <1>4

LEMMA OtherAgrees ==
    ASSUME TypeOK, AgreeInv, NEW t \in Topics \ {"availability"}, NEW v \in Values,
           Publish(Msg(t, v)),
           UNCHANGED <<link, broker, publishedAvailability, lost>>
    PROVE  AgreeInv'
<1>1. Msg(t, v) \in Packet /\ ~IsTransition(Msg(t, v)) /\ wire \in Seq(Packet)
  BY DEF Msg, Packet, IsTransition, TypeOK
<1>2. CASE link = "up"
  <2>1. wire' = Append(wire, Msg(t, v))
    BY <1>2 DEF Publish
  <2>2. ASSUME NEW value, Heading(wire, broker, value) PROVE Heading(wire', broker, value)
    BY <1>1, <2>1, <2>2, AppendedOther
  <2> QED
    BY <1>2, <2>2 DEF AgreeInv, Heading, NoneIn
<1>3. CASE link # "up"
  BY <1>3 DEF Publish, AgreeInv, Heading, NoneIn
<1> QED
  BY <1>2, <1>3

LEMMA AgreeInvStep == CountInv /\ AgreeInv /\ [Next]_vars => AgreeInv'
<1> SUFFICES ASSUME CountInv, AgreeInv, [Next]_vars PROVE AgreeInv'
  OBVIOUS
<1>0. TypeOK
  BY DEF CountInv
<1>1. CASE HardwareMissing
  BY <1>0, <1>1, OtherAgrees DEF HardwareMissing, Topics, Values
<1>2. CASE PublishTelemetry
  BY <1>0, <1>2, OtherAgrees DEF PublishTelemetry, Topics, Values
<1>3. CASE PublishPollStatus
  <2>1. (IF success THEN "ok" ELSE "failed") \in Values
    BY DEF Values
  <2> QED
    BY <1>0, <1>3, <2>1, OtherAgrees DEF PublishPollStatus, Topics
<1>4. CASE SucceedAvailability
  <2>1. CASE publishedAvailability # "Online"
    BY <1>0, <1>4, <2>1, TransitionAgrees DEF SucceedAvailability, Shown
  <2>2. CASE publishedAvailability = "Online"
    BY <1>4, <2>2 DEF SucceedAvailability, AgreeInv, Heading, NoneIn
  <2> QED
    BY <2>1, <2>2
<1>5. CASE FailAvailability
  <2>1. link' = link /\ broker' = broker
    BY <1>5 DEF FailAvailability
  <2>2. CASE Transition("offline", "Offline")
    BY <1>0, <2>1, <2>2, TransitionAgrees DEF Shown
  <2>3. CASE UNCHANGED <<wire, publishedAvailability, lost>>
    BY <2>1, <2>3 DEF AgreeInv, Heading, NoneIn
  <2> QED
    BY <1>5, <2>2, <2>3 DEF FailAvailability
<1>6. CASE Deliver
  <2>1. /\ wire \in Seq(Packet) /\ wire # <<>> /\ broker \in [Topics -> Values]
        /\ wire' = Tail(wire) /\ broker' = [broker EXCEPT ![Head(wire).topic] = Head(wire).value]
        /\ UNCHANGED <<link, publishedAvailability, lost>> /\ link = "up"
    BY <1>0, <1>6 DEF Deliver, TypeOK, poller
  <2>2. ASSUME NEW value, Heading(wire, broker, value) PROVE Heading(wire', broker', value)
    BY <2>1, <2>2, DeliveredHeading
  <2> QED
    BY <2>1, <2>2 DEF AgreeInv, Heading, NoneIn
<1>7. CASE DeviceGoesDown
  <2>1. broker'["availability"] = broker["availability"]
    BY <1>0, <1>7 DEF DeviceGoesDown, TypeOK
  <2> QED
    BY <1>7, <2>1 DEF DeviceGoesDown, poller, AgreeInv, Heading, NoneIn
<1>8. CASE Reconnect \/ LinkDeathNoticed
  <2>1. wire = <<>> /\ wire' = <<>> /\ UNCHANGED <<broker, publishedAvailability, lost>>
    BY <1>8 DEF Reconnect, LinkDeathNoticed, AgreeInv, poller
  <2> QED
    BY <2>1 DEF AgreeInv, Heading, NoneIn
<1>9. CASE LinkDies
  <2>1. wire' = <<>> /\ UNCHANGED <<broker, publishedAvailability>>
    BY <1>9 DEF LinkDies, poller
  <2>2. ~lost' => ~lost /\ NoneIn(wire)
    <3>1. DOMAIN wire = 1..Len(wire)
      BY <1>0 DEF TypeOK
    <3>2. lost' = (lost \/ \E i \in 1..Len(wire) : wire[i].topic = "availability")
      BY <1>9, <3>1 DEF LinkDies
    <3> QED
      BY <3>2 DEF NoneIn, IsTransition
  <2> QED
    BY <2>1, <2>2 DEF AgreeInv, Heading, NoneIn
<1>10. CASE BrokerForgets \/ Reboot
  BY <1>10 DEF BrokerForgets, Reboot, AgreeInv
<1>11. CASE UNCHANGED <<link, wire, broker, publishedAvailability, lost>>
  BY <1>11 DEF AgreeInv, Heading, NoneIn
<1> QED
  BY <1>1, <1>2, <1>3, <1>4, <1>5, <1>6, <1>7, <1>8, <1>9, <1>10, <1>11
  DEF Next, PollStep, StartPoll, ReadSucceeds, ReadFails, DeviceComesUp, vars, net, poller

(* A transition that updateAvailability remembers as published is what the *)
(* broker holds once nothing is in flight, whatever the link did, unless   *)
(* the packet or the broker's copy of it was lost.                         *)
THEOREM AvailabilityAgrees == Spec => []BrokerAgrees
<1>1. Init => AgreeInv
  BY DEF Init, AgreeInv
<1>2. CountInv /\ AgreeInv => BrokerAgrees
  BY DEF CountInv, TypeOK, AgreeInv, BrokerAgrees, Heading, NoneIn
<1> QED
  BY CountInvInit, CountInvStep, AgreeInvStep, <1>1, <1>2, PTL DEF Spec
=============================================================================
