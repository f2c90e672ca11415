------------------------------ MODULE WifiManager ------------------------------
(***************************************************************************)
(* WiFiManager (lib/wifi_manager): begin() tries the station once and may  *)
(* fall back to an access point; loop() calls handleConnection(), which    *)
(* reconnects with a back-off.  connectSTA() blocks the loop while it      *)
(* waits, and the radio driver associates by itself, so the station can    *)
(* come up when nobody is waiting for it.                                  *)
(*                                                                         *)
(* Time is counted in units of MIN_RECONNECT_INTERVAL.                     *)
(***************************************************************************)
EXTENDS Integers

CONSTANTS
    MAX_RECONNECT_INTERVAL,  \* longest back-off
    MAX_RECONNECT_ATTEMPTS,  \* tries before the access point
    ConnectTimeout           \* what connectSTA() waits for the association

MIN_RECONNECT_INTERVAL == 1

ASSUME WifiAssumption ==
    /\ MAX_RECONNECT_INTERVAL \in Nat \ {0} /\ MAX_RECONNECT_ATTEMPTS \in Nat
    /\ ConnectTimeout \in Nat \ {0}

VARIABLES
    apEnabled, ssid,    \* configuration: ap_enabled, and is wifi_ssid set?
    pc,                 \* "off", "boot" (in begin), "loop", "connecting" (in reconnect)
    initialized, apMode, reconnectAttempts, reconnectInterval,
    sinceAttempt,       \* millis() - lastReconnectAttempt
    waiting,            \* time spent in the current connectSTA()
    mode,               \* the radio: "off", "sta" or "ap"
    associated,         \* WiFi.status() = WL_CONNECTED
    router,             \* the configured network is in range
    failures            \* history: reconnects that timed out since one succeeded

settings == <<apEnabled, ssid>>
backoff == <<reconnectAttempts, reconnectInterval>>
wifi == <<settings, pc, initialized, apMode, backoff, sinceAttempt, waiting, mode,
          associated, router, failures>>

Least(a, b) == IF a < b THEN a ELSE b

WifiInit ==
    /\ apEnabled \in BOOLEAN /\ ssid \in BOOLEAN
    /\ pc = "off" /\ mode = "off" /\ associated = FALSE
    /\ initialized = FALSE /\ apMode = FALSE
    /\ reconnectAttempts = 0 /\ reconnectInterval = MIN_RECONNECT_INTERVAL
    /\ sinceAttempt = 0 /\ waiting = 0 /\ failures = 0
    /\ router \in BOOLEAN

isConnected == initialized /\ ~apMode /\ associated

-----------------------------------------------------------------------------
(* startAP: softAP can fail; the radio has left station mode either way.   *)
startAP ==
    /\ mode' = "ap" /\ associated' = FALSE
    /\ apMode' \in {apMode, TRUE}

(* connectSTA begins, and how it ends.  Without an SSID it ends at once.   *)
StartStation == mode' = "sta" /\ waiting' = 0
StationUp == pc \in {"boot", "connecting"} /\ associated
StationTimesOut == ~associated /\ waiting >= ConnectTimeout

\* Mutant: a success that resets the interval and forgets the count.
ResetIntervalOnly == UNCHANGED reconnectAttempts /\ reconnectInterval' = MIN_RECONNECT_INTERVAL
ResetBackoff == reconnectAttempts' = 0 /\ reconnectInterval' = MIN_RECONNECT_INTERVAL
ConnectSucceeds ==
    /\ StationUp
    /\ pc' = "loop" /\ initialized' = TRUE /\ apMode' = FALSE
    /\ ResetBackoff /\ failures' = 0
    /\ UNCHANGED <<settings, sinceAttempt, waiting, mode, associated, router>>

(* begin()                                                                 *)
Begin ==
    /\ pc = "off" /\ ssid
    /\ pc' = "boot" /\ StartStation
    /\ UNCHANGED <<settings, initialized, apMode, backoff, sinceAttempt, associated,
                   router, failures>>

(* begin() when connectSTA() failed: initialized even if nothing came up.  *)
BootGivesUp ==
    \/ pc = "boot" /\ StationTimesOut
    \/ pc = "off" /\ ~ssid
\* Mutant: only an access point that came up counts as initialized.
InitializedByFallback == initialized' = apMode'
InitializedAnyway == initialized' = TRUE
BeginFallsBack ==
    /\ BootGivesUp
    /\ IF apEnabled THEN startAP ELSE UNCHANGED <<mode, associated, apMode>>
    /\ pc' = "loop" /\ InitializedAnyway
    /\ UNCHANGED <<settings, backoff, sinceAttempt, waiting, router, failures>>

(* handleConnection(): a reconnect is due.  lastReconnectAttempt gets the  *)
(* time from before the connect, so the timer restarts here.               *)
ReconnectDue ==
    /\ pc = "loop" /\ initialized /\ ~apMode /\ ~associated
    /\ sinceAttempt >= reconnectInterval
CountAttempt == reconnectAttempts' = Least(reconnectAttempts + 1, MAX_RECONNECT_ATTEMPTS + 1)
\* Mutant: a back-off without its ceiling.
DoubledUncapped(interval, max) == 2 * interval
Doubled(interval, max) == Least(2 * interval, max)

reconnect ==
    /\ ReconnectDue /\ reconnectAttempts < MAX_RECONNECT_ATTEMPTS
    /\ CountAttempt /\ sinceAttempt' = 0
    /\ IF ssid
       THEN pc' = "connecting" /\ StartStation
            /\ UNCHANGED <<reconnectInterval, failures>>
       ELSE /\ reconnectInterval' = Doubled(reconnectInterval, MAX_RECONNECT_INTERVAL)
            /\ failures' = Least(failures + 1, MAX_RECONNECT_ATTEMPTS)
            /\ UNCHANGED <<pc, mode, waiting>>
    /\ UNCHANGED <<settings, initialized, apMode, associated, router>>

(* Past the last attempt: the access point, or nothing if it is disabled.  *)
OutOfAttempts ==
    /\ ReconnectDue /\ reconnectAttempts >= MAX_RECONNECT_ATTEMPTS
    /\ CountAttempt /\ sinceAttempt' = 0
    /\ IF apEnabled THEN startAP ELSE UNCHANGED <<mode, associated, apMode>>
    /\ UNCHANGED <<settings, pc, initialized, reconnectInterval, waiting, router, failures>>

ReconnectFails ==
    /\ pc = "connecting" /\ StationTimesOut
    /\ pc' = "loop"
    /\ reconnectInterval' = Doubled(reconnectInterval, MAX_RECONNECT_INTERVAL)
    /\ failures' = Least(failures + 1, MAX_RECONNECT_ATTEMPTS)
    /\ UNCHANGED <<settings, initialized, apMode, reconnectAttempts, sinceAttempt, waiting,
                   mode, associated, router>>

WifiStep == \/ ConnectSucceeds \/ Begin \/ BeginFallsBack \/ reconnect \/ OutOfAttempts
            \/ ReconnectFails

(* Has the loop something to do before time passes?                        *)
WifiBusy == pc = "off" \/ StationUp \/ BootGivesUp \/ ReconnectDue
            \/ (pc = "connecting" /\ StationTimesOut)

-----------------------------------------------------------------------------
(* The radio driver and the air.                                           *)
Radio(up) == associated' = up
             /\ UNCHANGED <<settings, pc, initialized, apMode, backoff, sinceAttempt,
                            waiting, mode, failures>>
Associate  == mode = "sta" /\ router /\ ~associated /\ Radio(TRUE) /\ UNCHANGED router
RadioDrops == associated /\ Radio(FALSE) /\ UNCHANGED router
RouterGoes == router /\ router' = FALSE /\ Radio(FALSE)
RouterComes == ~router /\ router' = TRUE /\ Radio(associated)

WifiTime ==
    /\ sinceAttempt' = Least(sinceAttempt + 1, MAX_RECONNECT_INTERVAL)
    /\ waiting' = IF pc \in {"boot", "connecting"} THEN waiting + 1 ELSE waiting
    /\ UNCHANGED <<settings, pc, initialized, apMode, backoff, mode, associated, router,
                   failures>>

-----------------------------------------------------------------------------
WifiTypeOK ==
    /\ {apEnabled, ssid, initialized, apMode, associated, router} \subseteq BOOLEAN
    /\ pc \in {"off", "boot", "loop", "connecting"} /\ mode \in {"off", "sta", "ap"}
    /\ reconnectAttempts \in 0..(MAX_RECONNECT_ATTEMPTS + 1)
    /\ failures \in 0..MAX_RECONNECT_ATTEMPTS
    /\ reconnectInterval \in MIN_RECONNECT_INTERVAL..MAX_RECONNECT_INTERVAL
    /\ sinceAttempt \in 0..MAX_RECONNECT_INTERVAL /\ waiting \in 0..ConnectTimeout
================================================================================
