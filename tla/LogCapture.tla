----------------------------- MODULE LogCapture -----------------------------
(***************************************************************************)
(* Which records LogStore::sink keeps (lib/log_store): everything in the   *)
(* boot window, WARN and ERROR always, and everything for a while after an *)
(* ERROR that re-armed full capture.                                       *)
(*                                                                         *)
(* sink() runs on the calling task with the timestamp ESPLogger::print     *)
(* took before it; the capture test and the re-arm are outside of the      *)
(* store's lock, so tasks interleave between the reads and the writes of   *)
(* the two capture variables.  The clock is millis(), which wraps.         *)
(***************************************************************************)
EXTENDS Integers, FiniteSets

CONSTANTS
    Tasks,       \* tasks that log
    Width,       \* millis() counts modulo this (2^32)
    BootWindow,  \* LOG_BOOT_WINDOW_MS
    ErrorWindow, \* LOG_ERROR_WINDOW_MS
    RearmGap,    \* LOG_ERROR_REARM_MIN_GAP_MS
    MaxTime,     \* bound: time of a run, wraps included
    MaxErrors    \* bound: distinct times at which ERRORs are logged

ASSUME ClockAssumption ==
    /\ Width \in Nat \ {0} /\ BootWindow \in Nat /\ ErrorWindow \in Nat
    /\ RearmGap \in Nat /\ MaxTime \in Nat /\ MaxErrors \in Nat
    /\ BootWindow + ErrorWindow < Width /\ RearmGap < Width

VARIABLES
    time,                   \* real time since boot
    pc, level, stamp, kept, \* per task: its record, and was it stored
    started,                \* per task, history: real time of its stamp
    lastRearm, captureUntil,\* s_lastRearmMs, s_captureUntilMs
    errors, rearms,         \* history: real times of ERRORs and re-arms
    raced,                  \* history: two ERRORs were in sink() at once
    calm                    \* per task, history: no ERROR was when it logged

vars == <<time, pc, level, stamp, kept, started, lastRearm, captureUntil,
          errors, rearms, raced, calm>>

Levels == {"ERROR", "WARN", "INFO"}     \* DEBUG is treated like INFO
Millis == time % Width

(* begin() and the boot: both variables start at 0.                        *)
Init ==
    /\ time = 0
    /\ pc = [k \in Tasks |-> "idle"]
    /\ level = [k \in Tasks |-> "INFO"] /\ stamp = [k \in Tasks |-> 0]
    /\ kept = [k \in Tasks |-> FALSE] /\ started = [k \in Tasks |-> 0]
    /\ lastRearm = 0 /\ captureUntil = 0
    /\ errors = {} /\ rearms = {} /\ raced = FALSE
    /\ calm = [k \in Tasks |-> TRUE]

Tick ==
    /\ time < MaxTime /\ time' = time + 1
    /\ UNCHANGED <<pc, level, stamp, kept, started, lastRearm, captureUntil,
                   errors, rearms, raced, calm>>

ErrorPending == \E j \in Tasks : pc[j] # "idle" /\ level[j] = "ERROR"

(* ESPLogger::print takes the timestamp and calls the sinks.               *)
Emit(k, l) ==
    /\ pc[k] = "idle"
    /\ pc' = [pc EXCEPT ![k] = "capture"]
    /\ level' = [level EXCEPT ![k] = l]
    /\ stamp' = [stamp EXCEPT ![k] = Millis]
    /\ started' = [started EXCEPT ![k] = time]
    /\ errors' = IF l = "ERROR" THEN errors \cup {time} ELSE errors
    /\ Cardinality(errors') <= MaxErrors
    /\ calm' = [calm EXCEPT ![k] = ~ErrorPending]
    /\ raced' = (raced \/ (l = "ERROR" /\ ErrorPending))
    /\ UNCHANGED <<time, kept, lastRearm, captureUntil, rearms>>

shouldCapture(l, now) ==
    l \in {"ERROR", "WARN"} \/ now < BootWindow \/ now < captureUntil

Capture(k) ==
    /\ pc[k] = "capture"
    /\ kept' = [kept EXCEPT ![k] = shouldCapture(level[k], stamp[k])]
    /\ pc' = [pc EXCEPT ![k] = IF level[k] = "ERROR" THEN "gap" ELSE "idle"]
    /\ UNCHANGED <<time, level, stamp, started, lastRearm, captureUntil,
                   errors, rearms, raced, calm>>

(* The unsigned difference decides; then the two stores, one by one.       *)
(* Mutants of GapPassed: the rate limit is gone; it is one too long.       *)
AlwaysPassed(now) == TRUE
GapExceeded(now) == (now - lastRearm) % Width > RearmGap
GapPassed(now) == (now - lastRearm) % Width >= RearmGap

CheckGap(k) ==
    /\ pc[k] = "gap"
    /\ pc' = [pc EXCEPT ![k] = IF GapPassed(stamp[k]) THEN "rearm" ELSE "idle"]
    /\ UNCHANGED <<time, level, stamp, kept, started, lastRearm, captureUntil,
                   errors, rearms, raced, calm>>

Rearm(k) ==
    /\ pc[k] = "rearm"
    /\ lastRearm' = stamp[k] /\ rearms' = rearms \cup {started[k]}
    /\ pc' = [pc EXCEPT ![k] = "open"]
    /\ UNCHANGED <<time, level, stamp, kept, started, captureUntil, errors, raced,
                   calm>>

(* Mutant of WindowEnd: the other constant.                                *)
GapEnd(now) == (now + RearmGap) % Width
WindowEnd(now) == (now + ErrorWindow) % Width

OpenWindow(k) ==
    /\ pc[k] = "open"
    /\ captureUntil' = WindowEnd(stamp[k])
    /\ pc' = [pc EXCEPT ![k] = "idle"]
    /\ UNCHANGED <<time, level, stamp, kept, started, lastRearm, errors, rearms,
                   raced, calm>>

Sink(k) == Capture(k) \/ CheckGap(k) \/ Rearm(k) \/ OpenWindow(k)

Next == Tick \/ \E k \in Tasks : Sink(k) \/ \E l \in Levels : Emit(k, l)

Spec == Init /\ [][Next]_vars

-----------------------------------------------------------------------------
TypeOK ==
    /\ time \in 0..MaxTime
    /\ pc \in [Tasks -> {"idle", "capture", "gap", "rearm", "open"}]
    /\ level \in [Tasks -> Levels] /\ kept \in [Tasks -> BOOLEAN]
    /\ stamp \in [Tasks -> 0..(Width - 1)]
    /\ started \in [Tasks -> 0..MaxTime]
    /\ lastRearm \in 0..(Width - 1) /\ captureUntil \in 0..(Width - 1)
    /\ errors \subseteq 0..MaxTime /\ rearms \subseteq 0..MaxTime
    /\ raced \in BOOLEAN /\ calm \in [Tasks -> BOOLEAN]

(* The clock has not wrapped, and no deadline has: the first 49.7 days.    *)
Unwrapped == time + ErrorWindow < Width

(* A task whose INFO record went through sink().                           *)
Logged(k) == pc[k] = "idle" /\ level[k] = "INFO"

(* Once the boot window is over "only WARN/ERROR are kept, to stop routine *)
(* poll chatter evicting the boot log" (constants.h:127), but for the      *)
(* aftermath of an ERROR, whatever tasks interleave; until the clock wraps.*)
NoChatter ==
    Unwrapped => \A k \in Tasks : Logged(k) /\ kept[k] =>
        started[k] < BootWindow \/ \E e \in errors : started[k] < e + ErrorWindow

(* "Minimum gap between re-arms, so a sustained error storm cannot hold    *)
(* the capture window permanently open" (constants.h:135): across wraps of *)
(* the clock, as long as no two tasks are in sink() with an ERROR at once. *)
RearmsSpaced ==
    ~raced => \A e, f \in rearms : e < f => f - e >= RearmGap

(* "An ERROR re-opens full capture for this long, so the aftermath of a    *)
(* failure is recorded" (constants.h:131), if the rate limit lets it: a    *)
(* line logged in the window of an ERROR that is through sink() is kept.   *)
(* s_lastRearmMs starts at 0: an ERROR earlier than RearmGap opens none.   *)
AftermathAfterGap ==
    Unwrapped /\ ~raced => \A k \in Tasks, e \in errors :
        /\ Logged(k) /\ calm[k] /\ e < started[k] /\ started[k] < e + ErrorWindow
        /\ e >= RearmGap /\ \A r \in rearms : ~(r < e /\ e < r + RearmGap)
        => kept[k]
=============================================================================
