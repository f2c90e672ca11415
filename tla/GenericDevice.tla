----------------------------- MODULE GenericDevice -----------------------------
(***************************************************************************)
(* A device described by a JSON file (lib/inverters/GenericModbusDevice):  *)
(* the file is validated entry by entry, and every poll reads the entries  *)
(* in the order of the file until a time budget is used up, first those    *)
(* for basic and then, in a phase and with a budget of their own, those    *)
(* for storage telemetry.                                                  *)
(*                                                                         *)
(* A name in the file is new or one used before; sentinels, scales, bits   *)
(* and addresses, valid or not, do not change what is read when.           *)
(***************************************************************************)
EXTENDS Integers, Sequences, FiniteSets

CONSTANTS
    OFFSET_VALUES,     \* values of the uint8_t an offset is cast to
    MAX_GROUP_COUNT,   \* words of one transaction at most
    PollInterval,      \* poll_interval_sec
    MIN_BUDGET, MAX_BUDGET,
    FailTime,          \* what a read takes at most: all its attempts time out
    ReadStorage,       \* configuration: read_storage_regs
    MaxEntries         \* bound: registers and groups of the file

ASSUME DeviceAssumption ==
    /\ OFFSET_VALUES \in Nat /\ MAX_GROUP_COUNT \in Nat
    /\ 2 <= MAX_GROUP_COUNT /\ MAX_GROUP_COUNT < OFFSET_VALUES
    /\ PollInterval \in Nat /\ MIN_BUDGET \in Nat /\ MAX_BUDGET \in Nat
    /\ MIN_BUDGET <= MAX_BUDGET
    /\ FailTime \in Nat \ {0} /\ ReadStorage \in BOOLEAN /\ MaxEntries \in Nat

VARIABLES
    pc,          \* "registers", "groups", "fields" (of a group), "refused",
                 \* "idle", "read" or "done" (with a phase)
    schema, entries,
    group,       \* the group being parsed
    duplicate,   \* was a name used twice?
    healthy,     \* entries the device answers at every attempt
    phase,       \* "basic" or "storage"
    index,       \* next entry of the phase
    elapsed,     \* millis() - startMs
    tripped,     \* budgetTripped
    served       \* entries read in this phase

file == <<schema, entries, group, duplicate, healthy>>
poll == <<phase, index, elapsed, tripped, served>>
vars == <<pc, file, poll>>

Words(f) == f.offset .. (f.offset + f.size - 1)
Fields == [offset : 0..(OFFSET_VALUES - 1), size : {1, 2}]
Group(count, storage) == [count |-> count, storage |-> storage, fields |-> {}]
NoGroup == Group(0, FALSE)
Covered(g) == UNION {Words(f) : f \in g.fields}

Init ==
    /\ pc = "registers" /\ schema \in 1..2 /\ entries = <<>> /\ group = NoGroup
    /\ duplicate = FALSE /\ healthy = {}
    /\ phase = "basic" /\ index = 1 /\ elapsed = 0 /\ tripped = FALSE /\ served = {}

-----------------------------------------------------------------------------
(* parseDoc(): registers first, then groups; the first error refuses it    *)
(* all.  A register is read like a group of one field.                     *)
Refuse == pc' = "refused" /\ UNCHANGED <<file, poll>>

NameSeen(seen) == duplicate' = (duplicate \/ seen)

parseRegisterDef ==
    /\ pc = "registers" /\ Len(entries) < MaxEntries
    /\ \/ \E size \in 1..2, storage, seen \in BOOLEAN :
             /\ entries' = Append(entries, [Group(size, storage) EXCEPT
                                              !.fields = {[offset |-> 0, size |-> size]}])
             /\ NameSeen(seen)
             /\ UNCHANGED <<pc, schema, group, healthy, poll>>
       \/ Refuse   \* an offset, or a bad address, function code, type or number

StartGroups ==
    /\ pc = "registers" /\ pc' = "groups"
    /\ UNCHANGED <<file, poll>>

(* parseGroup().                                                           *)
ValidCount(count) == count \in 1..MAX_GROUP_COUNT

OpenGroup ==
    /\ pc = "groups" /\ Len(entries) < MaxEntries
    /\ \E count \in 0..(MAX_GROUP_COUNT + 1), storage \in BOOLEAN :
          IF schema >= 2 /\ ValidCount(count)
          THEN /\ pc' = "fields" /\ group' = Group(count, storage)
               /\ UNCHANGED <<schema, entries, duplicate, healthy, poll>>
          ELSE Refuse

(* The offset is cast before it is compared.  Mutant of Fits: one word of  *)
(* the field fits.                                                         *)
Cast(offset) == offset % OFFSET_VALUES
StartFits(f, count) == f.offset + 1 <= count
Fits(f, count) == f.offset + f.size <= count
\* Mutant of Overlaps: only equal starts collide.
SameStart(f, g) == \E other \in g.fields : other.offset = f.offset
Overlaps(f, g) == Words(f) \cap Covered(g) # {}

parseField ==
    /\ pc = "fields"
    /\ \E written \in 0..(OFFSET_VALUES + MAX_GROUP_COUNT), size \in 1..2, seen \in BOOLEAN :
          LET f == [offset |-> Cast(written), size |-> size]
          IN  IF Fits(f, group.count) /\ ~Overlaps(f, group)
              THEN /\ group' = [group EXCEPT !.fields = @ \cup {f}]
                   /\ NameSeen(seen)
                   /\ UNCHANGED <<pc, schema, entries, healthy, poll>>
              ELSE Refuse

CloseGroup ==
    /\ pc = "fields"
    /\ IF group.fields = {}
       THEN Refuse
       ELSE /\ entries' = Append(entries, group) /\ group' = NoGroup
            /\ pc' = "groups"
            /\ UNCHANGED <<schema, duplicate, healthy, poll>>

(* checkDuplicateNames(), and a file with nothing in it.  The device on    *)
(* the bus answers some entries always, the others now and then or never.  *)
FinishLoad ==
    /\ pc = "groups"
    /\ IF duplicate \/ entries = <<>>
       THEN Refuse
       ELSE /\ pc' = "idle" /\ healthy' \in SUBSET (1..Len(entries))
            /\ UNCHANGED <<schema, entries, group, duplicate, poll>>

Load == parseRegisterDef \/ StartGroups \/ OpenGroup \/ parseField \/ CloseGroup \/ FinishLoad

-----------------------------------------------------------------------------
(* readPhase()                                                             *)
Clamp(x, low, high) == IF x > high THEN high ELSE IF x < low THEN low ELSE x
pollBudget == Clamp(PollInterval \div 2, MIN_BUDGET, MAX_BUDGET)

InPhase(i) == entries[i].storage = (phase = "storage")

StartPhase(which) ==
    /\ pc' = "read" /\ phase' = which
    /\ index' = 1 /\ elapsed' = 0 /\ tripped' = FALSE /\ served' = {}
    /\ UNCHANGED file

(* Mutants of Expired: the clock is not looked at; it is tested with >=.   *)
NeverExpired == tripped
ExpiredEarly == tripped \/ elapsed >= pollBudget
Expired == tripped \/ elapsed > pollBudget

Step == index' = index + 1 /\ UNCHANGED <<pc, file, phase>>

OtherPhase ==
    /\ pc = "read" /\ index <= Len(entries) /\ ~InPhase(index)
    /\ Step /\ UNCHANGED <<elapsed, tripped, served>>

SkipEntry ==
    /\ pc = "read" /\ index <= Len(entries) /\ InPhase(index) /\ Expired
    /\ tripped' = TRUE
    /\ Step /\ UNCHANGED <<elapsed, served>>

(* A read takes no time worth counting, or up to all its attempts.        *)
ReadEntry ==
    /\ pc = "read" /\ index <= Len(entries) /\ InPhase(index) /\ ~Expired
    /\ \E time \in 0..FailTime : elapsed' = elapsed + time
    /\ served' \in IF index \in healthy THEN {served \cup {index}}
                                        ELSE {served, served \cup {index}}
    /\ Step /\ UNCHANGED tripped

EndPhase ==
    /\ pc = "read" /\ index > Len(entries)
    /\ pc' = "done"
    /\ UNCHANGED <<file, poll>>

(* Poller::readAndPublishTelemetry: the storage phase only after a basic   *)
(* phase that read something.                                              *)
StartPoll == pc = "idle" /\ StartPhase("basic")
GoOn == pc = "done" /\ phase = "basic" /\ served # {} /\ ReadStorage /\ StartPhase("storage")
PollEnds ==
    /\ pc = "done" /\ (phase = "storage" \/ served = {} \/ ~ReadStorage)
    /\ pc' = "idle"
    /\ UNCHANGED <<file, poll>>

readPhase == OtherPhase \/ SkipEntry \/ ReadEntry \/ EndPhase
Next == Load \/ StartPoll \/ GoOn \/ PollEnds \/ readPhase

Spec == Init /\ [][Next]_vars

-----------------------------------------------------------------------------
(* The file, the parser and the poll stay in their ranges.                 *)
TypeOK ==
    /\ pc \in {"registers", "groups", "fields", "refused", "idle", "read", "done"}
    /\ schema \in 1..2 /\ duplicate \in BOOLEAN /\ tripped \in BOOLEAN
    /\ entries \in Seq([count : 1..MAX_GROUP_COUNT, storage : BOOLEAN, fields : SUBSET Fields])
    /\ Len(entries) <= MaxEntries
    /\ healthy \subseteq 1..Len(entries) /\ served \subseteq 1..Len(entries)
    /\ phase \in {"basic", "storage"} /\ index \in 1..(Len(entries) + 1)
    /\ elapsed \in Nat

(* What emitField() takes from the response of an accepted entry lies in   *)
(* the words that were read, and no word is published under two names.     *)
FieldsAreSlices ==
    \A i \in 1..Len(entries) :
       \A f \in entries[i].fields :
          /\ Words(f) \subseteq 0..(entries[i].count - 1)
          /\ \A g \in entries[i].fields \ {f} : Words(f) \cap Words(g) = {}

(* A phase takes its budget and one more read at most, however many        *)
(* entries time out: the poll loop cannot stand still for the whole file.  *)
PhaseBounded == elapsed <= pollBudget + FailTime

(* The budget never takes an entry from a device that answers it, unless   *)
(* the entries before it can use up the budget: an entry that comes early  *)
(* enough is read in every phase of its kind.                              *)
Before(i) == {j \in 1..(i - 1) : InPhase(j)}
EarlyEntriesServed ==
    pc = "done" =>
       \A i \in healthy : InPhase(i) /\ Cardinality(Before(i)) * FailTime <= pollBudget
                             => i \in served
================================================================================
