----------------------------- MODULE LogHistory -----------------------------
(***************************************************************************)
(* What the log store promises, with no rings, offsets or locks            *)
(* (lib/log_store/include/LogStore.h).                                     *)
(*                                                                         *)
(* Records are numbered in the order they are logged.  The boot log is     *)
(* this boot's first records and is never shortened while the boot lasts.  *)
(* The rolling log loses only its oldest record, only while a record is    *)
(* being logged into it, and only if it is too full to take one more       *)
(* record and one wrap.  A restart keeps the rolling log; a power cut      *)
(* clears everything.                                                      *)
(***************************************************************************)
EXTENDS Integers, Sequences

CONSTANTS RollCap, MaxNeed   \* room of the rolling log; largest record size

VARIABLES
    bootLog, rollLog,        \* sequences of [id, size]
    next                     \* number of the last record logged

hvars == <<bootLog, rollLog, next>>

Entry == [id : Nat \ {0}, size : 1..MaxNeed]
TotalSize(log) ==
    LET T[n \in 0..Len(log)] == IF n = 0 THEN 0 ELSE T[n - 1] + log[n].size
    IN  T[Len(log)]

HInit == bootLog = <<>> /\ rollLog = <<>> /\ next = 0

KeepBoot == \E s \in 1..MaxNeed :
    /\ next' = next + 1
    /\ bootLog' = Append(bootLog, [id |-> next + 1, size |-> s])
    /\ UNCHANGED rollLog

Roll == \E s \in 1..MaxNeed :
    /\ next' = next + 1
    /\ rollLog' = Append(rollLog, [id |-> next + 1, size |-> s])
    /\ TotalSize(rollLog') <= RollCap
    /\ UNCHANGED bootLog

LoseOldest ==
    /\ rollLog # <<>>
    /\ TotalSize(rollLog) + 2 * MaxNeed > RollCap + 1
    /\ rollLog' = Tail(rollLog)
    /\ UNCHANGED <<bootLog, next>>

(* A boot starts a boot log with its marker.                               *)
Boot == \E s \in 1..MaxNeed :
    /\ next' = next + 1
    /\ bootLog' = <<[id |-> next + 1, size |-> s]>>
    /\ UNCHANGED rollLog

PowerLoss == bootLog' = <<>> /\ rollLog' = <<>> /\ next' = 0

HNext == KeepBoot \/ Roll \/ LoseOldest \/ Boot \/ PowerLoss

HSpec == HInit /\ [][HNext]_hvars
=============================================================================
