------------------------------ MODULE LogStore ------------------------------
(***************************************************************************)
(* The two-segment log store in RTC slow RAM (lib/log_store).              *)
(*                                                                         *)
(* A boot segment that fills once and a rolling segment that evicts its    *)
(* oldest records.  Every task logs through sink(), which runs in one      *)
(* critical section; the web task reads the store back record by record,   *)
(* one critical section per record, with writers in between.  The rolling  *)
(* segment survives a restart and is used as it was found.                 *)
(*                                                                         *)
(* All sizes are in 4-byte words: the code rounds every body up to 4 bytes *)
(* and both capacities are multiples of 4, so no offset is ever odd.       *)
(* The critical section of a writer is split at its stores, in the order   *)
(* of the code, because a restart can fall between any two of them.        *)
(***************************************************************************)
EXTENDS Integers, Sequences, SequencesExt

CONSTANTS
    BootCap,     \* words of the boot segment (LOG_STORE_BOOT_BYTES / 4)
    RollCap,     \* words of the rolling segment
    MaxLen,      \* words of the longest body (LOG_STORE_MAX_MSG / 4)
    MarkerLen,   \* words of the boot marker's body
    TornCrash,   \* may the chip restart while a writer holds the lock?
    DropMod,     \* `dropped` wraps at this (2^32)
    MaxSeq,      \* bound: records logged
    MaxBoots     \* bound: boots

Hdr == 2         \* words of a record header

ASSUME SizesAssumption ==
    /\ BootCap \in Nat /\ RollCap \in Nat /\ MaxLen \in Nat
    /\ MarkerLen \in 0..MaxLen
    /\ Hdr + MaxLen <= RollCap /\ Hdr + MaxLen <= BootCap

ASSUME BoundsAssumption ==
    DropMod \in Nat \ {0} /\ TornCrash \in BOOLEAN /\ MaxSeq \in Nat /\ MaxBoots \in Nat

VARIABLES
    power,       \* "off", "booting" (inside begin()) or "up"
    magic,       \* does the region pass the validity test of begin()?
    bootMem, bootUsed,              \* the boot segment; writePos = used
    mem, writePos, readStart, used, \* the rolling segment
    seq, dropped, bootCount,        \* the counters of the region
    lock,        \* the spinlock: "free", "writer" or "reader"
    pc,          \* next store of the writer in appendCircular
    len, gap, sz,\* its locals: body length, tailGap, size being evicted
    cursor,      \* the reader's Cursor
    out,         \* history: ids the reader returned from this segment
    snap,        \* history: ids live when the reader entered the segment
    lapped       \* history: the next unread record was evicted

region == <<magic, bootMem, bootUsed, mem, writePos, readStart, used, seq,
            dropped, bootCount>>
locals == <<lock, pc, len, gap, sz>>
reader == <<cursor, out, snap, lapped>>
vars == <<power, region, locals, reader>>

-----------------------------------------------------------------------------
(* What a word of a segment holds, as a header read there would parse.     *)
(* "junk" is a word that is no header: body text, a timestamp, or RAM that *)
(* was never written; its bits may parse as anything.                      *)

Cell == [k : {"rec", "wrap", "junk"}, id : Nat, len : 0..MaxLen]
Filler == [k |-> "wrap", id |-> 0, len |-> 0]
Junk == [k |-> "junk", id |-> 0, len |-> 0]
Record(i, l) == [k |-> "rec", id |-> i, len |-> l]

Need(l) == Hdr + l
WrapLate(p, cap) == IF p > cap THEN p - cap ELSE p       \* mutant of Wrap
Wrap(p, cap) == IF p >= cap THEN p - cap ELSE p    \* p % cap, as p < 2 * cap

(* The header goes to p; the words after it stop being headers.            *)
Put(m, p, c) ==
    [q \in DOMAIN m |->
        IF q = p THEN c
        ELSE IF p < q /\ q < p + Need(c.len) THEN Junk
        ELSE m[q]]

(* Values recordSizeAt can return; RollCap + 1 stands for all larger ones. *)
SizesAt(p) ==
    IF p > RollCap - Hdr \/ mem[p].k = "wrap" THEN {RollCap - p}
    ELSE IF mem[p].k = "rec" THEN {Need(mem[p].len)}
    ELSE 0..(RollCap + 1)

(* What next() can make of the header at p; "corrupt" is len > MAX_MSG.    *)
Corrupt == [k |-> "corrupt", id |-> 0, len |-> 0]
ParsesAt(m, p) ==
    IF m[p].k = "junk"
    THEN {Filler, Corrupt} \cup {Record(0, l) : l \in 0..MaxLen}
    ELSE {m[p]}

(* The records met when n words are walked from p.                         *)
Span(m, cap, p) ==
    IF p > cap - Hdr \/ m[p].k = "wrap" THEN cap - p ELSE Need(m[p].len)
Met(m, cap, p) == IF p <= cap - Hdr /\ m[p].k = "rec" THEN <<m[p]>> ELSE <<>>
Walk(m, cap, start, words) ==
    LET W[x \in (0..(cap - 1)) \X (0..cap)] ==
          IF x[2] = 0 THEN <<>>
          ELSE LET s == Span(m, cap, x[1])
               IN Met(m, cap, x[1])
                  \o (IF s >= x[2] THEN <<>> ELSE W[<<Wrap(x[1] + s, cap), x[2] - s>>])
    IN  W[<<start, words>>]

Ids(s) == [i \in DOMAIN s |-> s[i].id]

BootLive == Walk(bootMem, BootCap, 0, bootUsed)
(* Between the two stores of an eviction `used` still counts its record.   *)
RollLive == Walk(mem, RollCap, readStart, used - sz)

NoCursor == [rd |-> "none", seg |-> "boot", pos |-> 0, remaining |-> 0,
             overrun |-> FALSE]

-----------------------------------------------------------------------------
(* RTC RAM after a power-up holds garbage: magic does not match.           *)
Init ==
    /\ power = "off" /\ magic = FALSE
    /\ bootMem = [q \in 0..(BootCap - 1) |-> Junk] /\ bootUsed = 0
    /\ mem = [q \in 0..(RollCap - 1) |-> Junk]
    /\ writePos = 0 /\ readStart = 0 /\ used = 0
    /\ seq = 0 /\ dropped = 0 /\ bootCount = 0
    /\ lock = "free" /\ pc = "idle" /\ len = 0 /\ gap = 0 /\ sz = 0
    /\ cursor = NoCursor /\ out = <<>> /\ snap = <<>> /\ lapped = FALSE

(* begin(): keep a valid region, rebuild any other; reset the boot segment *)
(* and put the marker in it; then the copy of the marker, with the lock,   *)
(* starts into the rolling segment.                                        *)
Begin ==
    /\ power = "off" /\ power' = "booting"
    /\ magic' = TRUE
    /\ bootCount' = IF magic THEN bootCount + 1 ELSE 1
    /\ seq' = IF magic THEN seq + 1 ELSE 1
    /\ dropped' = IF magic THEN dropped ELSE 0
    /\ writePos' = IF magic THEN writePos ELSE 0
    /\ readStart' = IF magic THEN readStart ELSE 0
    /\ used' = IF magic THEN used ELSE 0
    /\ bootMem' = Put(bootMem, 0, Record(seq', MarkerLen))
    /\ bootUsed' = Need(MarkerLen)
    /\ lock' = "writer" /\ pc' = "append" /\ len' = MarkerLen
    /\ UNCHANGED <<mem, gap, sz, reader>>

(* sink() of a captured record: a boot-window record that fits goes to the *)
(* boot segment and the section ends; any other starts appendCircular.     *)
SinkBoot(l) ==
    /\ power = "up" /\ lock = "free" /\ seq < MaxSeq
    /\ bootUsed + Need(l) <= BootCap
    /\ bootMem' = Put(bootMem, bootUsed, Record(seq + 1, l))
    /\ bootUsed' = bootUsed + Need(l)
    /\ seq' = seq + 1
    /\ UNCHANGED <<power, magic, mem, writePos, readStart, used, dropped,
                   bootCount, locals, reader>>

SinkRoll(l, early) ==
    /\ power = "up" /\ lock = "free" /\ seq < MaxSeq
    /\ early => bootUsed + Need(l) > BootCap
    /\ lock' = "writer" /\ pc' = "append" /\ len' = l
    /\ UNCHANGED <<power, region, gap, sz, reader>>

(* appendCircular: is the tail large enough?                               *)
AppendStart ==
    /\ pc = "append"
    /\ gap' = RollCap - writePos
    /\ pc' = IF gap' < Need(len) THEN "evictGap" ELSE "evictNeed"
    /\ UNCHANGED <<power, region, lock, len, sz, reader>>

(* One turn of evict(): `gap` words, later Need(len) words, must be free.  *)
EvictTarget == IF pc = "evictGap" THEN gap ELSE Need(len)
(* Mutant of MustEvict: a segment that is not empty is emptied.            *)
EvictAll == pc \in {"evictGap", "evictNeed"} /\ used > 0
MustEvict == pc \in {"evictGap", "evictNeed"}
             /\ used + EvictTarget > RollCap /\ used > 0
AfterEvict == IF pc = "evictGap" THEN "filler" ELSE "write"

EvictDone ==
    /\ pc \in {"evictGap", "evictNeed"} /\ ~MustEvict
    /\ pc' = AfterEvict
    /\ UNCHANGED <<power, region, lock, len, gap, sz, reader>>

(* Mutant of Inconsistent: without the test for 0 the loop does not end.   *)
TooLarge(s) == s > used
Inconsistent(s) == s = 0 \/ s > used

EvictSalvage ==
    /\ MustEvict
    /\ \E s \in SizesAt(readStart) : Inconsistent(s)
    /\ writePos' = 0 /\ readStart' = 0 /\ used' = 0
    /\ pc' = AfterEvict
    /\ UNCHANGED <<power, magic, bootMem, bootUsed, mem, seq, dropped,
                   bootCount, lock, len, gap, sz, reader>>

EvictAdvance ==
    /\ MustEvict
    /\ \E s \in SizesAt(readStart) :
          /\ ~Inconsistent(s)
          /\ sz' = s
          /\ readStart' = Wrap(readStart + s, RollCap)
    /\ pc' = IF pc = "evictGap" THEN "releaseGap" ELSE "releaseNeed"
    /\ lapped' = (lapped \/ (cursor.rd # "none" /\ cursor.seg = "roll"
                              /\ cursor.remaining > 0
                              /\ cursor.pos = readStart))
    /\ UNCHANGED <<power, magic, bootMem, bootUsed, mem, writePos, used, seq,
                   dropped, bootCount, lock, len, gap, cursor, out, snap>>

EvictRelease ==
    /\ pc \in {"releaseGap", "releaseNeed"}
    /\ used' = used - sz /\ sz' = 0
    /\ dropped' = (dropped + 1) % DropMod
    /\ pc' = IF pc = "releaseGap" THEN "evictGap" ELSE "evictNeed"
    /\ UNCHANGED <<power, magic, bootMem, bootUsed, mem, writePos, readStart,
                   seq, bootCount, lock, len, gap, reader>>

(* The tail becomes filler, with a header if there is room for one.        *)
WriteFiller ==
    /\ pc = "filler" /\ pc' = "gapUsed"
    /\ mem' = IF gap >= Hdr THEN Put(mem, writePos, Filler) ELSE mem
    /\ UNCHANGED <<power, magic, bootMem, bootUsed, writePos, readStart, used,
                   seq, dropped, bootCount, lock, len, gap, sz, reader>>

(* Mutant of GapUsed: the filler is not counted.                           *)
GapNotUsed ==
    /\ pc = "gapUsed" /\ pc' = "gapWrap"
    /\ UNCHANGED <<power, region, lock, len, gap, sz, reader>>

GapUsed ==
    /\ pc = "gapUsed" /\ pc' = "gapWrap"
    /\ used' = used + gap
    /\ UNCHANGED <<power, magic, bootMem, bootUsed, mem, writePos, readStart,
                   seq, dropped, bootCount, lock, len, gap, sz, reader>>

GapWrap ==
    /\ pc = "gapWrap" /\ pc' = "evictNeed"
    /\ writePos' = 0
    /\ UNCHANGED <<power, magic, bootMem, bootUsed, mem, readStart, used, seq,
                   dropped, bootCount, lock, len, gap, sz, reader>>

WriteRecord ==
    /\ pc = "write" /\ pc' = "advance"
    /\ mem' = Put(mem, writePos, Record(seq + 1, len))
    /\ UNCHANGED <<power, magic, bootMem, bootUsed, writePos, readStart, used,
                   seq, dropped, bootCount, lock, len, gap, sz, reader>>

AdvanceWritePos ==
    /\ pc = "advance" /\ pc' = "count"
    /\ writePos' = Wrap(writePos + Need(len), RollCap)
    /\ UNCHANGED <<power, magic, bootMem, bootUsed, mem, readStart, used, seq,
                   dropped, bootCount, lock, len, gap, sz, reader>>

(* used, then seq, then the lock; begin() is over with its marker's copy.  *)
FinishAppend ==
    /\ pc = "count" /\ pc' = "idle"
    /\ used' = used + Need(len)
    /\ seq' = seq + 1
    /\ lock' = "free" /\ power' = "up" /\ len' = 0 /\ gap' = 0
    /\ UNCHANGED <<magic, bootMem, bootUsed, mem, writePos, readStart, dropped,
                   bootCount, sz, reader>>

AppendStep ==
    \/ AppendStart \/ EvictDone \/ EvictSalvage \/ EvictAdvance
    \/ EvictRelease \/ WriteFiller \/ GapUsed \/ GapWrap \/ WriteRecord
    \/ AdvanceWritePos \/ FinishAppend

-----------------------------------------------------------------------------
(* The reader: openRead(), then next() until it returns false.  next() is  *)
(* one critical section; each action below is one turn of its loop.        *)

OpenRead ==
    /\ power = "up" /\ lock = "free" /\ cursor.rd = "none"
    /\ cursor' = [NoCursor EXCEPT !.rd = "open", !.remaining = bootUsed]
    /\ snap' = Ids(BootLive)
    /\ UNCHANGED <<power, region, locals, out, lapped>>

NextEnter ==
    /\ cursor.rd = "open" /\ lock = "free"
    /\ lock' = "reader" /\ cursor' = [cursor EXCEPT !.rd = "loop"]
    /\ UNCHANGED <<power, region, pc, len, gap, sz, out, snap, lapped>>

Looping == cursor.rd = "loop" /\ cursor.seg # "done"
SegMem == IF cursor.seg = "boot" THEN bootMem ELSE mem
CapOf(seg) == IF seg = "boot" THEN BootCap ELSE RollCap
SegCap == CapOf(cursor.seg)
SegUsed == IF cursor.seg = "boot" THEN bootUsed ELSE used
Monus(a, b) == IF a > b THEN a - b ELSE 0

NextSegment ==
    /\ Looping /\ cursor.remaining = 0
    /\ IF cursor.seg = "boot"
       THEN /\ cursor' = [cursor EXCEPT !.seg = "roll", !.pos = readStart,
                                        !.remaining = used]
            /\ out' = <<>> /\ snap' = Ids(RollLive) /\ lapped' = FALSE
       ELSE /\ cursor' = [cursor EXCEPT !.seg = "done"]
            /\ UNCHANGED <<out, snap, lapped>>
    /\ UNCHANGED <<power, region, locals>>

(* Mutants of CheckOverrun: a reader of all there is counts as lapped; a   *)
(* lapped reader goes on.                                                  *)
CheckOverrunLoose ==
    /\ Looping /\ cursor.remaining > 0 /\ SegUsed <= cursor.remaining
    /\ cursor' = [cursor EXCEPT !.overrun = TRUE, !.remaining = 0]
    /\ UNCHANGED <<power, region, locals, out, snap, lapped>>

CheckOverrunGoesOn ==
    /\ Looping /\ cursor.remaining > 0 /\ SegUsed < cursor.remaining
    /\ cursor' = [cursor EXCEPT !.overrun = TRUE]
    /\ UNCHANGED <<power, region, locals, out, snap, lapped>>

CheckOverrun ==
    /\ Looping /\ cursor.remaining > 0 /\ SegUsed < cursor.remaining
    /\ cursor' = [cursor EXCEPT !.overrun = TRUE, !.remaining = 0]
    /\ UNCHANGED <<power, region, locals, out, snap, lapped>>

Readable == Looping /\ cursor.remaining > 0 /\ SegUsed >= cursor.remaining
InTailOrLast == cursor.pos >= SegCap - Hdr               \* mutant of InTail
InTail == cursor.pos > SegCap - Hdr

SkipTail ==
    /\ Readable
    /\ InTail \/ Filler \in ParsesAt(SegMem, cursor.pos)
    /\ cursor' = [cursor EXCEPT !.pos = 0,
                    !.remaining = Monus(@, SegCap - cursor.pos)]
    /\ UNCHANGED <<power, region, locals, out, snap, lapped>>

StopAtCorrupt ==
    /\ Readable /\ ~InTail /\ Corrupt \in ParsesAt(SegMem, cursor.pos)
    /\ cursor' = [cursor EXCEPT !.remaining = 0]
    /\ UNCHANGED <<power, region, locals, out, snap, lapped>>

TakeRecord ==
    /\ Readable /\ ~InTail
    /\ \E c \in ParsesAt(SegMem, cursor.pos) :
          /\ c.k = "rec"
          /\ cursor' = [cursor EXCEPT !.rd = "open",
                          !.pos = Wrap(@ + Need(c.len), SegCap),
                          !.remaining = Monus(@, Need(c.len))]
          /\ out' = Append(out, c.id)
    /\ lock' = "free"
    /\ UNCHANGED <<power, region, pc, len, gap, sz, snap, lapped>>

(* next() returns false: the download ends.                                *)
EndRead ==
    /\ cursor.rd = "loop" /\ cursor.seg = "done"
    /\ lock' = "free"
    /\ cursor' = NoCursor /\ out' = <<>> /\ snap' = <<>> /\ lapped' = FALSE
    /\ UNCHANGED <<power, region, pc, len, gap, sz>>

ReadStep == NextSegment \/ CheckOverrun \/ SkipTail \/ StopAtCorrupt
            \/ TakeRecord \/ EndRead

-----------------------------------------------------------------------------
(* A restart (ESP.restart, panic, watchdog) clears everything but RTC RAM. *)
Restart ==
    /\ power # "off" /\ bootCount < MaxBoots
    /\ lock = "writer" => TornCrash
    /\ power' = "off"
    /\ lock' = "free" /\ pc' = "idle" /\ len' = 0 /\ gap' = 0 /\ sz' = 0
    /\ cursor' = NoCursor /\ out' = <<>> /\ snap' = <<>> /\ lapped' = FALSE
    /\ UNCHANGED region

(* A power cut loses RTC RAM as well.                                      *)
PowerCut ==
    /\ power # "off"
    /\ lock = "writer" => TornCrash
    /\ power' = "off"
    /\ magic' = FALSE
    /\ bootMem' = [q \in 0..(BootCap - 1) |-> Junk] /\ bootUsed' = 0
    /\ mem' = [q \in 0..(RollCap - 1) |-> Junk]
    /\ writePos' = 0 /\ readStart' = 0 /\ used' = 0
    /\ seq' = 0 /\ dropped' = 0 /\ bootCount' = 0
    /\ lock' = "free" /\ pc' = "idle" /\ len' = 0 /\ gap' = 0 /\ sz' = 0
    /\ cursor' = NoCursor /\ out' = <<>> /\ snap' = <<>> /\ lapped' = FALSE

Next ==
    \/ Begin
    \/ \E l \in 0..MaxLen : SinkBoot(l) \/ \E early \in BOOLEAN : SinkRoll(l, early)
    \/ AppendStep
    \/ OpenRead \/ NextEnter \/ ReadStep
    \/ Restart \/ PowerCut

Spec == Init /\ [][Next]_vars

(* A core inside a critical section runs on, begin() is run after a reset, *)
(* and the web task keeps calling next() until the download ends.          *)
Fairness ==
    /\ WF_vars(Begin) /\ WF_vars(AppendStep)
    /\ WF_vars(NextEnter) /\ WF_vars(ReadStep)

FairSpec == Spec /\ Fairness

-----------------------------------------------------------------------------
(* Type and range invariant: whatever the restarts tear, every offset the  *)
(* critical sections store and every cursor stays inside its segment.      *)
Pcs == {"idle", "append", "evictGap", "releaseGap", "filler", "gapUsed",
        "gapWrap", "evictNeed", "releaseNeed", "write", "advance", "count"}

CountersOK ==
    /\ power \in {"off", "booting", "up"} /\ magic \in BOOLEAN
    /\ seq \in Nat /\ dropped \in Nat /\ bootCount \in Nat
MemOK ==
    /\ bootMem \in [0..(BootCap - 1) -> Cell]
    /\ mem \in [0..(RollCap - 1) -> Cell]
RingOK ==
    /\ bootUsed \in 0..BootCap
    /\ writePos \in 0..(RollCap - 1) /\ readStart \in 0..(RollCap - 1)
    /\ used \in 0..RollCap
WriterOK ==
    /\ lock \in {"free", "writer", "reader"} /\ pc \in Pcs
    /\ len \in 0..MaxLen /\ gap \in 0..RollCap /\ sz \in 0..RollCap
CursorType ==
    [rd : {"none", "open", "loop"}, seg : {"boot", "roll", "done"},
     pos : Nat, remaining : Nat, overrun : BOOLEAN]
ReaderOK ==
    /\ cursor \in CursorType
    /\ cursor.seg # "done" => cursor.pos < CapOf(cursor.seg)
    /\ out \in Seq(Nat) /\ lapped \in BOOLEAN
TypeOK == CountersOK /\ MemOK /\ RingOK /\ WriterOK /\ ReaderOK

(* The ring's three fields agree whenever the lock is free.                *)
RingConsistent == lock = "free" => writePos = Wrap(readStart + used, RollCap)

(* A download not overtaken by eviction returns exactly the records that   *)
(* were in the segment when it got there, in order and to the last.        *)
ReaderFaithful ==
    cursor.rd # "none" /\ cursor.seg # "done" /\ ~lapped =>
        /\ IsPrefix(out, snap)
        /\ cursor.remaining = 0 => out = snap

(* The overrun flag is never a false alarm.                                *)
OverrunIsReal == cursor.overrun => lapped

(* A download the writer lapped is flagged: one that ends unflagged        *)
(* returned what the segment held (LogStore.h:79, LogStore.cpp:444).       *)
OverrunReported ==
    cursor.rd # "none" /\ cursor.seg # "done" /\ cursor.remaining = 0
        /\ ~cursor.overrun => out = snap

(* Every record in the store was logged, is read back in the order it was  *)
(* logged and is lost oldest first; see LogHistory.                        *)
Entries(s) == [i \in DOMAIN s |-> [id |-> s[i].id, size |-> Need(s[i].len)]]
History == INSTANCE LogHistory WITH
    MaxNeed <- Need(MaxLen),
    bootLog <- Entries(BootLive), rollLog <- Entries(RollLive), next <- seq
ImplementsHistory == History!HSpec

(* A critical section ends: evict() never loops, even on a torn ring.      *)
WriterFinishes == lock = "writer" ~> lock # "writer"

(* A download ends, whatever is logged or evicted under it.                *)
ReadEnds == cursor.rd # "none" ~> cursor.rd = "none"
=============================================================================
