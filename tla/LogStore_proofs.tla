--------------------------- MODULE LogStore_proofs ---------------------------
(***************************************************************************)
(* Proofs about LogStore, for every size of the segments and of the        *)
(* records.  Its types hold whatever restarts tear; what the ring, the     *)
(* readers and the overrun flag promise is proved for restarts that fall   *)
(* between two critical sections (TornCrash = FALSE), where it holds.      *)
(***************************************************************************)
EXTENDS LogStore, TLAPS, WellFoundedInduction, SequenceTheorems

(* What the writer's program counter says of its locals and of the room in *)
(* the ring: TypeOK alone is not inductive, since the two stores that add  *)
(* to `used` and to `writePos` rely on room made several stores earlier.   *)
RoomInv ==
    /\ pc \in {"releaseGap", "releaseNeed"} => sz <= used
    /\ pc \in {"filler", "gapUsed"} => used + gap <= RollCap
    /\ pc \in {"evictNeed", "releaseNeed", "write", "advance"}
         => writePos + Need(len) <= RollCap
    /\ pc \in {"write", "advance", "count"} => used + Need(len) <= RollCap

RangeInv == TypeOK /\ RoomInv

(* Writing a cell anywhere keeps a segment a function into cells.          *)
LEMMA PutType ==
    ASSUME NEW n \in Nat, NEW m \in [0..n -> Cell], NEW p, NEW c \in Cell
    PROVE  Put(m, p, c) \in [0..n -> Cell]
  BY SizesAssumption DEF Put, Cell, Junk

(* A record size read from the ring is a number, even read from junk.      *)
LEMMA SizesAtNat ==
    ASSUME RangeInv PROVE SizesAt(readStart) \subseteq Nat
  BY SizesAssumption
  DEF RangeInv, TypeOK, MemOK, RingOK, SizesAt, Cell, Need, Hdr

LEMMA RangeInvInit == Init => RangeInv
<1> SUFFICES ASSUME Init PROVE RangeInv
  OBVIOUS
<1> USE SizesAssumption, BoundsAssumption DEF Init
<1>1. CountersOK
  BY DEF CountersOK
<1>2. MemOK
  BY DEF MemOK, Cell, Junk
<1>3. RingOK /\ WriterOK /\ RoomInv
  BY DEF RingOK, WriterOK, RoomInv, Pcs, Hdr
<1>4. cursor = NoCursor /\ out = <<>> /\ lapped = FALSE
  OBVIOUS
<1>5. NoCursor \in CursorType /\ NoCursor.pos = 0 /\ NoCursor.seg = "boot"
  BY DEF NoCursor, CursorType
<1>6. <<>> \in Seq(Nat) /\ 0 < CapOf("boot")
  BY DEF CapOf, Hdr
<1>7. ReaderOK
  BY <1>4, <1>5, <1>6 DEF ReaderOK
<1> QED
  BY <1>1, <1>2, <1>3, <1>7 DEF RangeInv, TypeOK

(* The writer's stores keep the offsets in range and the room they need.   *)
LEMMA WriterKeepsRange ==
    ASSUME RangeInv, AppendStep PROVE RingOK' /\ WriterOK' /\ RoomInv'
<1> USE SizesAssumption DEF RangeInv, TypeOK, RingOK, WriterOK, RoomInv, Pcs,
        Hdr, Need, region
<1>1. CASE AppendStart
  BY <1>1 DEF AppendStart
<1>2. CASE EvictDone
  BY <1>2 DEF EvictDone, MustEvict, EvictTarget, AfterEvict
<1>3. CASE EvictSalvage
  BY <1>3 DEF EvictSalvage, MustEvict, EvictTarget, AfterEvict
<1>4. CASE EvictAdvance
  <2>1. PICK s \in SizesAt(readStart) :
            s # 0 /\ s <= used /\ sz' = s /\ readStart' = Wrap(readStart + s, RollCap)
    BY <1>4, SizesAtNat DEF EvictAdvance, Inconsistent
  <2>2. s \in Nat
    BY SizesAtNat
  <2>3. RingOK'
    BY <1>4, <2>1, <2>2 DEF EvictAdvance, MustEvict, Wrap
  <2>4. WriterOK' /\ RoomInv'
    BY <1>4, <2>1, <2>2 DEF EvictAdvance, MustEvict
  <2> QED
    BY <2>3, <2>4
<1>5. CASE EvictRelease
  BY <1>5 DEF EvictRelease
<1>6. CASE WriteFiller
  BY <1>6 DEF WriteFiller
<1>7. CASE GapUsed
  BY <1>7 DEF GapUsed
<1>8. CASE GapWrap
  BY <1>8 DEF GapWrap
<1>9. CASE WriteRecord
  BY <1>9 DEF WriteRecord
<1>10. CASE AdvanceWritePos
  BY <1>10 DEF AdvanceWritePos, Wrap
<1>11. CASE FinishAppend
  BY <1>11 DEF FinishAppend
<1> QED
  BY <1>1, <1>2, <1>3, <1>4, <1>5, <1>6, <1>7, <1>8, <1>9, <1>10, <1>11 DEF AppendStep

(* They write cells, and count; the reader's cursor does not move.         *)
LEMMA WriterKeepsRest ==
    ASSUME RangeInv, AppendStep PROVE CountersOK' /\ MemOK' /\ ReaderOK'
<1>1. MemOK'
  <2>1. CASE WriteFiller
    <3>1. Filler \in Cell
      BY SizesAssumption DEF Filler, Cell
    <3>2. Put(mem, writePos, Filler) \in [0..(RollCap - 1) -> Cell]
      BY <3>1, PutType, SizesAssumption DEF RangeInv, TypeOK, MemOK, Hdr
    <3> QED
      BY <2>1, <3>2 DEF WriteFiller, RangeInv, TypeOK, MemOK
  <2>2. CASE WriteRecord
    <3>1. Record(seq + 1, len) \in Cell
      BY SizesAssumption
      DEF Record, Cell, RangeInv, TypeOK, CountersOK, WriterOK
    <3>2. Put(mem, writePos, Record(seq + 1, len)) \in [0..(RollCap - 1) -> Cell]
      BY <3>1, PutType, SizesAssumption DEF RangeInv, TypeOK, MemOK, Hdr
    <3> QED
      BY <2>2, <3>2 DEF WriteRecord, RangeInv, TypeOK, MemOK
  <2>3. CASE UNCHANGED <<bootMem, mem>>
    BY <2>3 DEF RangeInv, TypeOK, MemOK
  <2> QED
    BY <2>1, <2>2, <2>3 DEF AppendStep, AppendStart, EvictDone, EvictSalvage,
       EvictAdvance, EvictRelease, GapUsed, GapWrap, AdvanceWritePos,
       FinishAppend, region
<1>2. CountersOK'
  <2>1. \A n \in Nat : (n + 1) % DropMod \in Nat
    BY BoundsAssumption
  <2>2. dropped' \in Nat
    BY <2>1 DEF RangeInv, TypeOK, CountersOK, AppendStep, AppendStart, EvictDone,
       EvictSalvage, EvictAdvance, EvictRelease, WriteFiller, GapUsed, GapWrap,
       WriteRecord, AdvanceWritePos, FinishAppend, region
  <2> QED
    BY <2>2 DEF RangeInv, TypeOK, CountersOK, AppendStep, AppendStart, EvictDone,
       EvictSalvage, EvictAdvance, EvictRelease, WriteFiller, GapUsed, GapWrap,
       WriteRecord, AdvanceWritePos, FinishAppend, region
<1>3. ReaderOK'
  <2>1. cursor' = cursor /\ out' = out /\ lapped' \in BOOLEAN
    BY DEF RangeInv, TypeOK, ReaderOK, AppendStep, AppendStart, EvictDone,
       EvictSalvage, EvictAdvance, EvictRelease, WriteFiller, GapUsed, GapWrap,
       WriteRecord, AdvanceWritePos, FinishAppend, reader
  <2> QED
    BY <2>1 DEF RangeInv, TypeOK, ReaderOK
<1> QED
  BY <1>1, <1>2, <1>3

(* The reader writes only the lock, its cursor and its history.            *)
LEMMA ReaderKeepsRange ==
    ASSUME RangeInv, OpenRead \/ NextEnter \/ ReadStep PROVE RangeInv'
<1> USE DEF RangeInv, TypeOK
<1>1. CountersOK' /\ MemOK' /\ RingOK' /\ WriterOK' /\ RoomInv'
  BY DEF OpenRead, NextEnter, ReadStep, NextSegment, CheckOverrun, SkipTail,
     StopAtCorrupt, TakeRecord, EndRead, region, locals, CountersOK, MemOK,
     RingOK, WriterOK, RoomInv, Need
<1>2. ReaderOK'
  <2> USE SizesAssumption DEF ReaderOK, CursorType
  <2>1. CASE OpenRead
    <3>1. cursor' = [rd |-> "open", seg |-> "boot", pos |-> 0,
                     remaining |-> bootUsed, overrun |-> FALSE]
      BY <2>1 DEF OpenRead, NoCursor
    <3>2. cursor' \in CursorType /\ cursor'.seg = "boot" /\ cursor'.pos = 0
      BY <3>1 DEF RingOK
    <3>3. 0 < CapOf("boot")
      BY DEF CapOf, Hdr
    <3> QED
      BY <2>1, <3>2, <3>3 DEF OpenRead
  <2>2. CASE NextEnter
    <3>1. cursor' = [cursor EXCEPT !.rd = "loop"]
      BY <2>2 DEF NextEnter
    <3> QED
      BY <2>2, <3>1 DEF NextEnter
  <2>3. CASE NextSegment
    <3>1. CASE cursor.seg = "boot"
      <4>1. cursor' = [cursor EXCEPT !.seg = "roll", !.pos = readStart,
                                     !.remaining = used]
        BY <2>3, <3>1 DEF NextSegment
      <4>2. readStart \in Nat /\ used \in Nat /\ readStart' = readStart
        BY <2>3 DEF NextSegment, region, RingOK
      <4>3. cursor' \in CursorType /\ cursor'.seg = "roll" /\ cursor'.pos = readStart
        BY <4>1, <4>2
      <4>4. readStart < CapOf("roll")
        BY DEF RingOK, CapOf
      <4>5. out' \in Seq(Nat) /\ lapped' = FALSE
        BY <2>3, <3>1 DEF NextSegment
      <4> QED
        BY <4>3, <4>4, <4>5
    <3>2. CASE cursor.seg # "boot"
      BY <2>3, <3>2 DEF NextSegment
    <3> QED
      BY <3>1, <3>2
  <2>4. CASE CheckOverrun
    BY <2>4 DEF CheckOverrun
  <2>5. CASE SkipTail
    <3>1. Monus(cursor.remaining, SegCap - cursor.pos) \in Nat
      BY <2>5 DEF SkipTail, Readable, Looping, Monus, SegCap, CapOf, Hdr
    <3>2. cursor' = [cursor EXCEPT !.pos = 0,
                      !.remaining = Monus(cursor.remaining, SegCap - cursor.pos)]
      BY <2>5 DEF SkipTail
    <3>3. cursor' \in CursorType /\ cursor'.seg = cursor.seg /\ cursor'.pos = 0
      BY <3>1, <3>2
    <3> QED
      BY <2>5, <3>3 DEF SkipTail, CapOf, Hdr
  <2>6. CASE StopAtCorrupt
    BY <2>6 DEF StopAtCorrupt
  <2>7. CASE TakeRecord
    <3>1. PICK c \in ParsesAt(SegMem, cursor.pos) :
              /\ c.k = "rec"
              /\ cursor' = [cursor EXCEPT !.rd = "open",
                              !.pos = Wrap(cursor.pos + Need(c.len), SegCap),
                              !.remaining = Monus(cursor.remaining, Need(c.len))]
              /\ out' = Append(out, c.id)
      BY <2>7 DEF TakeRecord
    <3>2. cursor.pos <= SegCap - Hdr /\ cursor.seg # "done"
      BY <2>7 DEF TakeRecord, InTail, Readable, Looping, SegCap, CapOf, Hdr
    <3>3. SegMem[cursor.pos] \in Cell
      BY <3>2 DEF SegMem, SegCap, CapOf, MemOK, Hdr
    <3>4. c.id \in Nat /\ c.len \in 0..MaxLen
      BY <3>1, <3>3 DEF ParsesAt, Cell, Record, Filler, Corrupt
    <3>5. /\ Wrap(cursor.pos + Need(c.len), SegCap) \in Nat
          /\ Wrap(cursor.pos + Need(c.len), SegCap) < SegCap
          /\ Monus(cursor.remaining, Need(c.len)) \in Nat
      <4>1. SegCap \in Nat /\ Hdr + MaxLen <= SegCap
        BY DEF SegCap, CapOf
      <4>2. cursor.pos \in Nat /\ cursor.remaining \in Nat
        OBVIOUS
      <4>3. Need(c.len) \in Hdr..SegCap
        BY <3>4, <4>1 DEF Need, Hdr
      <4>4. cursor.pos + Need(c.len) < 2 * SegCap
        BY <3>2, <4>1, <4>2, <4>3 DEF Hdr
      <4> HIDE DEF ReaderOK, CursorType, SegCap
      <4> QED
        BY <4>1, <4>2, <4>3, <4>4 DEF Wrap, Hdr, Monus
    <3>6. /\ cursor' \in CursorType /\ cursor'.seg = cursor.seg
          /\ cursor'.pos = Wrap(cursor.pos + Need(c.len), SegCap)
      BY <3>1, <3>5
    <3>7. out' \in Seq(Nat)
      BY <3>1, <3>4
    <3> QED
      BY <2>7, <3>5, <3>6, <3>7 DEF TakeRecord, SegCap
  <2>8. CASE EndRead
    <3>1. out' \in Seq(Nat) /\ lapped' = FALSE
      BY <2>8 DEF EndRead
    <3>2. cursor' \in CursorType /\ cursor'.seg = "boot" /\ cursor'.pos = 0
      BY <2>8 DEF EndRead, NoCursor
    <3>3. 0 < CapOf("boot")
      BY DEF CapOf, Hdr
    <3> QED
      BY <3>1, <3>2, <3>3
  <2> QED
    BY <2>1, <2>2, <2>3, <2>4, <2>5, <2>6, <2>7, <2>8 DEF ReadStep
<1> QED
  BY <1>1, <1>2

(* begin() makes any region fit, and sink() fills the boot segment only as *)
(* far as it goes.                                                         *)
LEMMA BeginKeepsRange ==
    ASSUME RangeInv, Begin PROVE RangeInv'
<1> USE SizesAssumption DEF RangeInv, TypeOK
<1>1. CountersOK'
  BY DEF Begin, CountersOK
<1>2. MemOK'
  <2>1. Record(seq', MarkerLen) \in Cell
    BY DEF Begin, CountersOK, Record, Cell
  <2>2. Put(bootMem, 0, Record(seq', MarkerLen)) \in [0..(BootCap - 1) -> Cell]
    BY <2>1, PutType DEF MemOK, Hdr
  <2> QED
    BY <2>2 DEF Begin, MemOK
<1>3. RingOK' /\ WriterOK' /\ RoomInv'
  BY DEF Begin, RingOK, WriterOK, RoomInv, Pcs, Need, Hdr
<1>4. ReaderOK'
  BY DEF Begin, reader, ReaderOK
<1> QED
  BY <1>1, <1>2, <1>3, <1>4

LEMMA SinkKeepsRange ==
    ASSUME RangeInv, NEW l \in 0..MaxLen,
           SinkBoot(l) \/ \E early \in BOOLEAN : SinkRoll(l, early)
    PROVE  RangeInv'
<1> USE SizesAssumption DEF RangeInv, TypeOK
<1>1. CASE SinkBoot(l)
  <2>1. Record(seq + 1, l) \in Cell
    BY DEF CountersOK, Record, Cell
  <2>2. Put(bootMem, bootUsed, Record(seq + 1, l)) \in [0..(BootCap - 1) -> Cell]
    BY <2>1, PutType DEF MemOK, RingOK, Hdr
  <2>3. MemOK'
    BY <1>1, <2>2 DEF SinkBoot, MemOK
  <2>4. CountersOK' /\ RingOK' /\ WriterOK' /\ RoomInv'
    BY <1>1 DEF SinkBoot, locals, CountersOK, RingOK, WriterOK, RoomInv, Need, Hdr
  <2>5. ReaderOK'
    BY <1>1 DEF SinkBoot, reader, ReaderOK
  <2> QED
    BY <2>3, <2>4, <2>5
<1>2. CASE \E early \in BOOLEAN : SinkRoll(l, early)
  <2>1. CountersOK' /\ MemOK' /\ RingOK' /\ WriterOK' /\ RoomInv'
    BY <1>2 DEF SinkRoll, region, CountersOK, MemOK, RingOK, WriterOK, RoomInv, Pcs
  <2>2. ReaderOK'
    BY <1>2 DEF SinkRoll, reader, ReaderOK
  <2> QED
    BY <2>1, <2>2
<1> QED
  BY <1>1, <1>2

(* A restart, even one inside a critical section, leaves a region begin()  *)
(* can take as it is.                                                      *)
LEMMA RestartKeepsRange ==
    ASSUME RangeInv, Restart \/ PowerCut PROVE RangeInv'
<1> USE SizesAssumption DEF RangeInv, TypeOK
<1>1. ReaderOK'
  <2>1. out' = <<>> /\ lapped' = FALSE /\ cursor' = NoCursor
    BY Zenon DEF Restart, PowerCut
  <2>2. NoCursor \in CursorType /\ NoCursor.seg = "boot" /\ NoCursor.pos = 0
    BY DEF NoCursor, CursorType
  <2>3. 0 < CapOf("boot")
    BY DEF CapOf, Hdr
  <2>4. <<>> \in Seq(Nat)
    OBVIOUS
  <2> QED
    BY <2>1, <2>2, <2>3, <2>4 DEF ReaderOK
<1>2. CASE Restart
  <2>1. CountersOK' /\ MemOK' /\ RingOK'
    BY <1>2 DEF Restart, region, CountersOK, MemOK, RingOK
  <2>2. WriterOK' /\ RoomInv'
    BY <1>2 DEF Restart, WriterOK, RoomInv, Pcs
  <2> QED
    BY <1>1, <2>1, <2>2
<1>3. CASE PowerCut
  <2>1. CountersOK'
    BY <1>3 DEF PowerCut, CountersOK
  <2>2. MemOK'
    BY <1>3 DEF PowerCut, MemOK, Cell, Junk
  <2>3. RingOK' /\ WriterOK' /\ RoomInv'
    BY <1>3 DEF PowerCut, RingOK, WriterOK, RoomInv, Pcs, Hdr
  <2> QED
    BY <1>1, <2>1, <2>2, <2>3
<1> QED
  BY <1>2, <1>3

LEMMA RangeInvStep == RangeInv /\ [Next]_vars => RangeInv'
<1> SUFFICES ASSUME RangeInv, [Next]_vars PROVE RangeInv'
  OBVIOUS
<1>1. CASE Begin
  BY <1>1, BeginKeepsRange
<1>2. CASE \E l \in 0..MaxLen : SinkBoot(l) \/ \E early \in BOOLEAN : SinkRoll(l, early)
  BY <1>2, SinkKeepsRange
<1>3. CASE AppendStep
  BY <1>3, WriterKeepsRange, WriterKeepsRest DEF RangeInv, TypeOK
<1>4. CASE OpenRead \/ NextEnter \/ ReadStep
  BY <1>4, ReaderKeepsRange
<1>5. CASE Restart \/ PowerCut
  BY <1>5, RestartKeepsRange
<1>6. CASE UNCHANGED vars
  BY <1>6 DEF vars, region, locals, reader, RangeInv, TypeOK, CountersOK,
     MemOK, RingOK, WriterOK, ReaderOK, RoomInv
<1> QED
  BY <1>1, <1>2, <1>3, <1>4, <1>5, <1>6 DEF Next

(* Every offset the store keeps stays inside its segment, through any      *)
(* sequence of appends, evictions, salvages, wraps, downloads and restarts *)
(* in the middle of them: what begin() checks on the next boot always      *)
(* holds, and no store of a critical section lands outside the segment.    *)
THEOREM LogStoreTypeOK == Spec => []TypeOK
<1>1. RangeInv => TypeOK
  BY DEF RangeInv
<1> QED
  BY RangeInvInit, RangeInvStep, <1>1, PTL DEF Spec

-----------------------------------------------------------------------------
(* Induction over the naturals, from the least element that a set misses.  *)
LEMMA Climb ==
    ASSUME NEW S, 0 \in S, \A n \in Nat : n \in S => n + 1 \in S
    PROVE  Nat \subseteq S
<1>. SUFFICES ASSUME Nat \ S # {} PROVE FALSE
  OBVIOUS
<1>1. PICK R : R = OpToRel(<, Nat)
  BY Zenon
<1>2. IsWellFoundedOn(R, Nat)
  BY <1>1, NatLessThanWellFounded, Zenon
<1>3. PICK m \in Nat \ S : \A k \in Nat \ S : <<k, m>> \notin R
  BY <1>2, WFMin
<1>4. \A k \in Nat : k < m => k \in S
  BY <1>1, <1>3 DEF OpToRel
<1>5. m # 0
  BY <1>3
<1>6. m - 1 \in Nat /\ (m - 1) + 1 = m /\ m - 1 < m
  BY <1>3, <1>5
<1>7. m - 1 \in S
  BY <1>4, <1>6
<1>. QED BY <1>3, <1>6, <1>7

-----------------------------------------------------------------------------
(* A walk, unfolded.  A segment is sized so that no step leaves it twice.  *)
Segment(m, cap) ==
    cap \in Nat /\ Hdr + MaxLen <= cap /\ m \in [0..(cap - 1) -> Cell]
After(m, cap, p) == Wrap(p + Span(m, cap, p), cap)

LEMMA SpanIs ==
    ASSUME NEW m, NEW cap, Segment(m, cap), NEW p \in 0..(cap - 1)
    PROVE  /\ Span(m, cap, p) \in Nat /\ Span(m, cap, p) >= 1
           /\ Span(m, cap, p) <= cap
           /\ After(m, cap, p) \in 0..(cap - 1)
<1>1. m[p] \in Cell
  BY DEF Segment
<1>2. m[p].len \in Nat /\ m[p].len <= MaxLen /\ MaxLen \in Nat
  BY <1>1, SizesAssumption DEF Cell
<1>3. cap \in Nat /\ 2 + MaxLen <= cap
  BY DEF Segment, Hdr
<1>4. PICK z : z = Span(m, cap, p)
  OBVIOUS
<1>5. z = cap - p \/ z = 2 + m[p].len
  BY <1>4 DEF Span, Need, Hdr
<1>6. z \in Nat /\ z >= 1 /\ z <= cap
  BY <1>2, <1>3, <1>5
<1>7. Wrap(p + z, cap) \in 0..(cap - 1)
  BY <1>3, <1>6 DEF Wrap
<1>. QED BY <1>4, <1>6, <1>7 DEF After

(* One turn of the walk, by a function that walks shorter ways.            *)
Turn(m, cap, w, x) ==
    IF x[2] = 0 THEN <<>>
    ELSE Met(m, cap, x[1])
         \o (IF Span(m, cap, x[1]) >= x[2] THEN <<>>
             ELSE w[<<After(m, cap, x[1]), x[2] - Span(m, cap, x[1])>>])
Ways(cap, n) == (0..(cap - 1)) \X (0..n)
Walks(m, cap, w, n) == w = [x \in Ways(cap, n) |-> Turn(m, cap, w, x)]

LEMMA WalksExist ==
    ASSUME NEW m, NEW cap, Segment(m, cap)
    PROVE  \A n \in Nat : \E w : Walks(m, cap, w, n)
<1>1. PICK S : S = {n \in Nat : \E w : Walks(m, cap, w, n)}
  OBVIOUS
<1>2. 0 \in S
  <2>1. PICK w : w = [x \in Ways(cap, 0) |-> <<>>]
    OBVIOUS
  <2>2. \A x \in Ways(cap, 0) : Turn(m, cap, w, x) = <<>>
    BY DEF Ways, Turn
  <2>3. Walks(m, cap, w, 0)
    BY <2>1, <2>2 DEF Walks
  <2>. QED BY <1>1, <2>3
<1>3. ASSUME NEW n \in Nat, n \in S PROVE n + 1 \in S
  <2>1. PICK w : Walks(m, cap, w, n)
    BY <1>1, <1>3
  <2>2. PICK v : v = [x \in Ways(cap, n + 1) |-> IF x[2] = n + 1 THEN Turn(m, cap, w, x) ELSE w[x]]
    OBVIOUS
  <2>3. \A x \in Ways(cap, n) : x \in Ways(cap, n + 1) /\ x[2] # n + 1 /\ v[x] = w[x]
    <3>1. \A x \in Ways(cap, n) : x \in Ways(cap, n + 1) /\ x[2] # n + 1
      BY <1>3 DEF Ways
    <3>. QED BY <2>2, <3>1
  <2>4. ASSUME NEW x \in Ways(cap, n + 1) PROVE Turn(m, cap, v, x) = Turn(m, cap, w, x)
    <3>1. /\ x = <<x[1], x[2]>> /\ x[1] \in 0..(cap - 1)
          /\ x[2] \in 0..(n + 1)
      BY <2>4 DEF Ways
    <3>2. CASE x[2] # 0 /\ ~(Span(m, cap, x[1]) >= x[2])
      <4>1. PICK y : y = <<After(m, cap, x[1]), x[2] - Span(m, cap, x[1])>>
        OBVIOUS
      <4>2. x[2] - Span(m, cap, x[1]) \in 0..n
        BY <1>3, <3>1, <3>2, SpanIs
      <4>3. y \in Ways(cap, n)
        BY <3>1, <4>1, <4>2, SpanIs DEF Ways
      <4>4. v[y] = w[y]
        BY <2>3, <4>3
      <4>. QED BY <4>1, <4>4, Zenon DEF Turn
    <3>3. CASE x[2] = 0 \/ Span(m, cap, x[1]) >= x[2]
      BY <3>3, Zenon DEF Turn
    <3>. QED BY <3>2, <3>3
  <2>5. ASSUME NEW x \in Ways(cap, n + 1) PROVE v[x] = Turn(m, cap, v, x)
    <3>1. CASE x[2] = n + 1
      BY <2>2, <2>4, <3>1
    <3>2. CASE x[2] # n + 1
      <4>1. x \in Ways(cap, n)
        BY <1>3, <3>2 DEF Ways
      <4>2. w[x] = Turn(m, cap, w, x)
        BY <2>1, <4>1 DEF Walks
      <4>. QED BY <2>2, <2>4, <3>2, <4>2
    <3>. QED BY <3>1, <3>2
  <2>6. Walks(m, cap, v, n + 1)
    BY <2>2, <2>5 DEF Walks
  <2>. QED BY <1>1, <1>3, <2>6
<1>. QED BY <1>1, <1>2, <1>3, Climb

LEMMA WalkIs ==
    ASSUME NEW m, NEW cap, Segment(m, cap)
    PROVE  \E w : /\ Walks(m, cap, w, cap)
                  /\ \A p, n : Walk(m, cap, p, n) = w[<<p, n>>]
<1>1. PICK w : w = CHOOSE v : v = [x \in (0..(cap - 1)) \X (0..cap) |-> Turn(m, cap, v, x)]
  OBVIOUS
<1>2. cap \in Nat
  BY DEF Segment
<1>3. \E v : v = [x \in (0..(cap - 1)) \X (0..cap) |-> Turn(m, cap, v, x)]
  BY <1>2, WalksExist, Zenon DEF Walks, Ways
<1>4. w = [x \in (0..(cap - 1)) \X (0..cap) |-> Turn(m, cap, w, x)]
  BY <1>1, <1>3, Zenon
<1>5. Walks(m, cap, w, cap)
  BY <1>4, Zenon DEF Walks, Ways
<1>6. ASSUME NEW p, NEW n PROVE Walk(m, cap, p, n) = w[<<p, n>>]
  BY <1>1 DEF Walk, Turn, After
<1>. QED BY <1>5, <1>6

LEMMA WalkUnfolds ==
    ASSUME NEW m, NEW cap, Segment(m, cap), NEW p \in 0..(cap - 1), NEW n \in 0..cap
    PROVE  Walk(m, cap, p, n) =
             IF n = 0 THEN <<>>
             ELSE Met(m, cap, p)
                  \o (IF Span(m, cap, p) >= n THEN <<>>
                      ELSE Walk(m, cap, After(m, cap, p), n - Span(m, cap, p)))
<1>1. PICK w : /\ Walks(m, cap, w, cap)
               /\ \A q, k : Walk(m, cap, q, k) = w[<<q, k>>]
  BY WalkIs
<1>2. <<p, n>> \in Ways(cap, cap)
  BY DEF Ways
<1>3. w[<<p, n>>] = Turn(m, cap, w, <<p, n>>)
  BY <1>1, <1>2 DEF Walks
<1>. QED BY <1>1, <1>3 DEF Turn

-----------------------------------------------------------------------------
(* The records and fillers of a segment that holds U words from s on: a    *)
(* set H of places.  The first is s, each is followed by the next unless   *)
(* it is the last, none overlaps another or passes the end.                *)
Off(s, p, cap) == IF p >= s THEN p - s ELSE p + cap - s
Filled(m, cap, p) == p > cap - Hdr \/ m[p].k = "wrap"
Linked(m, cap, s, U, H, p) ==
    /\ p > cap - Hdr \/ m[p].k # "junk"
    /\ p + Span(m, cap, p) <= cap
    /\ Filled(m, cap, p) => cap - p < Need(MaxLen)
    /\ Off(s, p, cap) + Span(m, cap, p) <= U
    /\ Off(s, p, cap) + Span(m, cap, p) < U => After(m, cap, p) \in H
Chain(m, cap, s, U, H) ==
    /\ H \subseteq 0..(cap - 1)
    /\ U > 0 => s \in H
    /\ \A p \in H : Linked(m, cap, s, U, H, p)
    /\ \A p, q \in H : Off(s, p, cap) < Off(s, q, cap)
          => Off(s, p, cap) + Span(m, cap, p) <= Off(s, q, cap)

LEMMA OffIs ==
    ASSUME NEW cap \in Nat, NEW s \in 0..(cap - 1), NEW p \in 0..(cap - 1)
    PROVE  /\ Off(s, p, cap) \in 0..(cap - 1)
           /\ p = Wrap(s + Off(s, p, cap), cap)
           /\ Off(s, s, cap) = 0 /\ Off(0, p, cap) = p
           /\ Off(s, p, cap) = 0 => p = s
BY DEF Off, Wrap

LEMMA OffOf ==
    ASSUME NEW cap \in Nat, NEW s \in 0..(cap - 1), NEW d \in 0..(cap - 1)
    PROVE  Off(s, Wrap(s + d, cap), cap) = d /\ Wrap(s + d, cap) \in 0..(cap - 1)
BY DEF Off, Wrap

(* The next place is as far from the first as the places before it take.   *)
LEMMA AfterOff ==
    ASSUME NEW cap \in Nat, NEW s \in 0..(cap - 1), NEW p \in 0..(cap - 1),
           NEW z \in Nat, Off(s, p, cap) + z <= cap
    PROVE  /\ Wrap(p + z, cap) = Wrap(s + (Off(s, p, cap) + z), cap)
           /\ Off(s, p, cap) + z < cap => Off(s, Wrap(p + z, cap), cap) = Off(s, p, cap) + z
BY DEF Off, Wrap

LEMMA EmptyChain ==
    ASSUME NEW m, NEW cap, NEW s PROVE Chain(m, cap, s, 0, {})
BY DEF Chain

(* Another memory with the same places.                                    *)
LEMMA ChainFrame ==
    ASSUME NEW m, NEW cap, NEW s, NEW U, NEW H, Chain(m, cap, s, U, H),
           NEW w, \A p \in H : w[p] = m[p]
    PROVE  Chain(w, cap, s, U, H)
<1>1. \A p \in H : Span(w, cap, p) = Span(m, cap, p)
  BY DEF Span
<1>2. \A p \in H : Linked(w, cap, s, U, H, p)
  BY <1>1 DEF Chain, Linked, After, Filled
<1>. QED BY <1>1, <1>2 DEF Chain

(* The first place is given up.                                            *)
Later(s, cap, H, z) == {p \in H : Off(s, p, cap) >= z}
LEMMA ChainEvict ==
    ASSUME NEW m, NEW cap, Segment(m, cap), NEW s \in 0..(cap - 1), NEW U \in 1..cap,
           NEW H, Chain(m, cap, s, U, H), NEW z, z = Span(m, cap, s)
    PROVE  /\ z \in 1..U /\ s \in H /\ (s > cap - Hdr \/ m[s].k # "junk")
           /\ Chain(m, cap, Wrap(s + z, cap), U - z, Later(s, cap, H, z))
           /\ \A p \in H : p = s \/ p \in Later(s, cap, H, z)
           /\ \A p \in Later(s, cap, H, z) : Off(Wrap(s + z, cap), p, cap) = Off(s, p, cap) - z
<1>1. s \in H /\ Linked(m, cap, s, U, H, s) /\ cap \in Nat
  BY DEF Chain, Segment
<1>2. z \in Nat /\ z >= 1 /\ Off(s, s, cap) = 0
  BY <1>1, SpanIs, OffIs
<1>3. z <= U /\ (z < U => Wrap(s + z, cap) \in H)
  BY <1>1, <1>2 DEF Linked, After
<1>4. PICK t : t = Wrap(s + z, cap)
  OBVIOUS
<1>5. t \in 0..(cap - 1)
  BY <1>1, <1>2, <1>3, <1>4 DEF Wrap
<1>6. \A p \in H : p \in 0..(cap - 1) /\ Off(s, p, cap) \in 0..(cap - 1)
  BY <1>1, OffIs DEF Chain
<1>7. \A p \in H : p = s \/ Off(s, p, cap) >= z
  <2>. TAKE p \in H
  <2>1. p = s \/ Off(s, p, cap) > 0
    BY <1>1, <1>6, OffIs
  <2>2. Off(s, s, cap) < Off(s, p, cap) => Off(s, s, cap) + z <= Off(s, p, cap)
    BY <1>1 DEF Chain
  <2>. QED BY <1>2, <1>6, <2>1, <2>2
<1>8. \A p \in 0..(cap - 1) : Off(s, p, cap) >= z => Off(t, p, cap) = Off(s, p, cap) - z
  BY <1>1, <1>2, <1>3, <1>4, <1>5 DEF Off, Wrap
<1>9. PICK K : K = Later(s, cap, H, z)
  OBVIOUS
<1>10. \A p \in K : /\ p \in H /\ Off(s, p, cap) >= z
                    /\ Off(t, p, cap) = Off(s, p, cap) - z
  BY <1>6, <1>8, <1>9 DEF Later
<1>11. U - z > 0 => t \in K
  <2>1. U - z > 0 => Off(s, t, cap) = z /\ t \in H
    BY <1>1, <1>2, <1>3, <1>4, OffOf
  <2>. QED BY <1>2, <1>9, <2>1 DEF Later
<1>12. ASSUME NEW p \in K PROVE Linked(m, cap, t, U - z, K, p)
  <2>1. Linked(m, cap, s, U, H, p) /\ p \in 0..(cap - 1)
    BY <1>6, <1>10 DEF Chain
  <2>2. Span(m, cap, p) \in Nat /\ Span(m, cap, p) >= 1
    BY <2>1, SpanIs
  <2>3. Off(s, p, cap) + Span(m, cap, p) <= U
    BY <2>1 DEF Linked
  <2>4. PICK d \in Nat, l \in Nat : d = Off(s, p, cap) /\ l = Span(m, cap, p)
    BY <1>6, <1>10, <2>2
  <2>5. Off(t, p, cap) + l <= U - z
    BY <1>2, <1>10, <2>3, <2>4
  <2>6. ASSUME Off(t, p, cap) + l < U - z PROVE After(m, cap, p) \in K
    <3>1. d + l < U /\ d + l < cap
      BY <1>1, <1>2, <1>10, <2>4, <2>6
    <3>2. After(m, cap, p) \in H
      BY <2>1, <2>4, <3>1 DEF Linked
    <3>3. Off(s, After(m, cap, p), cap) = d + l
      BY <1>1, <2>1, <2>4, <3>1, AfterOff DEF After
    <3>4. d + l >= z
      BY <1>2, <1>10, <2>4
    <3>. QED BY <1>9, <3>2, <3>3, <3>4 DEF Later
  <2>. QED BY <2>1, <2>4, <2>5, <2>6 DEF Linked
<1>13. ASSUME NEW p \in K, NEW q \in K, Off(t, p, cap) < Off(t, q, cap)
       PROVE  Off(t, p, cap) + Span(m, cap, p) <= Off(t, q, cap)
  <2>1. PICK d \in Nat, e \in Nat : d = Off(s, p, cap) /\ e = Off(s, q, cap)
    BY <1>6, <1>10
  <2>2. Off(t, p, cap) = d - z /\ Off(t, q, cap) = e - z
    BY <1>10, <2>1
  <2>3. d < e
    BY <1>2, <1>13, <2>1, <2>2
  <2>4. d + Span(m, cap, p) <= e
    BY <1>10, <2>1, <2>3 DEF Chain
  <2>5. Span(m, cap, p) \in Nat
    BY <1>6, <1>10, SpanIs
  <2>. QED BY <1>2, <2>1, <2>2, <2>4, <2>5
<1>14. K \subseteq 0..(cap - 1)
  BY <1>6, <1>10
<1>15. Chain(m, cap, t, U - z, K)
  BY <1>11, <1>12, <1>13, <1>14 DEF Chain
<1>16. \A p \in H : p = s \/ p \in K
  BY <1>7, <1>9 DEF Later
<1>17. z \in 1..U /\ (s > cap - Hdr \/ m[s].k # "junk")
  BY <1>1, <1>2, <1>3 DEF Linked
<1>18. \A p \in K : Off(t, p, cap) = Off(s, p, cap) - z
  BY <1>10
<1>. QED BY <1>1, <1>4, <1>9, <1>15, <1>16, <1>17, <1>18

(* A place is taken at the end.                                            *)
LEMMA ChainGrow ==
    ASSUME NEW m, NEW cap, Segment(m, cap), NEW s \in 0..(cap - 1), NEW U \in 0..cap, U < cap,
           NEW H, Chain(m, cap, s, U, H), NEW e, e = Wrap(s + U, cap),
           e > cap - Hdr \/ m[e].k # "junk", e + Span(m, cap, e) <= cap,
           U + Span(m, cap, e) <= cap, Filled(m, cap, e) => cap - e < Need(MaxLen)
    PROVE  /\ Chain(m, cap, s, U + Span(m, cap, e), H \cup {e})
           /\ e \in 0..(cap - 1) /\ Off(s, e, cap) = U /\ e \notin H
<1>1. cap \in Nat /\ e \in 0..(cap - 1) /\ Off(s, e, cap) = U
  BY OffOf DEF Segment
<1>2. PICK z \in Nat : z = Span(m, cap, e) /\ z >= 1
  BY <1>1, SpanIs
<1>3. \A p \in H : /\ p \in 0..(cap - 1) /\ Off(s, p, cap) \in Nat
                   /\ Span(m, cap, p) \in Nat /\ Span(m, cap, p) >= 1
                   /\ Linked(m, cap, s, U, H, p)
  BY <1>1, OffIs, SpanIs DEF Chain
<1>4. \A p \in H : Off(s, p, cap) + Span(m, cap, p) <= U
  BY <1>3 DEF Linked
<1>5. e \notin H
  BY <1>1, <1>3, <1>4
<1>6. PICK K : K = H \cup {e}
  OBVIOUS
<1>7. s \in K
  <2>1. CASE U = 0
    <3>1. e = s
      BY <1>1, <2>1, OffIs
    <3>. QED BY <1>6, <3>1
  <2>2. CASE U > 0
    BY <1>6, <2>2 DEF Chain
  <2>. QED BY <2>1, <2>2
<1>8. ASSUME NEW p \in H PROVE Linked(m, cap, s, U + z, K, p)
  <2>1. PICK d \in Nat, l \in Nat : d = Off(s, p, cap) /\ l = Span(m, cap, p)
    BY <1>3
  <2>2. d + l <= U
    BY <1>4, <2>1
  <2>3. d + l < U => After(m, cap, p) \in K
    BY <1>3, <1>6, <2>1 DEF Linked
  <2>4. d + l = U => After(m, cap, p) = e
    BY <1>1, <1>3, <2>1, AfterOff DEF After
  <2>5. After(m, cap, p) \in K
    BY <1>6, <2>2, <2>3, <2>4
  <2>6. d + l <= U + z
    BY <2>2
  <2>. QED BY <1>3, <2>1, <2>5, <2>6 DEF Linked
<1>9. Linked(m, cap, s, U + z, K, e)
  BY <1>1, <1>2 DEF Linked
<1>10. ASSUME NEW p \in K, NEW q \in K, Off(s, p, cap) < Off(s, q, cap)
       PROVE  Off(s, p, cap) + Span(m, cap, p) <= Off(s, q, cap)
  <2>1. CASE p \in H /\ q \in H
    BY <1>10, <2>1 DEF Chain
  <2>2. CASE p \in H /\ q = e
    BY <1>1, <1>4, <2>2
  <2>3. CASE p = e
    <3>1. q \in H
      BY <1>1, <1>6, <1>10, <2>3
    <3>. QED BY <1>1, <1>3, <1>4, <1>10, <2>3, <3>1
  <2>. QED BY <1>6, <2>1, <2>2, <2>3
<1>11. K \subseteq 0..(cap - 1)
  BY <1>1, <1>3, <1>6
<1>12. Chain(m, cap, s, U + z, K)
  BY <1>6, <1>7, <1>8, <1>9, <1>10, <1>11 DEF Chain
<1>. QED BY <1>1, <1>2, <1>5, <1>6, <1>12

-----------------------------------------------------------------------------
(* Who holds the lock; what a boot and a closed download start from.       *)
ScheduleInv ==
    /\ lock = "writer" <=> pc # "idle"
    /\ lock = "reader" <=> cursor.rd = "loop"
    /\ power # "up" => cursor.rd = "none"
    /\ power = "off" => pc = "idle"
    /\ ~magic => /\ power = "off" /\ seq = 0 /\ bootUsed = 0
                 /\ readStart = 0 /\ writePos = 0 /\ used = 0
    /\ cursor.rd = "none" => cursor = NoCursor /\ ~lapped
    /\ cursor.seg = "boot" => ~lapped

LEMMA NoCursorIs ==
    /\ NoCursor.rd = "none" /\ NoCursor.seg = "boot" /\ NoCursor.remaining = 0
    /\ NoCursor.overrun = FALSE
BY DEF NoCursor

LEMMA ScheduleInvInit == Init => ScheduleInv
BY NoCursorIs DEF Init, ScheduleInv

LEMMA WriterOnSchedule ==
    ASSUME RangeInv, ScheduleInv, AppendStep PROVE ScheduleInv'
<1>. USE DEF ScheduleInv, region, locals, reader
<1>1. cursor' = cursor /\ pc # "idle" /\ magic' = magic /\ magic
  BY DEF RangeInv, TypeOK, CountersOK, AppendStep, AppendStart, EvictDone, EvictSalvage,
         EvictAdvance, EvictRelease, WriteFiller, GapUsed, GapWrap, WriteRecord,
         AdvanceWritePos, FinishAppend, MustEvict
<1>2. \/ power' = power /\ lock' = lock /\ pc' # "idle"
      \/ power' = "up" /\ lock' = "free" /\ pc' = "idle"
  BY DEF AppendStep, AppendStart, EvictDone, EvictSalvage, EvictAdvance, EvictRelease,
         WriteFiller, GapUsed, GapWrap, WriteRecord, AdvanceWritePos, FinishAppend,
         MustEvict, AfterEvict
<1>3. lapped' => (lapped \/ (cursor.rd # "none" /\ cursor.seg = "roll"))
  BY DEF AppendStep, AppendStart, EvictDone, EvictSalvage, EvictAdvance, EvictRelease,
         WriteFiller, GapUsed, GapWrap, WriteRecord, AdvanceWritePos, FinishAppend
<1>. QED BY <1>1, <1>2, <1>3

LEMMA ReaderOnSchedule ==
    ASSUME RangeInv, ScheduleInv, OpenRead \/ NextEnter \/ ReadStep PROVE ScheduleInv'
<1>. USE DEF ScheduleInv, region, locals, reader
<1>0. cursor \in CursorType
  BY DEF RangeInv, TypeOK, ReaderOK
<1>1. CASE OpenRead
  <2>1. cursor'.rd = "open" /\ cursor'.seg = "boot"
    BY <1>1 DEF OpenRead, NoCursor
  <2>. QED BY <1>1, <2>1 DEF OpenRead
<1>2. CASE NextEnter
  <2>1. cursor'.rd = "loop" /\ cursor'.seg = cursor.seg
    BY <1>0, <1>2 DEF NextEnter, CursorType
  <2>. QED BY <1>2, <2>1 DEF NextEnter
<1>3. CASE NextSegment
  <2>1. cursor'.rd = "loop" /\ cursor'.seg # "boot"
    BY <1>0, <1>3 DEF NextSegment, Looping, CursorType
  <2>. QED BY <1>3, <2>1 DEF NextSegment, Looping
<1>4. CASE CheckOverrun
  <2>1. cursor'.rd = "loop" /\ cursor'.seg = cursor.seg
    BY <1>0, <1>4 DEF CheckOverrun, Looping, CursorType
  <2>. QED BY <1>4, <2>1 DEF CheckOverrun, Looping
<1>5. CASE SkipTail
  <2>1. cursor'.rd = "loop" /\ cursor'.seg = cursor.seg
    BY <1>0, <1>5 DEF SkipTail, Readable, Looping, CursorType
  <2>. QED BY <1>5, <2>1 DEF SkipTail, Readable, Looping
<1>6. CASE StopAtCorrupt
  <2>1. cursor'.rd = "loop" /\ cursor'.seg = cursor.seg
    BY <1>0, <1>6 DEF StopAtCorrupt, Readable, Looping, CursorType
  <2>. QED BY <1>6, <2>1 DEF StopAtCorrupt, Readable, Looping
<1>7. CASE TakeRecord
  <2>1. cursor.rd = "loop" /\ cursor'.rd = "open" /\ cursor'.seg = cursor.seg
    BY <1>0, <1>7 DEF TakeRecord, Readable, Looping, CursorType
  <2>. QED BY <1>7, <2>1 DEF TakeRecord
<1>8. CASE EndRead
  BY <1>8, NoCursorIs DEF EndRead
<1>. QED BY <1>1, <1>2, <1>3, <1>4, <1>5, <1>6, <1>7, <1>8 DEF ReadStep

LEMMA ScheduleInvStep == RangeInv /\ ScheduleInv /\ [Next]_vars => ScheduleInv'
<1>. SUFFICES ASSUME RangeInv, ScheduleInv, [Next]_vars PROVE ScheduleInv'
  OBVIOUS
<1>. USE DEF ScheduleInv, region, locals, reader
<1>1. CASE Begin
  BY <1>1 DEF Begin
<1>2. CASE \E l \in 0..MaxLen : SinkBoot(l) \/ \E early \in BOOLEAN : SinkRoll(l, early)
  <2>1. power = "up" /\ power' = "up" /\ magic' = magic /\ UNCHANGED reader /\ lock = "free"
    BY <1>2 DEF SinkBoot, SinkRoll
  <2>2. \/ lock' = lock /\ pc' = pc
        \/ lock' = "writer" /\ pc' = "append"
    BY <1>2 DEF SinkBoot, SinkRoll
  <2>. QED BY <2>1, <2>2
<1>3. CASE AppendStep
  BY <1>3, WriterOnSchedule
<1>4. CASE OpenRead \/ NextEnter \/ ReadStep
  BY <1>4, ReaderOnSchedule
<1>5. CASE Restart
  BY <1>5, NoCursorIs DEF Restart
<1>6. CASE PowerCut
  BY <1>6, NoCursorIs DEF PowerCut
<1>7. CASE UNCHANGED vars
  BY <1>7 DEF vars
<1>. QED BY <1>1, <1>2, <1>3, <1>4, <1>5, <1>6, <1>7 DEF Next

-----------------------------------------------------------------------------
(* A segment in order, and a reader of it that was not lapped at a place   *)
(* of it, with no more left to read than there is.                         *)
At(c, lap, seg, s, U, cap, H) ==
    (c.rd # "none" /\ c.seg = seg /\ ~lap /\ c.remaining > 0)
        => c.pos \in H /\ Off(s, c.pos, cap) + c.remaining <= U
InOrder(c, lap, seg, m, cap, s, U) ==
    \E H : Chain(m, cap, s, U, H) /\ At(c, lap, seg, s, U, cap, H)

RollChain == InOrder(cursor, lapped, "roll", mem, RollCap, readStart, used - sz)
BootChain == InOrder(cursor, lapped, "boot", bootMem, BootCap, 0, bootUsed)

(* Where the live words end; and what each point of the writer knows.      *)
Edge == Wrap(readStart + (used - sz), RollCap)
StoreInv ==
    /\ pc \notin {"gapWrap", "count"} => writePos = Edge
    /\ pc \in {"evictGap", "releaseGap", "filler", "gapUsed"}
         => gap = RollCap - writePos /\ gap < Need(len)
    /\ pc = "gapUsed" => gap < Hdr \/ mem[writePos].k = "wrap"
    /\ pc = "gapWrap" => Edge = 0
    /\ pc = "advance" => mem[writePos] = Record(seq + 1, len)
    /\ pc = "count" => /\ mem[Edge] = Record(seq + 1, len)
                       /\ Edge + Need(len) <= RollCap
                       /\ writePos = Wrap(Edge + Need(len), RollCap)
    /\ sz # 0 => pc \in {"releaseGap", "releaseNeed"}

StoreOK == RangeInv /\ ScheduleInv /\ StoreInv /\ RollChain /\ BootChain

LEMMA Segments ==
    ASSUME RangeInv PROVE Segment(mem, RollCap) /\ Segment(bootMem, BootCap)
BY SizesAssumption DEF RangeInv, TypeOK, MemOK, Segment

LEMMA RollNumbers ==
    ASSUME RangeInv, StoreInv
    PROVE  /\ readStart \in 0..(RollCap - 1) /\ used \in 0..RollCap /\ sz \in 0..used
           /\ used - sz \in 0..RollCap
           /\ RollCap \in Nat /\ RollCap >= 1 /\ len \in Nat /\ Need(len) \in Nat
           /\ Need(len) >= 2 /\ Need(len) <= Need(MaxLen)
           /\ Edge \in 0..(RollCap - 1)
<1>1. /\ readStart \in 0..(RollCap - 1) /\ used \in 0..RollCap /\ sz \in 0..RollCap
      /\ len \in 0..MaxLen /\ RollCap \in Nat /\ RollCap >= 1 /\ MaxLen \in Nat
  BY SizesAssumption DEF RangeInv, TypeOK, RingOK, WriterOK, Hdr
<1>2. sz <= used
  BY <1>1 DEF RangeInv, RoomInv, StoreInv
<1>3. used - sz \in 0..RollCap
  BY <1>1, <1>2
<1>4. PICK u \in 0..RollCap : u = used - sz
  BY <1>3
<1>5. Wrap(readStart + u, RollCap) \in 0..(RollCap - 1)
  BY <1>1, <1>4 DEF Wrap
<1>6. Edge \in 0..(RollCap - 1)
  BY <1>4, <1>5 DEF Edge
<1>. QED BY <1>1, <1>2, <1>3, <1>6 DEF Need, Hdr

(* A cell written past the end of the chain leaves its places alone.       *)
LEMMA PutBeyond ==
    ASSUME NEW m, NEW cap, Segment(m, cap), NEW s \in 0..(cap - 1), NEW U \in 0..cap,
           NEW H, Chain(m, cap, s, U, H), NEW e, e = Wrap(s + U, cap), NEW c \in Cell,
           U + Need(c.len) <= cap, e + Need(c.len) <= cap
    PROVE  /\ \A p \in H : Put(m, e, c)[p] = m[p]
           /\ Put(m, e, c)[e] = c
           /\ Chain(Put(m, e, c), cap, s, U, H)
<1>1. cap \in Nat /\ m \in [0..(cap - 1) -> Cell]
  BY DEF Segment
<1>2. PICK n \in Nat : n = Need(c.len) /\ n >= 2
  BY SizesAssumption DEF Cell, Need, Hdr
<1>3. e \in 0..(cap - 1) /\ Off(s, e, cap) = U /\ U < cap
  BY <1>1, <1>2, OffOf
<1>4. ASSUME NEW p \in H PROVE p \in 0..(cap - 1) /\ p # e /\ ~(e < p /\ p < e + n)
  <2>1. p \in 0..(cap - 1) /\ Linked(m, cap, s, U, H, p)
    BY DEF Chain
  <2>2. Span(m, cap, p) \in Nat /\ Span(m, cap, p) >= 1
    BY <2>1, SpanIs
  <2>3. Off(s, p, cap) + Span(m, cap, p) <= U
    BY <2>1 DEF Linked
  <2>a. Off(s, p, cap) \in Nat
    BY <1>1, <2>1, OffIs
  <2>4. Off(s, p, cap) < U
    BY <2>2, <2>3, <2>a
  <2>. QED BY <1>1, <1>2, <1>3, <2>1, <2>4 DEF Off, Wrap
<1>5. \A p \in H : Put(m, e, c)[p] = m[p]
  BY <1>1, <1>2, <1>4 DEF Put
<1>6. Put(m, e, c)[e] = c
  BY <1>1, <1>3 DEF Put
<1>. QED BY <1>5, <1>6, ChainFrame

(* The size that evict() reads is the size of the first place.             *)
LEMMA SizesKnown ==
    ASSUME StoreOK, MustEvict
    PROVE  /\ sz = 0 /\ used > 0
           /\ SizesAt(readStart) = {Span(mem, RollCap, readStart)}
           /\ Span(mem, RollCap, readStart) \in 1..used
<1>1. sz = 0 /\ used > 0 /\ used \in 1..RollCap /\ readStart \in 0..(RollCap - 1)
  BY RollNumbers DEF StoreOK, StoreInv, MustEvict
<1>2. PICK H : Chain(mem, RollCap, readStart, used - sz, H)
  BY DEF StoreOK, RollChain, InOrder
<1>3. used - sz = used
  BY <1>1
<1>4. Segment(mem, RollCap)
  BY Segments DEF StoreOK
<1>5. /\ Span(mem, RollCap, readStart) \in 1..used
      /\ readStart > RollCap - Hdr \/ mem[readStart].k # "junk"
  BY <1>1, <1>2, <1>3, <1>4, ChainEvict
<1>6. mem[readStart] \in Cell
  BY <1>1, <1>4 DEF Segment
<1>7. mem[readStart].k \in {"rec", "wrap", "junk"}
  BY <1>6 DEF Cell
<1>8. SizesAt(readStart) = {Span(mem, RollCap, readStart)}
  BY <1>5, <1>7, Zenon DEF SizesAt, Span
<1>. QED BY <1>1, <1>5, <1>8

LEMMA NeverSalvages == ASSUME StoreOK, EvictSalvage PROVE FALSE
<1>1. MustEvict
  BY DEF EvictSalvage
<1>2. PICK s \in SizesAt(readStart) : s = 0 \/ s > used
  BY DEF EvictSalvage, Inconsistent
<1>3. s \in 1..used /\ used \in Nat
  BY <1>1, <1>2, SizesKnown, RollNumbers DEF StoreOK
<1>. QED BY <1>2, <1>3

-----------------------------------------------------------------------------
(* The writer's stores, one by one, on a ring in order.                    *)
RingKept == StoreInv' /\ RollChain'

LEMMA StartKeepsRing == ASSUME StoreOK, AppendStart PROVE RingKept
<1>1. pc = "append" /\ sz = 0 /\ writePos = Edge /\ RollChain
  BY DEF StoreOK, StoreInv, AppendStart
<1>2. RollChain' /\ Edge' = Edge
  BY <1>1 DEF AppendStart, RollChain, Edge, region, reader
<1>3. /\ gap' = RollCap - writePos
      /\ (pc' = "evictGap" /\ gap' < Need(len)) \/ pc' = "evictNeed"
  BY DEF AppendStart
<1>4. writePos' = writePos /\ sz' = sz /\ len' = len
  BY DEF AppendStart, region
<1>. QED BY <1>1, <1>2, <1>3, <1>4 DEF RingKept, StoreInv, Need

LEMMA DoneKeepsRing == ASSUME StoreOK, EvictDone PROVE RingKept
<1>1. pc \in {"evictGap", "evictNeed"} /\ sz = 0 /\ writePos = Edge /\ RollChain
  BY DEF StoreOK, StoreInv, EvictDone
<1>2. RollChain' /\ Edge' = Edge
  BY <1>1 DEF EvictDone, RollChain, Edge, region, reader
<1>3. \/ pc = "evictGap" /\ pc' = "filler"
      \/ pc = "evictNeed" /\ pc' = "write"
  BY <1>1 DEF EvictDone, AfterEvict
<1>4. writePos' = writePos /\ sz' = sz /\ len' = len /\ gap' = gap
  BY DEF EvictDone, region
<1>. QED BY <1>1, <1>2, <1>3, <1>4 DEF RingKept, StoreOK, StoreInv, Need

LEMMA AdvanceKeepsRing == ASSUME StoreOK, EvictAdvance PROVE RingKept
<1>1. MustEvict
  BY DEF EvictAdvance
<1>2. PICK z : z = Span(mem, RollCap, readStart)
  OBVIOUS
<1>3. z \in 1..used /\ SizesAt(readStart) = {z} /\ sz = 0
  BY <1>1, <1>2, SizesKnown
<1>4. sz' = z /\ readStart' = Wrap(readStart + z, RollCap) /\ used' = used
  BY <1>3 DEF EvictAdvance
<1>5. used \in 1..RollCap /\ readStart \in 0..(RollCap - 1) /\ RollCap \in Nat
  BY <1>3, RollNumbers DEF StoreOK
<1>6. PICK H : /\ Chain(mem, RollCap, readStart, used - sz, H)
               /\ At(cursor, lapped, "roll", readStart, used - sz, RollCap, H)
  BY DEF StoreOK, RollChain, InOrder
<1>7. used - sz = used
  BY <1>3, <1>5
<1>8. Segment(mem, RollCap)
  BY Segments DEF StoreOK
<1>9. PICK K : K = Later(readStart, RollCap, H, z)
  OBVIOUS
<1>10. /\ Chain(mem, RollCap, readStart', used - z, K)
       /\ \A p \in H : p = readStart \/ p \in K
       /\ \A p \in K : Off(readStart', p, RollCap) = Off(readStart, p, RollCap) - z
  BY <1>2, <1>4, <1>5, <1>6, <1>7, <1>8, <1>9, ChainEvict
<1>11. cursor' = cursor /\ mem' = mem
  BY DEF EvictAdvance
<1>12. At(cursor, lapped', "roll", readStart', used - z, RollCap, K)
  <2>1. SUFFICES ASSUME cursor.rd # "none" /\ cursor.seg = "roll" /\ ~lapped' /\ cursor.remaining > 0
                 PROVE  /\ cursor.pos \in K
                        /\ Off(readStart', cursor.pos, RollCap) + cursor.remaining <= used - z
    BY DEF At
  <2>2. ~lapped /\ cursor.pos # readStart
    BY <2>1 DEF EvictAdvance
  <2>3. cursor.pos \in H /\ Off(readStart, cursor.pos, RollCap) + cursor.remaining <= used
    BY <1>6, <1>7, <2>1, <2>2 DEF At
  <2>4. cursor.pos \in K
    BY <1>10, <2>2, <2>3
  <2>5. cursor.remaining \in Nat
    BY DEF StoreOK, RangeInv, TypeOK, ReaderOK, CursorType
  <2>6. cursor.pos \in 0..(RollCap - 1)
    BY <1>6, <2>3 DEF Chain
  <2>7. PICK d \in Nat : d = Off(readStart, cursor.pos, RollCap)
    BY <1>5, <2>6, OffIs
  <2>8. Off(readStart', cursor.pos, RollCap) = d - z
    BY <1>10, <2>4, <2>7
  <2>. QED BY <1>3, <1>5, <2>3, <2>4, <2>5, <2>7, <2>8
<1>13. RollChain'
  BY <1>4, <1>10, <1>11, <1>12 DEF RollChain, InOrder
<1>14. Edge' = Edge
  <2>1. Wrap(Wrap(readStart + z, RollCap) + (used - z), RollCap) = Wrap(readStart + used, RollCap)
    BY <1>3, <1>5 DEF Wrap
  <2>2. Edge' = Wrap(readStart' + (used' - sz'), RollCap)
    BY DEF Edge
  <2>. QED BY <1>4, <1>7, <2>1, <2>2 DEF Edge
<1>15. /\ (pc = "evictGap" /\ pc' = "releaseGap") \/ (pc = "evictNeed" /\ pc' = "releaseNeed")
       /\ writePos' = writePos /\ gap' = gap /\ len' = len
  BY <1>1 DEF EvictAdvance, MustEvict
<1>. QED BY <1>13, <1>14, <1>15 DEF RingKept, StoreOK, StoreInv, Need

LEMMA ReleaseKeepsRing == ASSUME StoreOK, EvictRelease PROVE RingKept
<1>1. sz \in Nat /\ used \in Nat /\ sz <= used
  BY RollNumbers DEF StoreOK
<1>2. used' = used - sz /\ sz' = 0 /\ used' - sz' = used - sz
  BY <1>1 DEF EvictRelease
<1>3. readStart' = readStart /\ mem' = mem /\ cursor' = cursor /\ lapped' = lapped
  BY DEF EvictRelease, reader
<1>4. RollChain' /\ Edge' = Edge
  BY <1>2, <1>3 DEF StoreOK, RollChain, Edge
<1>5. /\ (pc = "releaseGap" /\ pc' = "evictGap") \/ (pc = "releaseNeed" /\ pc' = "evictNeed")
      /\ writePos' = writePos /\ gap' = gap /\ len' = len
  BY DEF EvictRelease
<1>. QED BY <1>2, <1>4, <1>5 DEF RingKept, StoreOK, StoreInv, Need

(* A record or a filler is written past the chain, which stays as it was.  *)
LEMMA WriteBeyond ==
    ASSUME StoreOK, NEW c \in Cell, writePos = Edge,
           (used - sz) + Need(c.len) <= RollCap, writePos + Need(c.len) <= RollCap,
           mem' = Put(mem, writePos, c), UNCHANGED <<readStart, used, sz, cursor, lapped>>
    PROVE  RollChain' /\ mem'[writePos] = c /\ Edge' = Edge
<1>1. PICK H : /\ Chain(mem, RollCap, readStart, used - sz, H)
               /\ At(cursor, lapped, "roll", readStart, used - sz, RollCap, H)
  BY DEF StoreOK, RollChain, InOrder
<1>2. Segment(mem, RollCap) /\ readStart \in 0..(RollCap - 1) /\ used - sz \in 0..RollCap
  BY Segments, RollNumbers DEF StoreOK
<1>3. PICK U : U = used - sz
  OBVIOUS
<1>4. writePos = Wrap(readStart + U, RollCap)
  BY <1>3 DEF Edge
<1>5. Chain(mem', RollCap, readStart, U, H) /\ mem'[writePos] = c
  BY <1>1, <1>2, <1>3, <1>4, PutBeyond
<1>6. used' - sz' = U
  BY <1>3
<1>. QED BY <1>1, <1>3, <1>5, <1>6 DEF RollChain, InOrder, Edge

(* What was written past the chain becomes its last place.                 *)
LEMMA CountIn ==
    ASSUME StoreOK, sz = 0, sz' = 0, NEW z, z = Span(mem, RollCap, Edge),
           Edge > RollCap - Hdr \/ mem[Edge].k # "junk",
           Edge + z <= RollCap, used + z <= RollCap, used < RollCap,
           Filled(mem, RollCap, Edge) => RollCap - Edge < Need(MaxLen),
           used' = used + z, UNCHANGED <<mem, readStart, cursor, lapped>>
    PROVE  RollChain' /\ Edge' = Wrap(Edge + z, RollCap)
<1>1. PICK H : /\ Chain(mem, RollCap, readStart, used - sz, H)
               /\ At(cursor, lapped, "roll", readStart, used - sz, RollCap, H)
  BY DEF StoreOK, RollChain, InOrder
<1>2. /\ Segment(mem, RollCap) /\ readStart \in 0..(RollCap - 1) /\ used \in 0..RollCap
      /\ used - sz = used /\ RollCap \in Nat /\ Edge \in 0..(RollCap - 1)
  BY Segments, RollNumbers DEF StoreOK
<1>3. Edge = Wrap(readStart + used, RollCap)
  BY <1>2 DEF Edge
<1>4. z \in Nat
  BY <1>2, SpanIs
<1>5. PICK e : e = Edge
  OBVIOUS
<1>6. Chain(mem, RollCap, readStart, used + z, H \cup {e})
  BY <1>1, <1>2, <1>3, <1>5, ChainGrow
<1>7. At(cursor, lapped, "roll", readStart, used + z, RollCap, H \cup {e})
  <2>1. SUFFICES ASSUME cursor.rd # "none" /\ cursor.seg = "roll" /\ ~lapped /\ cursor.remaining > 0
                 PROVE  /\ cursor.pos \in H \cup {e}
                        /\ Off(readStart, cursor.pos, RollCap) + cursor.remaining <= used + z
    BY DEF At
  <2>2. cursor.pos \in H /\ Off(readStart, cursor.pos, RollCap) + cursor.remaining <= used
    BY <1>1, <1>2, <2>1 DEF At
  <2>3. cursor.remaining \in Nat /\ cursor.pos \in 0..(RollCap - 1)
    BY <1>1, <2>2 DEF Chain, StoreOK, RangeInv, TypeOK, ReaderOK, CursorType
  <2>4. Off(readStart, cursor.pos, RollCap) \in Nat
    <3>1. PICK p \in 0..(RollCap - 1) : p = cursor.pos
      BY <2>3
    <3>2. Off(readStart, p, RollCap) \in 0..(RollCap - 1)
      BY <1>2, OffIs
    <3>. QED BY <1>2, <3>1, <3>2
  <2>. QED BY <1>2, <1>4, <2>2, <2>3, <2>4
<1>8. used' - sz' = used + z
  BY <1>2, <1>4
<1>9. RollChain'
  BY <1>6, <1>7, <1>8 DEF RollChain, InOrder
<1>10. Wrap(Wrap(readStart + used, RollCap) + z, RollCap) = Wrap(readStart + (used + z), RollCap)
  BY <1>2, <1>4 DEF Wrap
<1>. QED BY <1>3, <1>8, <1>9, <1>10 DEF Edge

LEMMA FillerKeepsRing == ASSUME StoreOK, WriteFiller PROVE RingKept
<1>1. /\ pc = "filler" /\ sz = 0 /\ writePos = Edge /\ pc' = "gapUsed"
      /\ gap = RollCap - writePos /\ gap < Need(len)
  BY DEF StoreOK, StoreInv, WriteFiller
<1>2. used + gap <= RollCap
  BY <1>1 DEF StoreOK, RangeInv, RoomInv
<1>3. /\ UNCHANGED <<readStart, used, sz, cursor, lapped, writePos, gap, len>>
      /\ mem' = IF gap >= Hdr THEN Put(mem, writePos, Filler) ELSE mem
  BY DEF WriteFiller, reader
<1>4. /\ writePos \in Nat /\ used \in Nat /\ used - sz = used /\ RollCap \in Nat /\ gap \in Nat
  BY <1>1, RollNumbers DEF StoreOK, RangeInv, TypeOK, WriterOK
<1>5. CASE gap >= Hdr
  <2>1. Filler \in Cell /\ Need(Filler.len) = Hdr /\ Filler.k = "wrap"
    BY SizesAssumption DEF Filler, Cell, Need, Hdr
  <2>2. (used - sz) + Hdr <= RollCap /\ writePos + Hdr <= RollCap
    BY <1>1, <1>2, <1>4, <1>5 DEF Hdr
  <2>3. RollChain' /\ mem'[writePos] = Filler /\ Edge' = Edge
    BY <1>1, <1>3, <1>5, <2>1, <2>2, WriteBeyond
  <2>. QED BY <1>1, <1>3, <2>1, <2>3 DEF RingKept, StoreInv, Need
<1>6. CASE ~(gap >= Hdr)
  <2>1. gap < Hdr
    BY <1>4, <1>6 DEF Hdr
  <2>2. RollChain' /\ Edge' = Edge
    BY <1>3, <1>6 DEF StoreOK, RollChain, Edge
  <2>. QED BY <1>1, <1>3, <2>1, <2>2 DEF RingKept, StoreInv, Need
<1>. QED BY <1>5, <1>6

LEMMA GapKeepsRing == ASSUME StoreOK, GapUsed PROVE RingKept
<1>1. /\ pc = "gapUsed" /\ sz = 0 /\ writePos = Edge /\ pc' = "gapWrap"
      /\ gap = RollCap - writePos /\ gap < Need(len)
      /\ gap < Hdr \/ mem[writePos].k = "wrap"
  BY DEF StoreOK, StoreInv, GapUsed
<1>2. used + gap <= RollCap
  BY <1>1 DEF StoreOK, RangeInv, RoomInv
<1>3. /\ UNCHANGED <<readStart, mem, sz, cursor, lapped, writePos, gap, len>>
      /\ used' = used + gap
  BY DEF GapUsed, reader
<1>4. /\ Edge \in 0..(RollCap - 1) /\ used \in Nat /\ RollCap \in Nat
      /\ Need(len) \in Nat /\ Need(MaxLen) \in Nat /\ Need(len) <= Need(MaxLen)
  BY RollNumbers, SizesAssumption DEF StoreOK, Need, Hdr
<1>5. Edge > RollCap - Hdr \/ mem[Edge].k = "wrap"
  BY <1>1, <1>4 DEF Hdr
<1>6. Span(mem, RollCap, Edge) = RollCap - Edge
  BY <1>5 DEF Span
<1>7. PICK z : z = RollCap - Edge
  OBVIOUS
<1>8. z \in Nat /\ z >= 1 /\ z = gap /\ Edge + z = RollCap /\ z < Need(MaxLen)
  BY <1>1, <1>4, <1>7
<1>9. used + z <= RollCap /\ used < RollCap
  BY <1>2, <1>4, <1>8
<1>10. z = Span(mem, RollCap, Edge) /\ mem[Edge].k = "wrap" => mem[Edge].k # "junk"
  BY <1>6, <1>7
<1>11. sz' = 0 /\ used' = used + z
  BY <1>1, <1>3, <1>8
<1>12. Edge + z <= RollCap /\ RollCap - Edge < Need(MaxLen)
  BY <1>4, <1>7, <1>8
<1>13. RollChain' /\ Edge' = Wrap(Edge + z, RollCap)
  BY <1>1, <1>3, <1>5, <1>6, <1>7, <1>9, <1>11, <1>12, CountIn
<1>14. Wrap(RollCap, RollCap) = 0
  BY <1>4 DEF Wrap
<1>15. Edge' = 0
  BY <1>8, <1>13, <1>14
<1>. QED BY <1>1, <1>11, <1>13, <1>15 DEF RingKept, StoreInv

LEMMA WrapKeepsRing == ASSUME StoreOK, GapWrap PROVE RingKept
<1>1. pc = "gapWrap" /\ sz = 0 /\ Edge = 0 /\ pc' = "evictNeed" /\ writePos' = 0
  BY DEF StoreOK, StoreInv, GapWrap
<1>2. UNCHANGED <<readStart, mem, used, sz, cursor, lapped>>
  BY DEF GapWrap, reader
<1>3. RollChain' /\ Edge' = Edge
  BY <1>2 DEF StoreOK, RollChain, Edge
<1>. QED BY <1>1, <1>2, <1>3 DEF RingKept, StoreInv

LEMMA RecordKeepsRing == ASSUME StoreOK, WriteRecord PROVE RingKept
<1>1. /\ pc = "write" /\ sz = 0 /\ writePos = Edge /\ pc' = "advance"
      /\ mem' = Put(mem, writePos, Record(seq + 1, len))
      /\ UNCHANGED <<readStart, used, sz, cursor, lapped, writePos, len, seq>>
  BY DEF StoreOK, StoreInv, WriteRecord, reader
<1>2. used + Need(len) <= RollCap /\ writePos + Need(len) <= RollCap
  BY <1>1 DEF StoreOK, RangeInv, RoomInv
<1>3. Record(seq + 1, len) \in Cell /\ Record(seq + 1, len).len = len
  BY SizesAssumption DEF StoreOK, RangeInv, TypeOK, CountersOK, WriterOK, Record, Cell
<1>4. used - sz = used
  BY <1>1, RollNumbers DEF StoreOK
<1>5. RollChain' /\ mem'[writePos] = Record(seq + 1, len) /\ Edge' = Edge
  BY <1>1, <1>2, <1>3, <1>4, WriteBeyond
<1>. QED BY <1>1, <1>5 DEF RingKept, StoreInv

LEMMA MoveKeepsRing == ASSUME StoreOK, AdvanceWritePos PROVE RingKept
<1>1. /\ pc = "advance" /\ sz = 0 /\ writePos = Edge /\ pc' = "count"
      /\ mem[writePos] = Record(seq + 1, len)
      /\ writePos' = Wrap(writePos + Need(len), RollCap)
      /\ UNCHANGED <<readStart, mem, used, sz, cursor, lapped, len, seq>>
  BY DEF StoreOK, StoreInv, AdvanceWritePos, reader
<1>2. writePos + Need(len) <= RollCap
  BY <1>1 DEF StoreOK, RangeInv, RoomInv
<1>3. RollChain' /\ Edge' = Edge
  BY <1>1 DEF StoreOK, RollChain, Edge
<1>. QED BY <1>1, <1>2, <1>3 DEF RingKept, StoreInv, Need

LEMMA FinishKeepsRing == ASSUME StoreOK, FinishAppend PROVE RingKept
<1>1. /\ pc = "count" /\ sz = 0 /\ pc' = "idle" /\ mem[Edge] = Record(seq + 1, len)
      /\ Edge + Need(len) <= RollCap /\ writePos = Wrap(Edge + Need(len), RollCap)
      /\ used' = used + Need(len)
      /\ UNCHANGED <<readStart, mem, sz, cursor, lapped, writePos>>
  BY DEF StoreOK, StoreInv, FinishAppend, reader
<1>2. used + Need(len) <= RollCap
  BY <1>1 DEF StoreOK, RangeInv, RoomInv
<1>3. /\ Edge \in 0..(RollCap - 1) /\ used \in Nat /\ RollCap \in Nat
      /\ Need(len) \in Nat /\ Need(len) >= 2
  BY RollNumbers DEF StoreOK
<1>4. mem[Edge].k = "rec" /\ mem[Edge].len = len /\ Need(mem[Edge].len) = Need(len)
  BY <1>1 DEF Record
<1>5. ~(Edge > RollCap - Hdr)
  BY <1>1, <1>3 DEF Hdr
<1>6. Span(mem, RollCap, Edge) = Need(len) /\ ~Filled(mem, RollCap, Edge)
  BY <1>4, <1>5 DEF Span, Filled
<1>7. used < RollCap
  BY <1>2, <1>3
<1>8. PICK z : z = Need(len)
  OBVIOUS
<1>9. RollChain' /\ Edge' = Wrap(Edge + z, RollCap)
  BY <1>1, <1>2, <1>4, <1>6, <1>7, <1>8, CountIn
<1>. QED BY <1>1, <1>8, <1>9 DEF RingKept, StoreInv

LEMMA WriterKeepsRing == ASSUME StoreOK, AppendStep PROVE RingKept
BY StartKeepsRing, DoneKeepsRing, NeverSalvages, AdvanceKeepsRing, ReleaseKeepsRing,
   FillerKeepsRing, GapKeepsRing, WrapKeepsRing, RecordKeepsRing, MoveKeepsRing,
   FinishKeepsRing DEF AppendStep

-----------------------------------------------------------------------------
(* A turn of the reader on a chain: from a place to the next one.          *)
LEMMA ReaderMoves ==
    ASSUME NEW m, NEW cap, Segment(m, cap), NEW s \in 0..(cap - 1), NEW U \in 0..cap,
           NEW H, Chain(m, cap, s, U, H), NEW p \in H, NEW r \in Nat, r > 0,
           Off(s, p, cap) + r <= U, NEW z, z = Span(m, cap, p)
    PROVE  /\ p \in 0..(cap - 1) /\ z \in Nat /\ z >= 1 /\ r <= U
           /\ p > cap - Hdr \/ m[p].k # "junk"
           /\ r > z => /\ After(m, cap, p) \in H
                       /\ Off(s, After(m, cap, p), cap) + (r - z) <= U
<1>1. p \in 0..(cap - 1) /\ cap \in Nat /\ Linked(m, cap, s, U, H, p)
  BY DEF Chain, Segment
<1>2. z \in Nat /\ z >= 1
  BY <1>1, SpanIs
<1>3. PICK d \in Nat : d = Off(s, p, cap)
  BY <1>1, OffIs
<1>4. ASSUME r > z
      PROVE  /\ After(m, cap, p) \in H
             /\ Off(s, After(m, cap, p), cap) + (r - z) <= U
  <2>1. d + z < U /\ d + z < cap
    BY <1>1, <1>2, <1>3, <1>4
  <2>2. After(m, cap, p) \in H
    BY <1>1, <1>3, <2>1 DEF Linked
  <2>3. Off(s, After(m, cap, p), cap) = d + z
    BY <1>1, <1>2, <1>3, <2>1, AfterOff DEF After
  <2>. QED BY <1>2, <1>3, <2>2, <2>3
<1>5. r <= U
  BY <1>3
<1>. QED BY <1>1, <1>2, <1>4, <1>5 DEF Linked

(* What next() makes of a place: a filler, whose words it passes over, or  *)
(* the record, whose words it passes over.                                 *)
LEMMA PlaceParses ==
    ASSUME NEW m, NEW cap, Segment(m, cap), NEW p \in 0..(cap - 1), m[p].k # "junk"
    PROVE  /\ ParsesAt(m, p) = {m[p]} /\ Corrupt \notin ParsesAt(m, p)
           /\ Filler \in ParsesAt(m, p) => m[p].k = "wrap"
           /\ \A c \in ParsesAt(m, p) : c.k = "rec" /\ ~(p > cap - Hdr)
                 => Span(m, cap, p) = Need(c.len)
<1>1. m[p] \in Cell
  BY DEF Segment
<1>2. m[p].k # "corrupt"
  BY <1>1 DEF Cell
<1>3. ParsesAt(m, p) = {m[p]}
  BY Zenon DEF ParsesAt
<1>4. Corrupt.k = "corrupt" /\ Filler.k = "wrap"
  BY DEF Corrupt, Filler
<1>. QED BY <1>2, <1>3, <1>4, Zenon DEF Span

(* The reader in a segment, put in one way for the two segments.           *)
SegStart == IF cursor.seg = "boot" THEN 0 ELSE readStart
LEMMA InSegment ==
    ASSUME StoreOK, Looping, cursor.remaining > 0, ~lapped
    PROVE  /\ Segment(SegMem, SegCap) /\ SegStart \in 0..(SegCap - 1)
           /\ SegUsed \in 0..SegCap /\ SegCap \in Nat /\ sz = 0 /\ pc = "idle"
           /\ \E H : /\ Chain(SegMem, SegCap, SegStart, SegUsed, H)
                     /\ cursor.pos \in H
                     /\ Off(SegStart, cursor.pos, SegCap) + cursor.remaining <= SegUsed
<1>1. cursor.rd = "loop" /\ cursor.seg \in {"boot", "roll"} /\ lock = "reader"
  BY DEF Looping, StoreOK, RangeInv, TypeOK, ReaderOK, CursorType, ScheduleInv
<1>2. pc = "idle" /\ sz = 0
  BY <1>1 DEF StoreOK, ScheduleInv, StoreInv
<1>3. /\ readStart \in 0..(RollCap - 1) /\ used \in 0..RollCap /\ used - sz = used
      /\ RollCap \in Nat /\ BootCap \in Nat /\ bootUsed \in 0..BootCap /\ 0 \in 0..(BootCap - 1)
  BY <1>2, RollNumbers, SizesAssumption DEF StoreOK, RangeInv, TypeOK, RingOK, Hdr
<1>4. CASE cursor.seg = "boot"
  <2>1. PICK H : /\ Chain(bootMem, BootCap, 0, bootUsed, H)
                 /\ At(cursor, lapped, "boot", 0, bootUsed, BootCap, H)
    BY DEF StoreOK, BootChain, InOrder
  <2>2. cursor.pos \in H /\ Off(0, cursor.pos, BootCap) + cursor.remaining <= bootUsed
    BY <1>1, <1>4, <2>1 DEF At
  <2>3. SegMem = bootMem /\ SegCap = BootCap /\ SegStart = 0 /\ SegUsed = bootUsed
    BY <1>4 DEF SegMem, SegCap, CapOf, SegStart, SegUsed
  <2>. QED BY <1>2, <1>3, <2>1, <2>2, <2>3, Segments DEF StoreOK
<1>5. CASE cursor.seg = "roll"
  <2>1. PICK H : /\ Chain(mem, RollCap, readStart, used - sz, H)
                 /\ At(cursor, lapped, "roll", readStart, used - sz, RollCap, H)
    BY DEF StoreOK, RollChain, InOrder
  <2>2. cursor.pos \in H /\ Off(readStart, cursor.pos, RollCap) + cursor.remaining <= used
    BY <1>1, <1>3, <1>5, <2>1 DEF At
  <2>3. SegMem = mem /\ SegCap = RollCap /\ SegStart = readStart /\ SegUsed = used
    BY <1>5 DEF SegMem, SegCap, CapOf, SegStart, SegUsed
  <2>. QED BY <1>2, <1>3, <2>1, <2>2, <2>3, Segments DEF StoreOK
<1>. QED BY <1>1, <1>4, <1>5

(* The reader passes over one place, a filler or a record, and no more     *)
(* can happen to it while it was not lapped.                               *)
Passed(z) ==
    /\ cursor'.pos = After(SegMem, SegCap, cursor.pos)
    /\ cursor'.remaining = Monus(cursor.remaining, z)
LEMMA TurnPasses ==
    ASSUME StoreOK, SkipTail \/ TakeRecord, ~lapped
    PROVE  Passed(Span(SegMem, SegCap, cursor.pos)) /\ cursor'.seg = cursor.seg
<1>0. cursor \in CursorType
  BY DEF StoreOK, RangeInv, TypeOK, ReaderOK
<1>1. Looping /\ cursor.remaining > 0
  BY DEF SkipTail, TakeRecord, Readable
<1>2. PICK H : /\ Chain(SegMem, SegCap, SegStart, SegUsed, H)
               /\ cursor.pos \in H
               /\ Off(SegStart, cursor.pos, SegCap) + cursor.remaining <= SegUsed
  BY <1>1, InSegment
<1>3. /\ Segment(SegMem, SegCap) /\ SegStart \in 0..(SegCap - 1)
      /\ SegUsed \in 0..SegCap /\ SegCap \in Nat
  BY <1>1, InSegment
<1>4. cursor.remaining \in Nat
  BY <1>0 DEF CursorType
<1>5. PICK m, cap, p : m = SegMem /\ cap = SegCap /\ p = cursor.pos
  OBVIOUS
<1>6. /\ p \in 0..(cap - 1)
      /\ p > cap - Hdr \/ m[p].k # "junk"
  BY <1>1, <1>2, <1>3, <1>4, <1>5, ReaderMoves
<1>7. ~(p > cap - Hdr) =>
        /\ Corrupt \notin ParsesAt(m, p)
        /\ Filler \in ParsesAt(m, p) => m[p].k = "wrap"
        /\ \A c \in ParsesAt(m, p) : c.k = "rec" => Span(m, cap, p) = Need(c.len)
  BY <1>3, <1>5, <1>6, PlaceParses
<1>8. CASE SkipTail
  <2>1. p > cap - Hdr \/ m[p].k = "wrap"
    BY <1>5, <1>7, <1>8 DEF SkipTail, InTail
  <2>2. Span(m, cap, p) = cap - p
    BY <2>1 DEF Span
  <2>3. p + (cap - p) = cap /\ Wrap(cap, cap) = 0
    BY <1>3, <1>5, <1>6 DEF Wrap
  <2>4. After(m, cap, p) = 0
    BY <2>2, <2>3 DEF After
  <2>5. /\ cursor'.pos = 0 /\ cursor'.remaining = Monus(cursor.remaining, SegCap - cursor.pos)
        /\ cursor'.seg = cursor.seg
    BY <1>0, <1>8 DEF SkipTail, CursorType
  <2>. QED BY <1>5, <2>2, <2>4, <2>5 DEF Passed
<1>9. CASE TakeRecord
  <2>1. PICK c \in ParsesAt(m, p) :
            /\ c.k = "rec"
            /\ cursor' = [cursor EXCEPT !.rd = "open",
                            !.pos = Wrap(cursor.pos + Need(c.len), SegCap),
                            !.remaining = Monus(cursor.remaining, Need(c.len))]
    BY <1>5, <1>9 DEF TakeRecord
  <2>2. ~(p > cap - Hdr)
    BY <1>5, <1>9 DEF TakeRecord, InTail
  <2>3. Span(m, cap, p) = Need(c.len)
    BY <1>7, <2>1, <2>2
  <2>4. /\ cursor'.pos = Wrap(cursor.pos + Need(c.len), SegCap) /\ cursor'.seg = cursor.seg
        /\ cursor'.remaining = Monus(cursor.remaining, Need(c.len))
    BY <1>0, <2>1 DEF CursorType
  <2>. QED BY <1>5, <2>3, <2>4 DEF Passed, After
<1>. QED BY <1>8, <1>9

LEMMA NeverCorrupt == ASSUME StoreOK, StopAtCorrupt, ~lapped PROVE FALSE
<1>1. Looping /\ cursor.remaining > 0 /\ ~InTail /\ Corrupt \in ParsesAt(SegMem, cursor.pos)
  BY DEF StopAtCorrupt, Readable
<1>2. PICK H : /\ Chain(SegMem, SegCap, SegStart, SegUsed, H)
               /\ cursor.pos \in H
               /\ Off(SegStart, cursor.pos, SegCap) + cursor.remaining <= SegUsed
  BY <1>1, InSegment
<1>3. /\ Segment(SegMem, SegCap) /\ SegStart \in 0..(SegCap - 1)
      /\ SegUsed \in 0..SegCap /\ SegCap \in Nat
  BY <1>1, InSegment
<1>4. cursor.remaining \in Nat
  BY DEF StoreOK, RangeInv, TypeOK, ReaderOK, CursorType
<1>5. PICK m, cap, p : m = SegMem /\ cap = SegCap /\ p = cursor.pos
  OBVIOUS
<1>6. /\ p \in 0..(cap - 1)
      /\ p > cap - Hdr \/ m[p].k # "junk"
  BY <1>1, <1>2, <1>3, <1>4, <1>5, ReaderMoves
<1>7. ~(p > cap - Hdr)
  BY <1>1, <1>5 DEF InTail
<1>8. Corrupt \notin ParsesAt(m, p)
  BY <1>3, <1>5, <1>6, <1>7, PlaceParses
<1>. QED BY <1>1, <1>5, <1>8

LEMMA NoFalseAlarm == ASSUME StoreOK, CheckOverrun, ~lapped PROVE FALSE
<1>1. Looping /\ cursor.remaining > 0 /\ SegUsed < cursor.remaining
  BY DEF CheckOverrun
<1>2. PICK H : /\ Chain(SegMem, SegCap, SegStart, SegUsed, H)
               /\ cursor.pos \in H
               /\ Off(SegStart, cursor.pos, SegCap) + cursor.remaining <= SegUsed
  BY <1>1, InSegment
<1>3. /\ Segment(SegMem, SegCap) /\ SegStart \in 0..(SegCap - 1)
      /\ SegUsed \in 0..SegCap /\ SegCap \in Nat
  BY <1>1, InSegment
<1>4. cursor.remaining \in Nat
  BY DEF StoreOK, RangeInv, TypeOK, ReaderOK, CursorType
<1>5. cursor.remaining <= SegUsed
  BY <1>1, <1>2, <1>3, <1>4, ReaderMoves
<1>. QED BY <1>1, <1>3, <1>4, <1>5

(* A reader that is nowhere in a segment asks nothing of it.               *)
Elsewhere(c, lap, seg) == c.rd = "none" \/ c.seg # seg \/ lap \/ c.remaining = 0
LEMMA ChainsStay ==
    ASSUME StoreOK, UNCHANGED <<region, pc, len, gap, sz>>
    PROVE  /\ StoreInv'
           /\ Elsewhere(cursor', lapped', "roll") => RollChain'
           /\ Elsewhere(cursor', lapped', "boot") => BootChain'
<1>1. StoreInv'
  BY DEF StoreOK, StoreInv, Edge, region, Need
<1>2. ASSUME NEW seg, Elsewhere(cursor', lapped', seg), NEW m, NEW cap, NEW s, NEW U,
             InOrder(cursor, lapped, seg, m, cap, s, U)
      PROVE  InOrder(cursor', lapped', seg, m, cap, s, U)
  <2>1. cursor'.remaining = 0 => ~(cursor'.remaining > 0)
    OBVIOUS
  <2>. QED BY <1>2, <2>1 DEF InOrder, At, Elsewhere
<1>3. Elsewhere(cursor', lapped', "roll") => RollChain'
  BY <1>2 DEF StoreOK, RollChain, region
<1>4. Elsewhere(cursor', lapped', "boot") => BootChain'
  BY <1>2 DEF StoreOK, BootChain, region
<1>. QED BY <1>1, <1>3, <1>4

LEMMA TurnKeepsChains ==
    ASSUME StoreOK, SkipTail \/ TakeRecord PROVE StoreInv' /\ RollChain' /\ BootChain'
<1>1. UNCHANGED <<region, pc, len, gap, sz>> /\ lapped' = lapped
  BY DEF SkipTail, TakeRecord, locals
<1>2. Looping /\ cursor.remaining > 0
  BY DEF SkipTail, TakeRecord, Readable
<1>3. cursor \in CursorType /\ cursor'.seg = cursor.seg
  BY DEF StoreOK, RangeInv, TypeOK, ReaderOK, CursorType, SkipTail, TakeRecord
<1>4. cursor.seg \in {"boot", "roll"} /\ cursor.remaining \in Nat
  BY <1>2, <1>3 DEF Looping, CursorType
<1>5. CASE lapped
  BY <1>1, <1>5, ChainsStay DEF Elsewhere
<1>6. CASE ~lapped
  <2>1. PICK H : /\ Chain(SegMem, SegCap, SegStart, SegUsed, H)
                 /\ cursor.pos \in H
                 /\ Off(SegStart, cursor.pos, SegCap) + cursor.remaining <= SegUsed
    BY <1>2, <1>6, InSegment
  <2>2. /\ Segment(SegMem, SegCap) /\ SegStart \in 0..(SegCap - 1)
        /\ SegUsed \in 0..SegCap /\ SegCap \in Nat /\ sz = 0
    BY <1>2, <1>6, InSegment
  <2>3. PICK m, cap, s, U, p, z : /\ m = SegMem /\ cap = SegCap /\ s = SegStart
                                  /\ U = SegUsed /\ p = cursor.pos /\ z = Span(m, cap, p)
    OBVIOUS
  <2>4. /\ z \in Nat
        /\ cursor.remaining > z => /\ After(m, cap, p) \in H
                                   /\ Off(s, After(m, cap, p), cap) + (cursor.remaining - z) <= U
    BY <1>2, <1>4, <2>1, <2>2, <2>3, ReaderMoves
  <2>5. cursor'.pos = After(m, cap, p) /\ cursor'.remaining = Monus(cursor.remaining, z)
    BY <1>6, <2>3, TurnPasses DEF Passed
  <2>6. cursor'.remaining > 0 => cursor.remaining > z /\ cursor'.remaining = cursor.remaining - z
    BY <1>4, <2>4, <2>5 DEF Monus
  <2>7. At(cursor', lapped', cursor.seg, s, U, cap, H)
    BY <2>4, <2>5, <2>6 DEF At
  <2>8. InOrder(cursor', lapped', cursor.seg, m, cap, s, U)
    BY <2>1, <2>3, <2>7 DEF InOrder
  <2>9. CASE cursor.seg = "boot"
    <3>1. BootChain'
      BY <1>1, <2>3, <2>8, <2>9 DEF BootChain, SegMem, SegCap, CapOf, SegStart, SegUsed, region
    <3>. QED BY <1>1, <1>3, <2>9, <3>1, ChainsStay DEF Elsewhere
  <2>10. CASE cursor.seg = "roll"
    <3>1. used - sz = used
      BY <2>2, RollNumbers DEF StoreOK
    <3>2. RollChain'
      BY <1>1, <2>3, <2>8, <2>10, <3>1
      DEF RollChain, SegMem, SegCap, CapOf, SegStart, SegUsed, region
    <3>. QED BY <1>1, <1>3, <2>10, <3>2, ChainsStay DEF Elsewhere
  <2>. QED BY <1>4, <2>9, <2>10
<1>. QED BY <1>5, <1>6

LEMMA ReaderKeepsChains ==
    ASSUME StoreOK, OpenRead \/ NextEnter \/ ReadStep
    PROVE  StoreInv' /\ RollChain' /\ BootChain'
<1>0. cursor \in CursorType /\ UNCHANGED <<region, pc, len, gap, sz>>
  BY DEF StoreOK, RangeInv, TypeOK, ReaderOK, OpenRead, NextEnter, ReadStep, NextSegment,
         CheckOverrun, SkipTail, StopAtCorrupt, TakeRecord, EndRead, locals
<1>1. CASE OpenRead
  <2>1. /\ cursor'.rd = "open" /\ cursor'.seg = "boot" /\ cursor'.pos = 0
        /\ cursor'.remaining = bootUsed
    BY <1>1 DEF OpenRead, NoCursor
  <2>2. PICK H : Chain(bootMem, BootCap, 0, bootUsed, H)
    BY DEF StoreOK, BootChain, InOrder
  <2>3. bootUsed > 0 => 0 \in H /\ Off(0, 0, BootCap) + bootUsed <= bootUsed
    BY <2>2 DEF Chain, Off, StoreOK, RangeInv, TypeOK, RingOK
  <2>4. At(cursor', lapped', "boot", 0, bootUsed, BootCap, H)
    BY <2>1, <2>3 DEF At
  <2>5. BootChain'
    BY <1>0, <2>2, <2>4 DEF BootChain, InOrder, region
  <2>. QED BY <1>0, <2>1, <2>5, ChainsStay DEF Elsewhere
<1>2. CASE NextEnter
  <2>1. /\ cursor.rd # "none" /\ cursor'.seg = cursor.seg /\ cursor'.pos = cursor.pos
        /\ cursor'.remaining = cursor.remaining /\ lapped' = lapped
    BY <1>0, <1>2 DEF NextEnter, CursorType
  <2>2. RollChain' /\ BootChain'
    BY <1>0, <2>1 DEF StoreOK, RollChain, BootChain, InOrder, At, region
  <2>. QED BY <1>0, <2>2, ChainsStay
<1>3. CASE NextSegment
  <2>1. CASE cursor.seg = "boot"
    <3>1. /\ cursor'.seg = "roll" /\ cursor'.pos = readStart /\ cursor'.remaining = used
      BY <1>0, <1>3, <2>1 DEF NextSegment, CursorType
    <3>2. sz = 0 /\ used - sz = used /\ used \in Nat /\ readStart \in Nat
      BY <1>3, RollNumbers
      DEF StoreOK, ScheduleInv, StoreInv, NextSegment, Looping
    <3>3. PICK H : Chain(mem, RollCap, readStart, used, H)
      BY <3>2 DEF StoreOK, RollChain, InOrder
    <3>4. used > 0 => readStart \in H /\ Off(readStart, readStart, RollCap) + used <= used
      BY <3>2, <3>3 DEF Chain, Off
    <3>5. At(cursor', lapped', "roll", readStart, used, RollCap, H)
      BY <3>1, <3>4 DEF At
    <3>6. RollChain'
      BY <1>0, <3>2, <3>3, <3>5 DEF RollChain, InOrder, region
    <3>. QED BY <1>0, <3>1, <3>6, ChainsStay DEF Elsewhere
  <2>2. CASE cursor.seg # "boot"
    <3>1. cursor'.seg = "done"
      BY <1>0, <1>3, <2>2 DEF NextSegment, CursorType
    <3>. QED BY <1>0, <3>1, ChainsStay DEF Elsewhere
  <2>. QED BY <2>1, <2>2
<1>4. CASE CheckOverrun \/ StopAtCorrupt
  <2>1. cursor'.remaining = 0
    BY <1>0, <1>4 DEF CheckOverrun, StopAtCorrupt, CursorType
  <2>. QED BY <1>0, <2>1, ChainsStay DEF Elsewhere
<1>5. CASE SkipTail \/ TakeRecord
  BY <1>5, TurnKeepsChains
<1>6. CASE EndRead
  <2>1. cursor'.rd = "none"
    BY <1>6, NoCursorIs DEF EndRead
  <2>. QED BY <1>0, <2>1, ChainsStay DEF Elsewhere
<1>. QED BY <1>1, <1>2, <1>3, <1>4, <1>5, <1>6 DEF ReadStep

-----------------------------------------------------------------------------
(* The writer of the rolling segment leaves the boot segment alone; begin() *)
(* and sink() write to it.                                                 *)
LEMMA WriterKeepsBoot == ASSUME StoreOK, AppendStep PROVE BootChain'
<1>1. UNCHANGED <<bootMem, bootUsed, cursor>>
  BY DEF AppendStep, AppendStart, EvictDone, EvictSalvage, EvictAdvance, EvictRelease,
         WriteFiller, GapUsed, GapWrap, WriteRecord, AdvanceWritePos, FinishAppend,
         region, reader
<1>2. lapped' => (lapped \/ cursor.seg = "roll")
  BY DEF AppendStep, AppendStart, EvictDone, EvictSalvage, EvictAdvance, EvictRelease,
         WriteFiller, GapUsed, GapWrap, WriteRecord, AdvanceWritePos, FinishAppend, reader
<1>3. lapped => lapped'
  BY DEF AppendStep, AppendStart, EvictDone, EvictSalvage, EvictAdvance, EvictRelease,
         WriteFiller, GapUsed, GapWrap, WriteRecord, AdvanceWritePos, FinishAppend, reader
<1>. QED BY <1>1, <1>2, <1>3 DEF StoreOK, BootChain, InOrder, At

LEMMA BootGrows ==
    ASSUME NEW m, Segment(m, BootCap), NEW U \in 0..BootCap, NEW H,
           Chain(m, BootCap, 0, U, H), NEW i \in Nat, NEW l \in 0..MaxLen, U + Need(l) <= BootCap
    PROVE  /\ Chain(Put(m, U, Record(i, l)), BootCap, 0, U + Need(l), H \cup {U})
           /\ \A p \in H : Put(m, U, Record(i, l))[p] = m[p]
           /\ Put(m, U, Record(i, l))[U] = Record(i, l)
           /\ U \in 0..(BootCap - 1) /\ U \notin H
<1>1. PICK c : c = Record(i, l)
  OBVIOUS
<1>2. c \in Cell /\ c.k = "rec" /\ c.len = l
  BY <1>1 DEF Record, Cell
<1>3. PICK n \in Nat : n = Need(l) /\ n >= 2
  BY SizesAssumption DEF Need, Hdr
<1>4. BootCap \in Nat /\ U \in 0..(BootCap - 1) /\ 0 \in 0..(BootCap - 1) /\ U < BootCap
  BY <1>3, SizesAssumption
<1>5. U = Wrap(0 + U, BootCap)
  BY <1>4 DEF Wrap
<1>6. PICK w : w = Put(m, U, c)
  OBVIOUS
<1>7. (\A p \in H : w[p] = m[p]) /\ w[U] = c /\ Chain(w, BootCap, 0, U, H)
  BY <1>2, <1>3, <1>4, <1>5, <1>6, PutBeyond
<1>8. Segment(w, BootCap)
  <2>1. w \in [0..(BootCap - 1) -> Cell]
    BY <1>2, <1>6, PutType, SizesAssumption DEF Segment, Hdr
  <2>. QED BY <2>1 DEF Segment
<1>9. ~(U > BootCap - Hdr)
  BY <1>3, <1>4 DEF Hdr
<1>10. Span(w, BootCap, U) = n /\ ~Filled(w, BootCap, U) /\ w[U].k # "junk"
  BY <1>2, <1>3, <1>7, <1>9 DEF Span, Filled
<1>11. /\ Chain(w, BootCap, 0, U + n, H \cup {U})
       /\ U \notin H
  BY <1>3, <1>4, <1>5, <1>7, <1>8, <1>10, ChainGrow
<1>. QED BY <1>1, <1>3, <1>4, <1>6, <1>7, <1>11

LEMMA BeginKeepsStore ==
    ASSUME StoreOK, Begin PROVE StoreInv' /\ RollChain' /\ BootChain'
<1>1. /\ pc = "idle" /\ sz = 0 /\ writePos = Edge /\ cursor.rd = "none"
      /\ pc' = "append" /\ UNCHANGED <<mem, sz, cursor, lapped>>
  BY DEF StoreOK, ScheduleInv, StoreInv, Begin, reader
<1>2. UNCHANGED <<writePos, readStart, used>>
  BY DEF StoreOK, ScheduleInv, Begin
<1>3. RollChain' /\ Edge' = Edge
  BY <1>1, <1>2 DEF StoreOK, RollChain, Edge
<1>4. StoreInv'
  BY <1>1, <1>2, <1>3 DEF StoreInv
<1>5. PICK i \in Nat : i = seq' /\ bootMem' = Put(bootMem, 0, Record(i, MarkerLen))
                       /\ bootUsed' = Need(MarkerLen)
  BY DEF Begin, StoreOK, RangeInv, TypeOK, CountersOK
<1>6. Segment(bootMem, BootCap) /\ MarkerLen \in 0..MaxLen
  BY Segments, SizesAssumption DEF StoreOK
<1>7. 0 \in 0..BootCap /\ 0 + Need(MarkerLen) = Need(MarkerLen) /\ Need(MarkerLen) <= BootCap
  BY SizesAssumption DEF Need, Hdr
<1>8. Chain(bootMem', BootCap, 0, bootUsed', {} \cup {0})
  <2>1. Chain(bootMem, BootCap, 0, 0, {}) /\ 0 + Need(MarkerLen) <= BootCap
    BY <1>7, EmptyChain
  <2>2. Chain(Put(bootMem, 0, Record(i, MarkerLen)), BootCap, 0, 0 + Need(MarkerLen), {} \cup {0})
    BY <1>6, <1>7, <2>1, BootGrows
  <2>. QED BY <1>5, <1>7, <2>2
<1>9. BootChain'
  BY <1>1, <1>8 DEF BootChain, InOrder, At
<1>. QED BY <1>3, <1>4, <1>9

LEMMA SinkKeepsStore ==
    ASSUME StoreOK, NEW l \in 0..MaxLen,
           SinkBoot(l) \/ \E early \in BOOLEAN : SinkRoll(l, early)
    PROVE  StoreInv' /\ RollChain' /\ BootChain'
<1>0. pc = "idle" /\ UNCHANGED <<mem, writePos, readStart, used, sz, cursor, lapped>>
  BY DEF StoreOK, ScheduleInv, SinkBoot, SinkRoll, region, locals, reader
<1>1. RollChain' /\ Edge' = Edge
  BY <1>0 DEF StoreOK, RollChain, Edge
<1>2. pc' \in {"idle", "append"}
  BY <1>0 DEF SinkBoot, SinkRoll, locals
<1>3. StoreInv'
  BY <1>0, <1>1, <1>2 DEF StoreOK, StoreInv
<1>4. CASE SinkBoot(l)
  <2>1. PICK H : /\ Chain(bootMem, BootCap, 0, bootUsed, H)
                 /\ At(cursor, lapped, "boot", 0, bootUsed, BootCap, H)
    BY DEF StoreOK, BootChain, InOrder
  <2>2. PICK U \in 0..BootCap : U = bootUsed
    BY DEF StoreOK, RangeInv, TypeOK, RingOK
  <2>3. seq + 1 \in Nat
    BY DEF StoreOK, RangeInv, TypeOK, CountersOK
  <2>4. Need(l) \in Nat /\ BootCap \in Nat
    BY SizesAssumption DEF Need, Hdr
  <2>5. /\ bootMem' = Put(bootMem, U, Record(seq + 1, l)) /\ bootUsed' = U + Need(l)
        /\ U + Need(l) <= BootCap
    BY <1>4, <2>2 DEF SinkBoot
  <2>6. Chain(bootMem', BootCap, 0, U + Need(l), H \cup {U})
    BY <2>1, <2>2, <2>3, <2>5, BootGrows, Segments DEF StoreOK
  <2>7. At(cursor, lapped, "boot", 0, U + Need(l), BootCap, H \cup {U})
    <3>1. SUFFICES ASSUME cursor.rd # "none" /\ cursor.seg = "boot" /\ ~lapped /\ cursor.remaining > 0
                   PROVE  /\ cursor.pos \in H \cup {U}
                          /\ Off(0, cursor.pos, BootCap) + cursor.remaining <= U + Need(l)
      BY DEF At
    <3>2. cursor.pos \in H /\ Off(0, cursor.pos, BootCap) + cursor.remaining <= U
      BY <2>1, <2>2, <3>1 DEF At
    <3>3. cursor.remaining \in Nat /\ cursor.pos \in Nat
      BY DEF StoreOK, RangeInv, TypeOK, ReaderOK, CursorType
    <3>4. Off(0, cursor.pos, BootCap) = cursor.pos
      BY <3>3 DEF Off
    <3>. QED BY <2>4, <3>2, <3>3, <3>4
  <2>8. BootChain'
    BY <1>0, <2>5, <2>6, <2>7 DEF BootChain, InOrder
  <2>. QED BY <1>1, <1>3, <2>8
<1>5. CASE \E early \in BOOLEAN : SinkRoll(l, early)
  <2>1. UNCHANGED <<bootMem, bootUsed>>
    BY <1>5 DEF SinkRoll, region
  <2>2. BootChain'
    BY <1>0, <2>1 DEF StoreOK, BootChain
  <2>. QED BY <1>1, <1>3, <2>2
<1>. QED BY <1>4, <1>5

(* A restart between critical sections leaves the ring as it was.          *)
LEMMA RestartKeepsStore ==
    ASSUME TornCrash = FALSE, StoreOK, Restart PROVE StoreInv' /\ RollChain' /\ BootChain'
<1>1. pc = "idle" /\ sz = 0 /\ pc' = "idle" /\ sz' = 0 /\ UNCHANGED region
  BY DEF StoreOK, ScheduleInv, StoreInv, Restart
<1>2. cursor'.rd = "none"
  BY NoCursorIs DEF Restart
<1>3. RollChain' /\ BootChain'
  BY <1>1, <1>2 DEF StoreOK, RollChain, BootChain, InOrder, At, region
<1>4. Edge' = Edge /\ writePos' = writePos
  BY <1>1 DEF Edge, region
<1>. QED BY <1>1, <1>3, <1>4 DEF StoreOK, StoreInv

LEMMA PowerCutKeepsStore ==
    ASSUME StoreOK, PowerCut PROVE StoreInv' /\ RollChain' /\ BootChain'
<1>1. /\ pc' = "idle" /\ sz' = 0 /\ used' = 0 /\ readStart' = 0 /\ writePos' = 0
      /\ bootUsed' = 0 /\ used' - sz' = 0
  BY DEF PowerCut
<1>2. cursor'.rd = "none"
  BY NoCursorIs DEF PowerCut
<1>3. RollChain' /\ BootChain'
  BY <1>1, <1>2, EmptyChain DEF RollChain, BootChain, InOrder, At
<1>4. Edge' = 0
  BY <1>1, SizesAssumption DEF Edge, Wrap, Hdr
<1>. QED BY <1>1, <1>3, <1>4 DEF StoreInv

LEMMA StoreOKInit == Init => StoreOK
<1>. SUFFICES ASSUME Init PROVE StoreOK
  OBVIOUS
<1>1. /\ pc = "idle" /\ sz = 0 /\ used = 0 /\ readStart = 0 /\ writePos = 0
      /\ bootUsed = 0 /\ used - sz = 0 /\ cursor.rd = "none"
  BY NoCursorIs DEF Init
<1>2. RollChain /\ BootChain
  BY <1>1, EmptyChain DEF RollChain, BootChain, InOrder, At
<1>3. Edge = 0
  BY <1>1, SizesAssumption DEF Edge, Wrap, Hdr
<1>. QED BY <1>1, <1>2, <1>3, RangeInvInit, ScheduleInvInit DEF StoreOK, StoreInv

LEMMA StoreOKStep ==
    ASSUME TornCrash = FALSE PROVE StoreOK /\ [Next]_vars => StoreOK'
<1>. SUFFICES ASSUME StoreOK, [Next]_vars PROVE StoreOK'
  OBVIOUS
<1>1. RangeInv' /\ ScheduleInv'
  BY RangeInvStep, ScheduleInvStep DEF StoreOK
<1>2. StoreInv' /\ RollChain' /\ BootChain'
  <2>1. CASE Begin
    BY <2>1, BeginKeepsStore
  <2>2. CASE \E l \in 0..MaxLen : SinkBoot(l) \/ \E early \in BOOLEAN : SinkRoll(l, early)
    BY <2>2, SinkKeepsStore
  <2>3. CASE AppendStep
    BY <2>3, WriterKeepsRing, WriterKeepsBoot DEF RingKept
  <2>4. CASE OpenRead \/ NextEnter \/ ReadStep
    BY <2>4, ReaderKeepsChains
  <2>5. CASE Restart
    BY <2>5, RestartKeepsStore
  <2>6. CASE PowerCut
    BY <2>6, PowerCutKeepsStore
  <2>7. CASE UNCHANGED vars
    BY <2>7 DEF vars, region, locals, reader, StoreOK, StoreInv, Edge, Need, RollChain,
       BootChain
  <2>. QED BY <2>1, <2>2, <2>3, <2>4, <2>5, <2>6, <2>7 DEF Next
<1>. QED BY <1>1, <1>2 DEF StoreOK

(* Wherever records of any sizes fall in the ring, whatever is evicted for *)
(* them and wherever the tail is filled: while the lock is free, the place *)
(* to write to is where the words counted as used end.                     *)
THEOREM RingStaysConsistent == ASSUME TornCrash = FALSE PROVE Spec => []RingConsistent
<1>1. StoreOK => RingConsistent
  <2>. SUFFICES ASSUME StoreOK, lock = "free" PROVE writePos = Wrap(readStart + used, RollCap)
    BY DEF RingConsistent
  <2>1. pc = "idle" /\ sz = 0 /\ writePos = Edge
    BY DEF StoreOK, ScheduleInv, StoreInv
  <2>2. used - sz = used
    BY <2>1, RollNumbers DEF StoreOK
  <2>. QED BY <2>1, <2>2 DEF Edge
<1>. QED BY StoreOKInit, StoreOKStep, <1>1, PTL DEF Spec

(* No step of a reader that was not lapped raises the flag: it asks for no *)
(* more than there is, and what is evicted under it was read before.       *)
LEMMA FlagStep == StoreOK /\ OverrunIsReal /\ [Next]_vars => OverrunIsReal'
<1>. SUFFICES ASSUME StoreOK, OverrunIsReal, [Next]_vars PROVE OverrunIsReal'
  OBVIOUS
<1>0. cursor \in CursorType
  BY DEF StoreOK, RangeInv, TypeOK, ReaderOK
<1>1. CASE Begin \/ (\E l \in 0..MaxLen : SinkBoot(l) \/ \E early \in BOOLEAN : SinkRoll(l, early))
  BY <1>1 DEF Begin, SinkBoot, SinkRoll, reader, OverrunIsReal
<1>2. CASE AppendStep
  <2>1. cursor' = cursor
    BY <1>2 DEF AppendStep, AppendStart, EvictDone, EvictSalvage, EvictAdvance, EvictRelease,
         WriteFiller, GapUsed, GapWrap, WriteRecord, AdvanceWritePos, FinishAppend, reader
  <2>2. lapped => lapped'
    BY <1>2 DEF AppendStep, AppendStart, EvictDone, EvictSalvage, EvictAdvance, EvictRelease,
         WriteFiller, GapUsed, GapWrap, WriteRecord, AdvanceWritePos, FinishAppend, reader
  <2>. QED BY <2>1, <2>2 DEF OverrunIsReal
<1>3. CASE CheckOverrun
  <2>1. lapped /\ lapped' = lapped
    BY <1>3, NoFalseAlarm DEF CheckOverrun
  <2>. QED BY <2>1 DEF OverrunIsReal
<1>4. CASE NextSegment
  <2>1. CASE cursor.seg = "boot"
    <3>1. ~lapped /\ ~cursor.overrun /\ cursor'.overrun = cursor.overrun
      BY <1>0, <1>4, <2>1 DEF StoreOK, ScheduleInv, OverrunIsReal, NextSegment, CursorType
    <3>. QED BY <3>1 DEF OverrunIsReal
  <2>2. CASE cursor.seg # "boot"
    <3>1. lapped' = lapped /\ cursor'.overrun = cursor.overrun
      BY <1>0, <1>4, <2>2 DEF NextSegment, CursorType
    <3>. QED BY <3>1 DEF OverrunIsReal
  <2>. QED BY <2>1, <2>2
<1>5. CASE NextEnter \/ SkipTail \/ StopAtCorrupt \/ TakeRecord
  <2>1. lapped' = lapped
    BY <1>5 DEF NextEnter, SkipTail, StopAtCorrupt, TakeRecord
  <2>2. cursor'.overrun = cursor.overrun
    BY <1>0, <1>5 DEF NextEnter, SkipTail, StopAtCorrupt, TakeRecord, CursorType
  <2>. QED BY <2>1, <2>2 DEF OverrunIsReal
<1>6. CASE OpenRead \/ EndRead \/ Restart \/ PowerCut
  <2>1. cursor'.overrun = FALSE
    BY <1>6, NoCursorIs DEF OpenRead, EndRead, Restart, PowerCut, NoCursor
  <2>. QED BY <2>1 DEF OverrunIsReal
<1>7. CASE UNCHANGED vars
  BY <1>7 DEF vars, reader, OverrunIsReal
<1>. QED BY <1>1, <1>2, <1>3, <1>4, <1>5, <1>6, <1>7 DEF Next, ReadStep

(* A download is marked as overtaken only if eviction did overtake it,     *)
(* wherever in the ring it is and however the ring wrapped meanwhile.      *)
THEOREM OverrunsAreReal == ASSUME TornCrash = FALSE PROVE Spec => []OverrunIsReal
<1>1. Init => StoreOK /\ OverrunIsReal
  BY NoCursorIs, StoreOKInit DEF Init, OverrunIsReal
<1>2. StoreOK /\ OverrunIsReal /\ [Next]_vars => (StoreOK /\ OverrunIsReal)'
  BY StoreOKStep, FlagStep
<1>. QED BY <1>1, <1>2, PTL DEF Spec

-----------------------------------------------------------------------------
(* Walks of two memories that agree on a chain, and walks to its end.      *)
LEMMA WalkFrame ==
    ASSUME NEW m, NEW w, NEW cap, Segment(m, cap), Segment(w, cap),
           NEW s \in 0..(cap - 1), NEW U \in 0..cap, NEW H, Chain(m, cap, s, U, H),
           \A p \in H : w[p] = m[p], NEW p \in H, NEW n \in Nat, Off(s, p, cap) + n <= U
    PROVE  Walk(w, cap, p, n) = Walk(m, cap, p, n)
<1>1. PICK S : S = {k \in Nat : \A q \in H, l \in Nat : l <= k /\ Off(s, q, cap) + l <= U
                                     => Walk(w, cap, q, l) = Walk(m, cap, q, l)}
  OBVIOUS
<1>2. cap \in Nat /\ \A q \in H : q \in 0..(cap - 1) /\ Off(s, q, cap) \in Nat
  BY OffIs DEF Segment, Chain
<1>3. \A q \in H, l \in Nat : Off(s, q, cap) + l <= U => l \in 0..cap
  BY <1>2
<1>4. \A q \in H : Span(w, cap, q) = Span(m, cap, q) /\ Met(w, cap, q) = Met(m, cap, q)
  BY DEF Span, Met
<1>5. \A q \in H : After(w, cap, q) = After(m, cap, q)
  BY <1>4 DEF After
<1>6. 0 \in S
  <2>1. ASSUME NEW q \in H, NEW l \in Nat, l <= 0 PROVE Walk(w, cap, q, l) = Walk(m, cap, q, l)
    <3>1. l = 0 /\ 0 \in 0..cap
      BY <1>2, <2>1
    <3>2. Walk(w, cap, q, 0) = <<>> /\ Walk(m, cap, q, 0) = <<>>
      BY <1>2, <3>1, WalkUnfolds
    <3>. QED BY <3>1, <3>2
  <2>. QED BY <1>1, <2>1
<1>7. ASSUME NEW k \in Nat, k \in S PROVE k + 1 \in S
  <2>1. ASSUME NEW q \in H, NEW l \in Nat, l <= k + 1, Off(s, q, cap) + l <= U
        PROVE  Walk(w, cap, q, l) = Walk(m, cap, q, l)
    <3>1. l \in 0..cap /\ q \in 0..(cap - 1)
      BY <1>2, <1>3, <2>1
    <3>2. PICK z \in Nat : z = Span(m, cap, q) /\ z >= 1
      BY <3>1, SpanIs
    <3>3. CASE l = 0 \/ z >= l
      <4>1. /\ Walk(w, cap, q, l) = IF l = 0 THEN <<>> ELSE Met(w, cap, q) \o <<>>
            /\ Walk(m, cap, q, l) = IF l = 0 THEN <<>> ELSE Met(m, cap, q) \o <<>>
        BY <1>4, <3>1, <3>2, <3>3, WalkUnfolds, Zenon
      <4>. QED BY <1>4, <4>1
    <3>4. CASE l # 0 /\ l > z
      <4>1. /\ After(m, cap, q) \in H
            /\ Off(s, After(m, cap, q), cap) + (l - z) <= U
        BY <2>1, <3>2, <3>4, ReaderMoves
      <4>2. l - z \in Nat /\ l - z <= k /\ ~(z >= l)
        BY <1>7, <2>1, <3>2, <3>4
      <4>3. Walk(w, cap, After(m, cap, q), l - z) = Walk(m, cap, After(m, cap, q), l - z)
        BY <1>1, <1>7, <4>1, <4>2
      <4>4. /\ Walk(w, cap, q, l) = Met(w, cap, q) \o Walk(w, cap, After(m, cap, q), l - z)
            /\ Walk(m, cap, q, l) = Met(m, cap, q) \o Walk(m, cap, After(m, cap, q), l - z)
        BY <1>4, <1>5, <3>1, <3>2, <3>4, <4>2, WalkUnfolds, Zenon
      <4>. QED BY <1>4, <4>3, <4>4
    <3>. QED BY <3>2, <3>3, <3>4
  <2>. QED BY <1>1, <1>7, <2>1
<1>8. n \in S
  BY <1>1, <1>6, <1>7, Climb
<1>. QED BY <1>1, <1>8

(* A walk meets cells, as many as there are; and their ids.                *)
LEMMA WalkType ==
    ASSUME NEW m, NEW cap, Segment(m, cap)
    PROVE  \A n \in 0..cap : \A p \in 0..(cap - 1) : Walk(m, cap, p, n) \in Seq(Cell)
<1>0. cap \in Nat
  BY DEF Segment
<1>1. PICK S : S = {k \in Nat : \A p \in 0..(cap - 1), l \in 0..cap :
                          l <= k => Walk(m, cap, p, l) \in Seq(Cell)}
  OBVIOUS
<1>2. ASSUME NEW p \in 0..(cap - 1) PROVE Met(m, cap, p) \in Seq(Cell)
  <2>1. m[p] \in Cell
    BY DEF Segment
  <2>. QED BY <2>1 DEF Met
<1>3. 0 \in S
  <2>0. 0 \in 0..cap
    BY <1>0
  <2>1. \A p \in 0..(cap - 1) : Walk(m, cap, p, 0) = <<>>
    BY <2>0, WalkUnfolds
  <2>2. \A l \in 0..cap : l <= 0 => l = 0
    BY <1>0
  <2>3. <<>> \in Seq(Cell)
    OBVIOUS
  <2>. QED BY <1>1, <2>1, <2>2, <2>3
<1>4. ASSUME NEW k \in Nat, k \in S PROVE k + 1 \in S
  <2>1. ASSUME NEW p \in 0..(cap - 1), NEW l \in 0..cap, l <= k + 1
        PROVE  Walk(m, cap, p, l) \in Seq(Cell)
    <3>1. PICK z \in Nat : z = Span(m, cap, p) /\ z >= 1
      BY SpanIs
    <3>2. l > z => l - z \in 0..cap /\ l - z <= k
      BY <1>0, <2>1, <3>1
    <3>3. l > z => Walk(m, cap, After(m, cap, p), l - z) \in Seq(Cell)
      BY <1>1, <1>4, <3>2, SpanIs
    <3>4. <<>> \in Seq(Cell) /\ (z >= l \/ l > z)
      BY <3>1
    <3>5. (IF z >= l THEN <<>> ELSE Walk(m, cap, After(m, cap, p), l - z)) \in Seq(Cell)
      BY <3>3, <3>4
    <3>6. Walk(m, cap, p, l) = IF l = 0 THEN <<>>
             ELSE Met(m, cap, p) \o (IF z >= l THEN <<>> ELSE Walk(m, cap, After(m, cap, p), l - z))
      BY <3>1, WalkUnfolds
    <3>7. PICK a \in Seq(Cell), b \in Seq(Cell) :
            /\ a = Met(m, cap, p)
            /\ b = IF z >= l THEN <<>> ELSE Walk(m, cap, After(m, cap, p), l - z)
      BY <1>2, <3>5
    <3>8. a \o b \in Seq(Cell)
      BY ConcatProperties
    <3>. QED BY <3>4, <3>6, <3>7, <3>8
  <2>. QED BY <1>1, <1>4, <2>1
<1>5. Nat \subseteq S
  BY <1>3, <1>4, Climb
<1>6. \A k \in 0..cap : k \in S /\ k <= k
  BY <1>0, <1>5
<1>. QED BY <1>1, <1>6

LEMMA IdsType == ASSUME NEW q \in Seq(Cell)
    PROVE  Ids(q) \in Seq(Nat) /\ Len(Ids(q)) = Len(q) /\ \A i \in 1..Len(q) : Ids(q)[i] = q[i].id
<1>1. Len(q) \in Nat /\ DOMAIN q = 1..Len(q)
  BY LenProperties
<1>2. \A i \in 1..Len(q) : q[i].id \in Nat
  <2>1. \A i \in 1..Len(q) : q[i] \in Cell
    BY ElementOfSeq
  <2>. QED BY <2>1 DEF Cell
<1>3. PICK n \in Nat : n = Len(q)
  BY <1>1
<1>4. Ids(q) = [i \in 1..n |-> q[i].id]
  BY <1>1, <1>3 DEF Ids
<1>5. [i \in 1..n |-> q[i].id] \in [1..n -> Nat]
  BY <1>2, <1>3
<1>6. PICK f \in [1..n -> Nat] : f = Ids(q)
  BY <1>4, <1>5
<1>7. f \in Seq(Nat) /\ Len(f) = n
  OBVIOUS
<1>. QED BY <1>3, <1>4, <1>6, <1>7

LEMMA IdsOfCat ==
    ASSUME NEW a \in Seq(Cell), NEW b \in Seq(Cell)
    PROVE  a \o b \in Seq(Cell) /\ Ids(a \o b) = Ids(a) \o Ids(b)
<1>1. PICK l \in Nat, n \in Nat : l = Len(a) /\ n = Len(b)
  BY LenProperties
<1>2. /\ a \o b \in Seq(Cell) /\ Len(a \o b) = Len(a) + Len(b)
      /\ \A i \in 1..(Len(a) + Len(b)) : (a \o b)[i] = IF i <= Len(a) THEN a[i] ELSE b[i - Len(a)]
  BY ConcatProperties
<1>3. PICK r \in Seq(Cell) : r = a \o b
  BY <1>2
<1>4. Len(r) = l + n /\ \A i \in 1..(l + n) : r[i] = IF i <= l THEN a[i] ELSE b[i - l]
  BY <1>1, <1>2, <1>3
<1>5. PICK u \in Seq(Nat), v \in Seq(Nat), w \in Seq(Nat) : u = Ids(a) /\ v = Ids(b) /\ w = Ids(r)
  BY IdsType
<1>6. /\ Len(u) = l /\ \A i \in 1..l : u[i] = a[i].id
      /\ Len(v) = n /\ \A i \in 1..n : v[i] = b[i].id
  BY <1>1, <1>5, IdsType
<1>7. Len(w) = l + n /\ \A i \in 1..(l + n) : w[i] = r[i].id
  BY <1>4, <1>5, IdsType
<1>8. /\ u \o v \in Seq(Nat) /\ Len(u \o v) = Len(u) + Len(v)
      /\ \A i \in 1..(Len(u) + Len(v)) : (u \o v)[i] = IF i <= Len(u) THEN u[i] ELSE v[i - Len(u)]
  BY ConcatProperties
<1>9. PICK t \in Seq(Nat) : t = u \o v
  BY <1>8
<1>10. Len(t) = l + n /\ \A i \in 1..(l + n) : t[i] = IF i <= l THEN u[i] ELSE v[i - l]
  BY <1>6, <1>8, <1>9
<1>11. ASSUME NEW i \in 1..(l + n) PROVE w[i] = t[i]
  <2>1. CASE i <= l
    <3>1. i \in 1..l
      BY <2>1
    <3>2. r[i] = a[i] /\ w[i] = r[i].id
      BY <1>4, <1>7, <2>1
    <3>3. t[i] = u[i]
      BY <1>10, <2>1
    <3>. QED BY <1>6, <3>1, <3>2, <3>3
  <2>2. CASE ~(i <= l)
    <3>1. i - l \in 1..n
      BY <2>2
    <3>. QED BY <1>4, <1>6, <1>7, <1>10, <2>2, <3>1
  <2>. QED BY <2>1, <2>2
<1>12. w = t
  BY <1>7, <1>10, <1>11, SeqEqual
<1>. QED BY <1>3, <1>5, <1>9, <1>12

LEMMA IdsOfOne ==
    ASSUME NEW c \in Cell, NEW q \in Seq(Cell), NEW o \in Seq(Nat)
    PROVE  Append(o, c.id) \o Ids(q) = o \o Ids(<<c>> \o q)
<1>1. c.id \in Nat /\ <<c>> \in Seq(Cell) /\ <<c.id>> \in Seq(Nat)
  BY DEF Cell
<1>2. Ids(<<c>>) = <<c.id>>
  BY <1>1 DEF Ids
<1>3. Ids(<<c>> \o q) = <<c.id>> \o Ids(q) /\ Ids(q) \in Seq(Nat)
  BY <1>1, <1>2, IdsOfCat, IdsType
<1>4. Append(o, c.id) = o \o <<c.id>>
  BY <1>1, AppendIsConcat
<1>5. PICK v \in Seq(Nat), x \in Seq(Nat) : v = Ids(q) /\ x = <<c.id>>
  BY <1>1, <1>3
<1>6. (o \o x) \o v = o \o (x \o v)
  <2>1. \A S : \A a, b, d \in Seq(S) : (a \o b) \o d = a \o (b \o d)
    BY ConcatAssociative, Zenon
  <2>. QED BY <1>5, <2>1
<1>. QED BY <1>3, <1>4, <1>5, <1>6

LEMMA PrefixOfCat ==
    ASSUME NEW o \in Seq(Nat), NEW v \in Seq(Nat) PROVE IsPrefix(o, o \o v)
<1>1. PICK l \in Nat, n \in Nat : l = Len(o) /\ n = Len(v)
  BY LenProperties
<1>2. /\ o \o v \in Seq(Nat) /\ Len(o \o v) = l + n
      /\ \A i \in 1..(l + n) : (o \o v)[i] = IF i <= l THEN o[i] ELSE v[i - l]
  BY <1>1, ConcatProperties
<1>3. PICK t \in Seq(Nat) : t = o \o v
  BY <1>2
<1>4. l <= Len(t) /\ \A i \in 1..l : t[i] = o[i]
  BY <1>1, <1>2, <1>3
<1>5. SubSeq(o, 1, l) = [i \in 1..l |-> o[i]] /\ SubSeq(t, 1, l) = [i \in 1..l |-> t[i]]
  BY <1>1, <1>4
<1>6. SubSeq(o, 1, l) = SubSeq(t, 1, l)
  BY <1>4, <1>5
<1>. QED BY <1>1, <1>3, <1>4, <1>6 DEF IsPrefix

-----------------------------------------------------------------------------
(* What a reader returned and what it will still meet is what was live     *)
(* when it entered the segment.                                            *)
Ahead == Walk(SegMem, SegCap, cursor.pos, cursor.remaining)
ReadInv ==
    /\ cursor.rd = "none" => out = <<>>
    /\ (cursor.rd # "none" /\ cursor.seg # "done" /\ ~lapped)
           => out \o Ids(Ahead) = snap /\ cursor.remaining <= SegCap

LEMMA CursorFits ==
    ASSUME RangeInv, cursor.seg # "done"
    PROVE  /\ Segment(SegMem, SegCap) /\ SegCap \in Nat
           /\ cursor.pos \in 0..(SegCap - 1) /\ cursor.remaining \in Nat
<1>1. cursor \in CursorType /\ cursor.pos < CapOf(cursor.seg)
  BY DEF RangeInv, TypeOK, ReaderOK
<1>2. CapOf(cursor.seg) \in Nat /\ cursor.seg \in {"boot", "roll"}
  BY <1>1, SizesAssumption DEF CapOf, CursorType
<1>3. Segment(SegMem, SegCap)
  BY <1>2, Segments DEF SegMem, SegCap, CapOf
<1>. QED BY <1>1, <1>2, <1>3 DEF SegCap, CursorType

(* Writes elsewhere in the memory do not change what a reader will meet.   *)
LEMMA AheadStays ==
    ASSUME RangeInv, RangeInv', ReadInv, UNCHANGED <<cursor, out, snap>>, lapped => lapped',
           (cursor.rd # "none" /\ cursor.seg # "done" /\ ~lapped /\ cursor.remaining > 0)
               => \E s, U, H : /\ s \in 0..(SegCap - 1) /\ U \in 0..SegCap
                               /\ Chain(SegMem, SegCap, s, U, H) /\ cursor.pos \in H
                               /\ Off(s, cursor.pos, SegCap) + cursor.remaining <= U
                               /\ \A p \in H : SegMem'[p] = SegMem[p]
    PROVE  ReadInv'
<1>. SUFFICES ASSUME cursor.rd # "none", cursor.seg # "done", ~lapped'
              PROVE  Ahead' = Ahead /\ SegCap' = SegCap
  BY DEF ReadInv
<1>1. /\ Segment(SegMem, SegCap) /\ SegCap \in Nat /\ SegCap' = SegCap
      /\ cursor.pos \in 0..(SegCap - 1) /\ cursor.remaining \in Nat
  BY CursorFits DEF SegCap
<1>2. Segment(SegMem', SegCap)
  <2>1. Segment(mem', RollCap) /\ Segment(bootMem', BootCap)
    BY SizesAssumption DEF RangeInv, TypeOK, MemOK, Segment
  <2>2. cursor.seg \in {"boot", "roll"}
    BY DEF RangeInv, TypeOK, ReaderOK, CursorType
  <2>. QED BY <2>1, <2>2 DEF SegMem, SegCap, CapOf
<1>3. PICK m, w, cap, p, r : /\ m = SegMem /\ w = SegMem' /\ cap = SegCap
                             /\ p = cursor.pos /\ r = cursor.remaining
  OBVIOUS
<1>4. Ahead = Walk(m, cap, p, r) /\ Ahead' = Walk(w, cap, p, r)
  BY <1>1, <1>3 DEF Ahead
<1>5. CASE r = 0
  <2>1. 0 \in 0..cap
    BY <1>1, <1>3
  <2>2. Walk(m, cap, p, 0) = <<>> /\ Walk(w, cap, p, 0) = <<>>
    BY <1>1, <1>2, <1>3, <2>1, WalkUnfolds
  <2>. QED BY <1>1, <1>4, <1>5, <2>2
<1>6. CASE r # 0
  <2>1. PICK s, U, H : /\ s \in 0..(cap - 1) /\ U \in 0..cap
                       /\ Chain(m, cap, s, U, H) /\ p \in H
                       /\ Off(s, p, cap) + r <= U
                       /\ \A q \in H : w[q] = m[q]
    BY <1>1, <1>3, <1>6
  <2>2. Walk(w, cap, p, r) = Walk(m, cap, p, r)
    BY <1>1, <1>2, <1>3, <2>1, WalkFrame
  <2>. QED BY <1>1, <1>4, <2>2
<1>. QED BY <1>5, <1>6

(* What the writer stores falls outside of every place of the ring.        *)
LEMMA WriterSpares ==
    ASSUME StoreOK, AppendStep, NEW H, Chain(mem, RollCap, readStart, used - sz, H)
    PROVE  \A p \in H : mem'[p] = mem[p]
<1>0. /\ Segment(mem, RollCap) /\ readStart \in 0..(RollCap - 1) /\ used - sz \in 0..RollCap
      /\ RollCap \in Nat
  BY Segments, RollNumbers DEF StoreOK
<1>1. ASSUME NEW c \in Cell, writePos = Edge, used + Need(c.len) <= RollCap, sz = 0,
             writePos + Need(c.len) <= RollCap, mem' = Put(mem, writePos, c)
      PROVE  \A p \in H : mem'[p] = mem[p]
  <2>1. PICK U : U = used - sz
    OBVIOUS
  <2>2. writePos = Wrap(readStart + U, RollCap) /\ U + Need(c.len) <= RollCap
    BY <1>1, <2>1, RollNumbers DEF Edge, StoreOK
  <2>. QED BY <1>0, <1>1, <2>1, <2>2, PutBeyond
<1>2. CASE WriteRecord
  <2>1. /\ pc = "write" /\ mem' = Put(mem, writePos, Record(seq + 1, len))
        /\ sz = 0 /\ writePos = Edge
    BY <1>2 DEF StoreOK, StoreInv, WriteRecord
  <2>2. used + Need(len) <= RollCap /\ writePos + Need(len) <= RollCap
    BY <2>1 DEF StoreOK, RangeInv, RoomInv
  <2>3. Record(seq + 1, len) \in Cell /\ Record(seq + 1, len).len = len
    BY SizesAssumption DEF StoreOK, RangeInv, TypeOK, CountersOK, WriterOK, Record, Cell
  <2>. QED BY <1>1, <2>1, <2>2, <2>3
<1>3. CASE WriteFiller
  <2>1. /\ pc = "filler" /\ mem' = IF gap >= Hdr THEN Put(mem, writePos, Filler) ELSE mem
        /\ sz = 0 /\ writePos = Edge /\ gap = RollCap - writePos
    BY <1>3 DEF StoreOK, StoreInv, WriteFiller
  <2>2. used + gap <= RollCap /\ used \in Nat /\ gap \in Nat /\ writePos \in Nat /\ RollCap \in Nat
    BY <2>1, RollNumbers DEF StoreOK, RangeInv, RoomInv, TypeOK, WriterOK
  <2>3. Filler \in Cell /\ Need(Filler.len) = Hdr
    BY SizesAssumption DEF Filler, Cell, Need, Hdr
  <2>4. CASE gap >= Hdr
    <3>1. used + Hdr <= RollCap /\ writePos + Hdr <= RollCap
      BY <2>1, <2>2, <2>4 DEF Hdr
    <3>. QED BY <1>1, <2>1, <2>3, <2>4, <3>1
  <2>. QED BY <2>1, <2>4
<1>4. CASE ~WriteRecord /\ ~WriteFiller
  <2>1. mem' = mem
    BY <1>4 DEF AppendStep, AppendStart, EvictDone, EvictSalvage, EvictAdvance, EvictRelease,
       GapUsed, GapWrap, AdvanceWritePos, FinishAppend, region
  <2>. QED BY <2>1
<1>. QED BY <1>2, <1>3, <1>4

LEMMA WriterAndReads ==
    ASSUME StoreOK, ReadInv, AppendStep PROVE ReadInv'
<1>1. UNCHANGED <<bootMem, cursor, out, snap>>
  BY DEF AppendStep, AppendStart, EvictDone, EvictSalvage, EvictAdvance, EvictRelease,
         WriteFiller, GapUsed, GapWrap, WriteRecord, AdvanceWritePos, FinishAppend,
         region, reader
<1>2. lapped => lapped'
  BY DEF AppendStep, AppendStart, EvictDone, EvictSalvage, EvictAdvance, EvictRelease,
         WriteFiller, GapUsed, GapWrap, WriteRecord, AdvanceWritePos, FinishAppend, reader
<1>3. RangeInv /\ RangeInv'
  BY WriterKeepsRange, WriterKeepsRest DEF StoreOK, RangeInv, TypeOK
<1>4. PICK H : /\ Chain(mem, RollCap, readStart, used - sz, H)
               /\ At(cursor, lapped, "roll", readStart, used - sz, RollCap, H)
  BY DEF StoreOK, RollChain, InOrder
<1>5. PICK B : /\ Chain(bootMem, BootCap, 0, bootUsed, B)
               /\ At(cursor, lapped, "boot", 0, bootUsed, BootCap, B)
  BY DEF StoreOK, BootChain, InOrder
<1>6. /\ Segment(mem, RollCap) /\ readStart \in 0..(RollCap - 1) /\ used - sz \in 0..RollCap
      /\ RollCap \in Nat
  BY Segments, RollNumbers DEF StoreOK
<1>7. \A p \in H : mem'[p] = mem[p]
  BY <1>4, WriterSpares
<1>8. ASSUME cursor.rd # "none", cursor.seg # "done", ~lapped, cursor.remaining > 0
      PROVE  \E s, U, K : /\ s \in 0..(SegCap - 1) /\ U \in 0..SegCap
                          /\ Chain(SegMem, SegCap, s, U, K) /\ cursor.pos \in K
                          /\ Off(s, cursor.pos, SegCap) + cursor.remaining <= U
                          /\ \A p \in K : SegMem'[p] = SegMem[p]
  <2>1. cursor.seg \in {"boot", "roll"}
    BY <1>3, <1>8 DEF RangeInv, TypeOK, ReaderOK, CursorType
  <2>2. CASE cursor.seg = "roll"
    <3>1. SegMem = mem /\ SegMem' = mem' /\ SegCap = RollCap
      BY <1>1, <2>2 DEF SegMem, SegCap, CapOf
    <3>2. cursor.pos \in H /\ Off(readStart, cursor.pos, RollCap) + cursor.remaining <= used - sz
      BY <1>4, <1>8, <2>2 DEF At
    <3>. QED BY <1>4, <1>6, <1>7, <3>1, <3>2
  <2>3. CASE cursor.seg = "boot"
    <3>1. SegMem = bootMem /\ SegMem' = bootMem /\ SegCap = BootCap
      BY <1>1, <2>3 DEF SegMem, SegCap, CapOf
    <3>2. cursor.pos \in B /\ Off(0, cursor.pos, BootCap) + cursor.remaining <= bootUsed
      BY <1>5, <1>8, <2>3 DEF At
    <3>3. 0 \in 0..(BootCap - 1) /\ bootUsed \in 0..BootCap
      BY <1>3, SizesAssumption DEF RangeInv, TypeOK, RingOK, Hdr
    <3>. QED BY <1>5, <3>1, <3>2, <3>3
  <2>. QED BY <2>1, <2>2, <2>3
<1>. QED BY <1>1, <1>2, <1>3, <1>8, AheadStays

(* A turn of the reader: it passes over a filler, or returns the record.   *)
LEMMA TurnReads ==
    ASSUME StoreOK, ReadInv, SkipTail \/ TakeRecord PROVE ReadInv'
<1>0. cursor \in CursorType /\ out \in Seq(Nat)
  BY DEF StoreOK, RangeInv, TypeOK, ReaderOK
<1>1. Looping /\ cursor.remaining > 0 /\ cursor.rd # "none" /\ cursor.seg # "done"
  BY DEF SkipTail, TakeRecord, Readable, Looping
<1>2. /\ UNCHANGED <<mem, bootMem, snap, lapped>> /\ cursor'.seg = cursor.seg
      /\ cursor'.rd # "none"
  BY <1>0, <1>1 DEF SkipTail, TakeRecord, CursorType, region
<1>. SUFFICES ASSUME ~lapped
              PROVE  out' \o Ids(Ahead') = snap /\ cursor'.remaining <= SegCap'
  BY <1>2 DEF ReadInv
<1>3. PICK H : /\ Chain(SegMem, SegCap, SegStart, SegUsed, H)
               /\ cursor.pos \in H
               /\ Off(SegStart, cursor.pos, SegCap) + cursor.remaining <= SegUsed
  BY <1>1, InSegment
<1>4. /\ Segment(SegMem, SegCap) /\ SegStart \in 0..(SegCap - 1)
      /\ SegUsed \in 0..SegCap /\ SegCap \in Nat
  BY <1>1, InSegment
<1>5. PICK m, cap, p, r, z : /\ m = SegMem /\ cap = SegCap /\ p = cursor.pos
                             /\ r = cursor.remaining /\ z = Span(m, cap, p)
  OBVIOUS
<1>6. r \in Nat /\ r > 0
  BY <1>0, <1>1, <1>5 DEF CursorType
<1>7. p \in 0..(cap - 1) /\ z \in Nat /\ z >= 1 /\ r <= cap /\ cap \in Nat
  BY <1>3, <1>4, <1>5, <1>6, ReaderMoves
<1>8. p > cap - Hdr \/ m[p].k # "junk"
  BY <1>3, <1>4, <1>5, <1>6, ReaderMoves
<1>9. PICK q, k : q = After(m, cap, p) /\ k = Monus(r, z)
  OBVIOUS
<1>10. cursor'.pos = q /\ cursor'.remaining = k
  BY <1>5, <1>9, TurnPasses DEF Passed
<1>11. SegMem' = m /\ SegCap' = cap
  BY <1>2, <1>5 DEF SegMem, SegCap
<1>12. Ahead' = Walk(m, cap, q, k)
  BY <1>10, <1>11 DEF Ahead
<1>13. q \in 0..(cap - 1) /\ k \in 0..cap
  BY <1>4, <1>5, <1>6, <1>7, <1>9, SpanIs DEF Monus
<1>14. Ahead = Met(m, cap, p) \o Walk(m, cap, q, k)
  <2>1. Ahead = Met(m, cap, p) \o (IF z >= r THEN <<>> ELSE Walk(m, cap, q, r - z))
    <3>1. r \in 0..cap /\ r # 0
      BY <1>6, <1>7
    <3>2. Walk(m, cap, p, r) = IF r = 0 THEN <<>>
             ELSE Met(m, cap, p) \o (IF z >= r THEN <<>> ELSE Walk(m, cap, q, r - z))
      BY <1>4, <1>5, <1>7, <1>9, <3>1, WalkUnfolds
    <3>. QED BY <1>5, <3>1, <3>2 DEF Ahead
  <2>2. CASE z >= r
    <3>1. k = 0
      BY <1>6, <1>7, <1>9, <2>2 DEF Monus
    <3>2. Walk(m, cap, q, k) = <<>>
      BY <1>4, <1>5, <1>13, <3>1, WalkUnfolds
    <3>. QED BY <2>1, <2>2, <3>2
  <2>3. CASE ~(z >= r)
    <3>1. k = r - z
      BY <1>6, <1>7, <1>9, <2>3 DEF Monus
    <3>. QED BY <2>1, <2>3, <3>1
  <2>. QED BY <2>2, <2>3
<1>15. PICK W \in Seq(Cell) : W = Walk(m, cap, q, k)
  BY <1>4, <1>5, <1>13, WalkType
<1>16. out \o Ids(Met(m, cap, p) \o W) = snap
  BY <1>1, <1>14, <1>15 DEF ReadInv
<1>17. out' \o Ids(W) = snap
  <2>1. CASE SkipTail
    <3>1. p > cap - Hdr \/ m[p].k = "wrap"
      BY <1>4, <1>5, <1>7, <1>8, <2>1, PlaceParses DEF SkipTail, InTail
    <3>2. Met(m, cap, p) = <<>>
      <4>1. CASE p > cap - Hdr
        BY <1>7, <4>1 DEF Met, Hdr
      <4>2. CASE m[p].k = "wrap"
        BY <4>2 DEF Met
      <4>. QED BY <3>1, <4>1, <4>2
    <3>3. <<>> \o W = W
      OBVIOUS
    <3>4. out' = out
      BY <2>1 DEF SkipTail
    <3>. QED BY <1>16, <3>2, <3>3, <3>4
  <2>2. CASE TakeRecord
    <3>1. PICK c \in ParsesAt(m, p) : c.k = "rec" /\ out' = Append(out, c.id)
      BY <1>5, <2>2 DEF TakeRecord
    <3>2. ~(p > cap - Hdr)
      BY <1>5, <2>2 DEF TakeRecord, InTail
    <3>3. c = m[p]
      BY <1>4, <1>5, <1>7, <1>8, <3>1, <3>2, PlaceParses
    <3>4. p <= cap - Hdr
      BY <1>7, <3>2 DEF Hdr
    <3>5. Met(m, cap, p) = <<c>>
      BY <3>1, <3>3, <3>4 DEF Met
    <3>6. c \in Cell
      BY <1>4, <1>5, <1>7, <3>3 DEF Segment
    <3>7. Append(out, c.id) \o Ids(W) = out \o Ids(<<c>> \o W)
      BY <1>0, <3>6, IdsOfOne
    <3>. QED BY <1>16, <3>1, <3>5, <3>7
  <2>. QED BY <2>1, <2>2
<1>. QED BY <1>10, <1>11, <1>12, <1>13, <1>15, <1>17

LEMMA EmptyIds == Ids(<<>>) = <<>>
<1>1. <<>> \in Seq(Cell)
  OBVIOUS
<1>2. PICK q \in Seq(Cell) : q = <<>> /\ Len(q) = 0
  BY <1>1
<1>3. PICK v \in Seq(Nat) : v = Ids(q) /\ Len(v) = 0
  BY <1>2, IdsType
<1>4. v = <<>>
  BY <1>3
<1>. QED BY <1>2, <1>3, <1>4

LEMMA ReaderAndReads ==
    ASSUME StoreOK, ReadInv, OpenRead \/ NextEnter \/ ReadStep PROVE ReadInv'
<1>0. cursor \in CursorType /\ UNCHANGED <<region, pc, len, gap, sz>>
  BY DEF StoreOK, RangeInv, TypeOK, ReaderOK, OpenRead, NextEnter, ReadStep, NextSegment,
         CheckOverrun, SkipTail, StopAtCorrupt, TakeRecord, EndRead, locals
<1>1. \A m, cap, p, n : Segment(m, cap) /\ p \in 0..(cap - 1) /\ n \in 0..cap
          => <<>> \o Ids(Walk(m, cap, p, n)) = Ids(Walk(m, cap, p, n))
  <2>1. \A v \in Seq(Nat) : <<>> \o v = v
    OBVIOUS
  <2>. QED BY <2>1, WalkType, IdsType
<1>2. CASE OpenRead
  <2>1. /\ cursor'.rd = "open" /\ cursor'.seg = "boot" /\ cursor'.pos = 0
        /\ cursor'.remaining = bootUsed
    BY <1>2 DEF OpenRead, NoCursor
  <2>2. out' = <<>> /\ snap' = Ids(Walk(bootMem, BootCap, 0, bootUsed))
    BY <1>2 DEF OpenRead, ReadInv, BootLive
  <2>3. SegMem' = bootMem /\ SegCap' = BootCap
    BY <1>0, <2>1 DEF SegMem, SegCap, CapOf, region
  <2>4. Ahead' = Walk(bootMem, BootCap, 0, bootUsed)
    BY <2>1, <2>3 DEF Ahead
  <2>5. Segment(bootMem, BootCap) /\ 0 \in 0..(BootCap - 1) /\ bootUsed \in 0..BootCap
    BY Segments, SizesAssumption DEF StoreOK, RangeInv, TypeOK, RingOK, Hdr
  <2>6. out' \o Ids(Ahead') = snap'
    BY <1>1, <2>2, <2>4, <2>5
  <2>7. bootUsed <= BootCap
    BY <2>5
  <2>. QED BY <2>1, <2>3, <2>6, <2>7 DEF ReadInv
<1>3. CASE NextEnter
  <2>1. /\ cursor.rd # "none" /\ cursor'.rd # "none" /\ cursor'.seg = cursor.seg
        /\ cursor'.pos = cursor.pos /\ cursor'.remaining = cursor.remaining
        /\ UNCHANGED <<out, snap, lapped>>
    BY <1>0, <1>3 DEF NextEnter, CursorType
  <2>2. SegMem' = SegMem /\ SegCap' = SegCap
    BY <1>0, <2>1 DEF SegMem, SegCap, region
  <2>3. Ahead' = Ahead
    BY <2>1, <2>2 DEF Ahead
  <2>. QED BY <2>1, <2>2, <2>3 DEF ReadInv
<1>4. CASE NextSegment
  <2>1. CASE cursor.seg = "boot"
    <3>1. /\ cursor'.seg = "roll" /\ cursor'.pos = readStart /\ cursor'.remaining = used
          /\ cursor'.rd # "none"
      BY <1>0, <1>4, <2>1 DEF NextSegment, CursorType, Looping
    <3>2. used - sz = used /\ used \in 0..RollCap /\ readStart \in 0..(RollCap - 1)
      BY <1>4, RollNumbers DEF StoreOK, ScheduleInv, StoreInv, NextSegment, Looping
    <3>3. out' = <<>> /\ snap' = Ids(Walk(mem, RollCap, readStart, used))
      BY <1>4, <2>1, <3>2 DEF NextSegment, RollLive
    <3>4. SegMem' = mem /\ SegCap' = RollCap
      BY <1>0, <3>1 DEF SegMem, SegCap, CapOf, region
    <3>5. Ahead' = Walk(mem, RollCap, readStart, used)
      BY <3>1, <3>4 DEF Ahead
    <3>6. out' \o Ids(Ahead') = snap' /\ used <= RollCap
      BY <1>1, <3>2, <3>3, <3>5, Segments DEF StoreOK
    <3>. QED BY <3>1, <3>4, <3>6 DEF ReadInv
  <2>2. CASE cursor.seg # "boot"
    <3>1. cursor'.seg = "done" /\ cursor'.rd # "none"
      BY <1>0, <1>4, <2>2 DEF NextSegment, CursorType, Looping
    <3>. QED BY <3>1 DEF ReadInv
  <2>. QED BY <2>1, <2>2
<1>5. CASE CheckOverrun \/ StopAtCorrupt
  <2>1. lapped' = lapped /\ cursor'.rd # "none"
    BY <1>0, <1>5 DEF CheckOverrun, StopAtCorrupt, CursorType, Looping, Readable
  <2>2. lapped
    BY <1>5, NoFalseAlarm, NeverCorrupt
  <2>. QED BY <2>1, <2>2 DEF ReadInv
<1>6. CASE SkipTail \/ TakeRecord
  BY <1>6, TurnReads
<1>7. CASE EndRead
  <2>1. cursor'.rd = "none" /\ out' = <<>>
    BY <1>7, NoCursorIs DEF EndRead
  <2>. QED BY <2>1 DEF ReadInv
<1>. QED BY <1>2, <1>3, <1>4, <1>5, <1>6, <1>7 DEF ReadStep

\* A boot record written past the used space leaves every record of it alone.
LEMMA BootFrame ==
    ASSUME NEW m, Segment(m, BootCap), NEW U \in 0..BootCap, NEW H,
           Chain(m, BootCap, 0, U, H), NEW i \in Nat, NEW l \in 0..MaxLen, U + Need(l) <= BootCap,
           NEW w, w = Put(m, U, Record(i, l))
    PROVE  \A p \in H : w[p] = m[p]
<1>1. PICK c : c = Record(i, l)
  OBVIOUS
<1>2. c \in Cell /\ c.len = l
  BY <1>1 DEF Record, Cell
<1>3. Need(l) \in Nat /\ Need(l) >= 2
  BY SizesAssumption DEF Need, Hdr
<1>4. BootCap \in Nat /\ 0 \in 0..(BootCap - 1) /\ U < BootCap
  BY <1>3, SizesAssumption
<1>5. U = Wrap(0 + U, BootCap)
  BY <1>4 DEF Wrap
<1>6. w = Put(m, U, c)
  BY <1>1
<1>. QED BY <1>2, <1>4, <1>5, <1>6, PutBeyond

LEMMA SinkAndReads ==
    ASSUME StoreOK, ReadInv, NEW l \in 0..MaxLen, SinkBoot(l) PROVE ReadInv'
<1>1. UNCHANGED <<mem, cursor, out, snap, lapped>>
  BY DEF SinkBoot, reader
<1>2. RangeInv /\ RangeInv'
  BY SinkKeepsRange DEF StoreOK
<1>3. PICK H : /\ Chain(mem, RollCap, readStart, used - sz, H)
               /\ At(cursor, lapped, "roll", readStart, used - sz, RollCap, H)
  BY DEF StoreOK, RollChain, InOrder
<1>4. PICK B : /\ Chain(bootMem, BootCap, 0, bootUsed, B)
               /\ At(cursor, lapped, "boot", 0, bootUsed, BootCap, B)
  BY DEF StoreOK, BootChain, InOrder
<1>5. /\ readStart \in 0..(RollCap - 1) /\ used - sz \in 0..RollCap
      /\ 0 \in 0..(BootCap - 1) /\ bootUsed \in 0..BootCap /\ seq + 1 \in Nat
  BY <1>2, RollNumbers, SizesAssumption
  DEF StoreOK, RangeInv, TypeOK, RingOK, CountersOK, Hdr
<1>6. \A p \in B : bootMem'[p] = bootMem[p]
  <2>1. bootMem' = Put(bootMem, bootUsed, Record(seq + 1, l)) /\ bootUsed + Need(l) <= BootCap
    BY DEF SinkBoot
  <2>2. PICK U \in 0..BootCap : U = bootUsed
    BY <1>5
  <2>3. PICK i \in Nat : i = seq + 1
    BY <1>5
  <2>4. Segment(bootMem, BootCap) /\ Chain(bootMem, BootCap, 0, U, B) /\ U + Need(l) <= BootCap
    BY <1>2, <1>4, <2>1, <2>2, Segments
  <2>5. bootMem' = Put(bootMem, U, Record(i, l))
    BY <2>1, <2>2, <2>3
  <2>. QED BY <2>4, <2>5, BootFrame
<1>7. ASSUME cursor.rd # "none", cursor.seg # "done", ~lapped, cursor.remaining > 0
      PROVE  \E s, U, K : /\ s \in 0..(SegCap - 1) /\ U \in 0..SegCap
                          /\ Chain(SegMem, SegCap, s, U, K) /\ cursor.pos \in K
                          /\ Off(s, cursor.pos, SegCap) + cursor.remaining <= U
                          /\ \A p \in K : SegMem'[p] = SegMem[p]
  <2>1. cursor.seg \in {"boot", "roll"}
    BY <1>2, <1>7 DEF RangeInv, TypeOK, ReaderOK, CursorType
  <2>2. CASE cursor.seg = "roll"
    <3>1. SegMem = mem /\ SegMem' = mem /\ SegCap = RollCap
      BY <1>1, <2>2 DEF SegMem, SegCap, CapOf
    <3>2. cursor.pos \in H /\ Off(readStart, cursor.pos, RollCap) + cursor.remaining <= used - sz
      BY <1>3, <1>7, <2>2 DEF At
    <3>. QED BY <1>3, <1>5, <3>1, <3>2
  <2>3. CASE cursor.seg = "boot"
    <3>1. SegMem = bootMem /\ SegMem' = bootMem' /\ SegCap = BootCap
      BY <1>1, <2>3 DEF SegMem, SegCap, CapOf
    <3>2. cursor.pos \in B /\ Off(0, cursor.pos, BootCap) + cursor.remaining <= bootUsed
      BY <1>4, <1>7, <2>3 DEF At
    <3>. QED BY <1>4, <1>5, <1>6, <3>1, <3>2
  <2>. QED BY <2>1, <2>2, <2>3
<1>. QED BY <1>1, <1>2, <1>7, AheadStays

LEMMA ReadInvStep == StoreOK /\ ReadInv /\ [Next]_vars => ReadInv'
<1>. SUFFICES ASSUME StoreOK, ReadInv, [Next]_vars PROVE ReadInv'
  OBVIOUS
<1>1. CASE Begin
  <2>1. cursor' = cursor /\ out' = out /\ cursor.rd = "none"
    BY <1>1 DEF Begin, reader, StoreOK, ScheduleInv
  <2>. QED BY <2>1 DEF ReadInv
<1>2. CASE \E l \in 0..MaxLen : SinkBoot(l)
  BY <1>2, SinkAndReads
<1>3. CASE \E l \in 0..MaxLen, early \in BOOLEAN : SinkRoll(l, early)
  <2>1. UNCHANGED <<mem, bootMem, cursor, out, snap, lapped>>
    BY <1>3 DEF SinkRoll, region, reader
  <2>. QED BY <2>1 DEF ReadInv, Ahead, SegMem, SegCap
<1>4. CASE AppendStep
  BY <1>4, WriterAndReads
<1>5. CASE OpenRead \/ NextEnter \/ ReadStep
  BY <1>5, ReaderAndReads
<1>6. CASE Restart \/ PowerCut
  <2>1. cursor'.rd = "none" /\ out' = <<>>
    BY <1>6, NoCursorIs DEF Restart, PowerCut
  <2>. QED BY <2>1 DEF ReadInv
<1>7. CASE UNCHANGED vars
  <2>1. UNCHANGED <<mem, bootMem, cursor, out, snap, lapped>>
    BY <1>7 DEF vars, region, reader
  <2>. QED BY <2>1 DEF ReadInv, Ahead, SegMem, SegCap
<1>. QED BY <1>1, <1>2, <1>3, <1>4, <1>5, <1>6, <1>7 DEF Next

(* A download not overtaken by eviction has returned, at every point, the  *)
(* first of the records that were in the segment when it got there; and    *)
(* all of them, once each, when there is nothing left to read: although it *)
(* is one critical section per record, with appends, evictions and wraps   *)
(* of the ring in between.                                                 *)
THEOREM ReadersAreFaithful == ASSUME TornCrash = FALSE PROVE Spec => []ReaderFaithful
<1>1. Init => StoreOK /\ ReadInv
  BY NoCursorIs, StoreOKInit DEF Init, ReadInv
<1>2. StoreOK /\ ReadInv /\ [Next]_vars => (StoreOK /\ ReadInv)'
  BY StoreOKStep, ReadInvStep
<1>3. StoreOK /\ ReadInv => ReaderFaithful
  <2>. SUFFICES ASSUME StoreOK, ReadInv, cursor.rd # "none", cursor.seg # "done", ~lapped
                PROVE  IsPrefix(out, snap) /\ (cursor.remaining = 0 => out = snap)
    BY DEF ReaderFaithful
  <2>1. out \o Ids(Ahead) = snap /\ cursor.remaining <= SegCap
    BY DEF ReadInv
  <2>2. /\ Segment(SegMem, SegCap) /\ SegCap \in Nat
        /\ cursor.pos \in 0..(SegCap - 1) /\ cursor.remaining \in Nat
    BY CursorFits DEF StoreOK
  <2>3. cursor.remaining \in 0..SegCap
    BY <2>1, <2>2
  <2>4. Ahead \in Seq(Cell)
    BY <2>2, <2>3, WalkType DEF Ahead
  <2>5. out \in Seq(Nat)
    BY DEF StoreOK, RangeInv, TypeOK, ReaderOK
  <2>6. PICK v \in Seq(Nat) : v = Ids(Ahead)
    BY <2>4, IdsType
  <2>7. IsPrefix(out, snap)
    BY <2>1, <2>5, <2>6, PrefixOfCat
  <2>8. ASSUME cursor.remaining = 0 PROVE out = snap
    <3>1. Ahead = <<>>
      BY <2>2, <2>3, <2>8, WalkUnfolds DEF Ahead
    <3>2. out \o <<>> = out
      BY <2>5
    <3>. QED BY <2>1, <3>1, <3>2, EmptyIds
  <2>. QED BY <2>7, <2>8
<1>. QED BY <1>1, <1>2, <1>3, PTL DEF Spec

-----------------------------------------------------------------------------
(* The sizes in a log, summed up.                                          *)
Summed(g, f, n) ==
    f \in [0..n -> Nat] /\ f[0] = 0 /\ \A k \in 1..n : f[k] = f[k - 1] + g[k]

LEMMA SumsExist ==
    ASSUME NEW L \in Nat, NEW g \in [1..L -> Nat]
    PROVE  \A n \in 0..L : \E f : Summed(g, f, n)
<1>1. PICK S : S = {n \in Nat : n <= L => \E f : Summed(g, f, n)}
  OBVIOUS
<1>2. 0 \in S
  <2>1. PICK f : f = [k \in 0..0 |-> 0]
    OBVIOUS
  <2>2. Summed(g, f, 0)
    BY <2>1 DEF Summed
  <2>. QED BY <1>1, <2>2
<1>3. ASSUME NEW n \in Nat, n \in S, n + 1 <= L PROVE \E f : Summed(g, f, n + 1)
  <2>1. PICK f : Summed(g, f, n)
    BY <1>1, <1>3
  <2>2. g[n + 1] \in Nat
    BY <1>3
  <2>3. PICK h : h = [k \in 0..(n + 1) |-> IF k = n + 1 THEN f[n] + g[n + 1] ELSE f[k]]
    OBVIOUS
  <2>4. h \in [0..(n + 1) -> Nat]
    BY <2>1, <2>2, <2>3 DEF Summed
  <2>5. ASSUME NEW k \in 1..(n + 1) PROVE h[k] = h[k - 1] + g[k]
    <3>1. k \in 0..(n + 1) /\ k - 1 \in 0..(n + 1) /\ k - 1 # n + 1
      BY <1>3
    <3>2. CASE k = n + 1
      <4>1. h[k] = f[n] + g[n + 1] /\ h[k - 1] = f[k - 1] /\ k - 1 = n
        BY <1>3, <2>3, <3>1, <3>2
      <4>. QED BY <3>2, <4>1
    <3>3. CASE k # n + 1
      <4>1. k \in 1..n
        BY <1>3, <3>3
      <4>. QED BY <2>1, <2>3, <3>1, <3>3, <4>1 DEF Summed
    <3>. QED BY <3>2, <3>3
  <2>6. h[0] = 0
    BY <2>1, <2>3 DEF Summed
  <2>. QED BY <2>4, <2>5, <2>6 DEF Summed
<1>4. \A n \in Nat : n \in S => n + 1 \in S
  BY <1>1, <1>3
<1>5. Nat \subseteq S
  BY <1>2, <1>4, Climb
<1>. QED BY <1>1, <1>5

Words(s) == History!TotalSize(Entries(s))

LEMMA EntriesIs ==
    ASSUME NEW s \in Seq(Cell)
    PROVE  /\ Len(Entries(s)) = Len(s) /\ DOMAIN Entries(s) = 1..Len(s)
           /\ \A k \in 1..Len(s) : /\ s[k] \in Cell
                                   /\ Entries(s)[k] = [id |-> s[k].id, size |-> Need(s[k].len)]
                                   /\ Need(s[k].len) \in Nat
<1>1. DOMAIN s = 1..Len(s) /\ Len(s) \in Nat
  OBVIOUS
<1>2. \A k \in 1..Len(s) : s[k] \in Cell
  OBVIOUS
<1>3. \A k \in 1..Len(s) : Entries(s)[k] = [id |-> s[k].id, size |-> Need(s[k].len)]
  BY <1>1 DEF Entries
<1>4. \A c \in Cell : Need(c.len) \in Nat
  BY SizesAssumption DEF Need, Cell, Hdr
<1>5. DOMAIN Entries(s) = 1..Len(s)
  BY <1>1 DEF Entries
<1>6. Len(Entries(s)) = Len(s)
  <2>1. Entries(s) = [k \in 1..Len(s) |-> [id |-> s[k].id, size |-> Need(s[k].len)]]
    BY <1>1 DEF Entries
  <2>. QED BY <1>1, <2>1
<1>. QED BY <1>2, <1>3, <1>4, <1>5, <1>6

LEMMA WordsIs ==
    ASSUME NEW s \in Seq(Cell), NEW g, g = [k \in 1..Len(s) |-> Need(s[k].len)]
    PROVE  \E f : Summed(g, f, Len(s)) /\ Words(s) = f[Len(s)]
<1>1. PICK L \in Nat : L = Len(s)
  OBVIOUS
<1>2. g \in [1..L -> Nat]
  BY <1>1, EntriesIs
<1>3. PICK e : e = Entries(s)
  OBVIOUS
<1>4. Len(e) = L /\ \A k \in 1..L : e[k].size = g[k]
  <2>1. Len(e) = L
    BY <1>1, <1>3, EntriesIs
  <2>2. ASSUME NEW k \in 1..L PROVE e[k].size = g[k]
    <3>1. e[k] = [id |-> s[k].id, size |-> Need(s[k].len)]
      BY <1>1, <1>3, EntriesIs
    <3>2. g[k] = Need(s[k].len)
      BY <1>1
    <3>. QED BY <3>1, <3>2
  <2>. QED BY <2>1, <2>2
<1>5. PICK f : f = CHOOSE v : v = [n \in 0..L |-> IF n = 0 THEN 0 ELSE v[n - 1] + e[n].size]
  OBVIOUS
<1>6. PICK h : Summed(g, h, L)
  <2>1. L \in 0..L
    BY <1>1
  <2>. QED BY <1>1, <1>2, <2>1, SumsExist
<1>7. h = [n \in 0..L |-> IF n = 0 THEN 0 ELSE h[n - 1] + e[n].size]
  <2>1. PICK v : v = [n \in 0..L |-> IF n = 0 THEN 0 ELSE h[n - 1] + e[n].size]
    OBVIOUS
  <2>2. ASSUME NEW n \in 0..L PROVE h[n] = v[n]
    <3>1. CASE n = 0
      BY <1>6, <2>1, <3>1 DEF Summed
    <3>2. CASE n # 0
      <4>1. n \in 1..L
        BY <1>1, <3>2
      <4>2. h[n] = h[n - 1] + g[n] /\ e[n].size = g[n]
        BY <1>4, <1>6, <4>1 DEF Summed
      <4>. QED BY <2>1, <3>2, <4>2
    <3>. QED BY <3>1, <3>2
  <2>3. h \in [0..L -> Nat]
    BY <1>6 DEF Summed
  <2>. QED BY <2>1, <2>2, <2>3
<1>8. f = [n \in 0..L |-> IF n = 0 THEN 0 ELSE f[n - 1] + e[n].size]
  BY <1>5, <1>7, Zenon
<1>9. f[0] = 0 /\ \A k \in 1..L : f[k] = f[k - 1] + g[k]
  <2>1. \A n \in 0..L : f[n] = IF n = 0 THEN 0 ELSE f[n - 1] + e[n].size
    BY <1>8
  <2>2. f[0] = 0 /\ \A k \in 1..L : k \in 0..L /\ k # 0
    BY <1>1, <2>1
  <2>. QED BY <1>4, <2>1, <2>2
<1>10. \A n \in 0..L : f[n] \in Nat
  <2>1. PICK S : S = {n \in Nat : n <= L => f[n] \in Nat}
    OBVIOUS
  <2>2. 0 \in S
    BY <1>9, <2>1
  <2>3. ASSUME NEW n \in Nat, n \in S PROVE n + 1 \in S
    <3>1. CASE n + 1 <= L
      <4>1. f[n + 1] = f[n] + g[n + 1] /\ g[n + 1] \in Nat /\ f[n] \in Nat
        <5>1. n + 1 \in 1..L /\ (n + 1) - 1 = n /\ n <= L
          BY <1>1, <2>3, <3>1
        <5>. QED BY <1>2, <1>9, <2>1, <2>3, <5>1
      <4>. QED BY <2>1, <4>1
    <3>. QED BY <2>1, <3>1
  <2>4. Nat \subseteq S
    BY <2>2, <2>3, Climb
  <2>. QED BY <2>1, <2>4
<1>11. f \in [0..L -> Nat]
  <2>1. PICK v : v = [n \in 0..L |-> f[n]]
    OBVIOUS
  <2>2. v = f
    BY <1>8, <2>1
  <2>. QED BY <1>10, <2>1, <2>2
<1>12. Words(s) = f[L]
  <2>1. Words(s) = History!TotalSize(e)
    BY <1>3 DEF Words
  <2>2. Len(e) = L
    BY <1>4
  <2>. QED BY <1>5, <2>1, <2>2, Zenon DEF History!TotalSize
<1>. QED BY <1>1, <1>9, <1>11, <1>12 DEF Summed

LEMMA WordsOfNone == Words(<<>>) = 0
<1>1. PICK g : g = [k \in 1..Len(<<>>) |-> Need(<<>>[k].len)]
  OBVIOUS
<1>2. PICK s : s = <<>> /\ s \in Seq(Cell)
  <2>1. PICK S : S = Cell
    OBVIOUS
  <2>2. <<>> \in Seq(S)
    OBVIOUS
  <2>. QED BY <2>1, <2>2
<1>3. PICK f : Summed(g, f, Len(s)) /\ Words(s) = f[Len(s)]
  BY <1>1, <1>2, WordsIs
<1>4. Len(s) = 0
  BY <1>2
<1>. QED BY <1>2, <1>3, <1>4 DEF Summed

(* One more record in front adds its words.                                *)
LEMMA WordsOfMore ==
    ASSUME NEW c \in Cell, NEW s \in Seq(Cell)
    PROVE  /\ Words(<<c>> \o s) = Need(c.len) + Words(s)
           /\ Words(s) \in Nat
<1>0. PICK C : C = Cell
  OBVIOUS
<1>1. PICK L \in Nat : L = Len(s)
  OBVIOUS
<1>2. PICK t : t = <<c>> \o s /\ t \in Seq(Cell)
  <2>1. c \in C /\ s \in Seq(C)
    BY <1>0
  <2>2. <<c>> \o s \in Seq(C)
    BY <2>1
  <2>. QED BY <1>0, <2>2
<1>3. Len(t) = L + 1 /\ t[1] = c /\ \A k \in 1..L : t[k + 1] = s[k]
  BY <1>1, <1>2
<1>4. PICK g : g = [k \in 1..Len(s) |-> Need(s[k].len)]
  OBVIOUS
<1>5. PICK h : h = [k \in 1..Len(t) |-> Need(t[k].len)]
  OBVIOUS
<1>6. PICK a : Summed(g, a, L) /\ Words(s) = a[L]
  BY <1>1, <1>4, WordsIs
<1>7. PICK b : Summed(h, b, L + 1) /\ Words(t) = b[L + 1]
  BY <1>2, <1>3, <1>5, WordsIs
<1>8. PICK n \in Nat : n = Need(c.len)
  BY SizesAssumption DEF Need, Cell, Hdr
<1>9. h[1] = n /\ \A k \in 1..L : h[k + 1] = g[k]
  BY <1>1, <1>3, <1>4, <1>5, <1>8
<1>10. PICK S : S = {k \in Nat : k <= L => b[k + 1] = n + a[k]}
  OBVIOUS
<1>11. 0 \in S
  BY <1>6, <1>7, <1>9, <1>10 DEF Summed
<1>12. ASSUME NEW k \in Nat, k \in S PROVE k + 1 \in S
  <2>1. CASE k + 1 <= L
    <3>0. /\ k <= L /\ k + 1 \in 1..L /\ k + 2 \in 1..(L + 1) /\ k \in 0..L
          /\ k + 1 \in 0..L /\ k + 1 \in 0..(L + 1) /\ k + 2 \in 0..(L + 1)
          /\ (k + 1) - 1 = k /\ (k + 2) - 1 = k + 1 /\ (k + 1) + 1 = k + 2
      BY <1>1, <1>12, <2>1
    <3>1. /\ b[k + 1] = n + a[k] /\ a[k + 1] = a[k] + g[k + 1]
          /\ b[k + 2] = b[k + 1] + h[k + 2] /\ h[k + 2] = g[k + 1]
      BY <1>6, <1>7, <1>9, <1>10, <1>12, <3>0 DEF Summed
    <3>2. a[k] \in Nat /\ b[k + 1] \in Nat /\ a[k + 1] \in Nat /\ b[k + 2] \in Nat
      BY <1>6, <1>7, <3>0 DEF Summed
    <3>3. g[k + 1] \in Nat
      BY <1>1, <1>4, <3>0, EntriesIs
    <3>4. (k + 1) + 1 = k + 2
      OBVIOUS
    <3>. QED BY <1>10, <3>1, <3>2, <3>3, <3>4
  <2>. QED BY <1>10, <2>1
<1>13. Nat \subseteq S
  BY <1>11, <1>12, Climb
<1>14. a[L] \in Nat
  BY <1>6 DEF Summed
<1>. QED BY <1>2, <1>6, <1>7, <1>8, <1>10, <1>13, <1>14

(* What the log keeps of a record.                                         *)
Kept == [id : Nat, size : Nat]

LEMMA EntriesType ==
    ASSUME NEW q \in Seq(Cell) PROVE Entries(q) \in Seq(Kept)
<1>1. PICK n \in Nat : n = Len(q)
  BY LenProperties
<1>2. \A k \in 1..n : Entries(q)[k] \in Kept
  <2>1. \A c \in Cell : c.id \in Nat
    BY DEF Cell
  <2>2. ASSUME NEW k \in 1..n
        PROVE  /\ Entries(q)[k] = [id |-> q[k].id, size |-> Need(q[k].len)]
               /\ q[k].id \in Nat /\ Need(q[k].len) \in Nat
    BY <1>1, <2>1, EntriesIs
  <2>3. \A i, z \in Nat : [id |-> i, size |-> z] \in Kept
    BY DEF Kept
  <2>. QED BY <2>2, <2>3
<1>3. Entries(q) = [k \in 1..n |-> Entries(q)[k]]
  <2>1. DOMAIN q = 1..n
    BY <1>1, LenProperties
  <2>. QED BY <2>1 DEF Entries
<1>4. PICK f \in [1..n -> Kept] : f = Entries(q)
  BY <1>2, <1>3
<1>. QED BY <1>4

LEMMA EntriesOfCat ==
    ASSUME NEW a \in Seq(Cell), NEW b \in Seq(Cell)
    PROVE  Entries(a \o b) = Entries(a) \o Entries(b)
<1>1. PICK l \in Nat, n \in Nat : l = Len(a) /\ n = Len(b)
  BY LenProperties
<1>2. /\ a \o b \in Seq(Cell) /\ Len(a \o b) = Len(a) + Len(b)
      /\ \A i \in 1..(Len(a) + Len(b)) : (a \o b)[i] = IF i <= Len(a) THEN a[i] ELSE b[i - Len(a)]
  BY ConcatProperties
<1>3. PICK r \in Seq(Cell) : r = a \o b
  BY <1>2
<1>4. Len(r) = l + n /\ \A i \in 1..(l + n) : r[i] = IF i <= l THEN a[i] ELSE b[i - l]
  BY <1>1, <1>2, <1>3
<1>5. PICK u \in Seq(Kept), v \in Seq(Kept), w \in Seq(Kept) :
        u = Entries(a) /\ v = Entries(b) /\ w = Entries(r)
  BY EntriesType
<1>6. /\ Len(u) = l /\ \A i \in 1..l : u[i] = [id |-> a[i].id, size |-> Need(a[i].len)]
      /\ Len(v) = n /\ \A i \in 1..n : v[i] = [id |-> b[i].id, size |-> Need(b[i].len)]
  BY <1>1, <1>5, EntriesIs
<1>7. Len(w) = l + n /\ \A i \in 1..(l + n) : w[i] = [id |-> r[i].id, size |-> Need(r[i].len)]
  BY <1>4, <1>5, EntriesIs
<1>8. /\ u \o v \in Seq(Kept) /\ Len(u \o v) = Len(u) + Len(v)
      /\ \A i \in 1..(Len(u) + Len(v)) : (u \o v)[i] = IF i <= Len(u) THEN u[i] ELSE v[i - Len(u)]
  BY ConcatProperties
<1>9. PICK t \in Seq(Kept) : t = u \o v
  BY <1>8
<1>10. Len(t) = l + n /\ \A i \in 1..(l + n) : t[i] = IF i <= l THEN u[i] ELSE v[i - l]
  BY <1>6, <1>8, <1>9
<1>11. ASSUME NEW i \in 1..(l + n) PROVE w[i] = t[i]
  <2>1. CASE i <= l
    <3>1. i \in 1..l
      BY <2>1
    <3>2. r[i] = a[i] /\ w[i] = [id |-> r[i].id, size |-> Need(r[i].len)]
      BY <1>4, <1>7, <2>1
    <3>3. t[i] = u[i]
      BY <1>10, <2>1
    <3>. QED BY <1>6, <3>1, <3>2, <3>3
  <2>2. CASE ~(i <= l)
    <3>1. i - l \in 1..n
      BY <2>2
    <3>2. r[i] = b[i - l] /\ w[i] = [id |-> r[i].id, size |-> Need(r[i].len)]
      BY <1>4, <1>7, <2>2
    <3>3. t[i] = v[i - l]
      BY <1>10, <2>2
    <3>. QED BY <1>6, <3>1, <3>2, <3>3
  <2>. QED BY <2>1, <2>2
<1>12. w = t
  BY <1>7, <1>10, <1>11, SeqEqual
<1>. QED BY <1>3, <1>5, <1>9, <1>12

(* A record at either end of what is kept.                                 *)
LEMMA EntriesOfOne ==
    ASSUME NEW c \in Cell, NEW q \in Seq(Cell), NEW e, e = [id |-> c.id, size |-> Need(c.len)]
    PROVE  /\ Entries(q \o <<c>>) = Append(Entries(q), e)
           /\ Entries(<<c>> \o q) # <<>> /\ Entries(q) = Tail(Entries(<<c>> \o q))
<1>1. PICK o \in Seq(Cell) : o = <<c>>
  <2>1. <<c>> \in Seq(Cell)
    OBVIOUS
  <2>. QED BY <2>1
<1>2. Entries(o) = <<e>>
  <2>1. DOMAIN o = {1} /\ o[1] = c
    BY <1>1
  <2>. QED BY <2>1 DEF Entries
<1>3. c.id \in Nat /\ Need(c.len) \in Nat
  BY SizesAssumption DEF Cell, Need, Hdr
<1>4. PICK K : K = Kept
  OBVIOUS
<1>5. e \in K
  BY <1>3, <1>4 DEF Kept
<1>6. PICK u \in Seq(K) : u = Entries(q)
  BY <1>4, EntriesType
<1>7. Entries(q \o o) = u \o <<e>> /\ Entries(o \o q) = <<e>> \o u
  BY <1>2, <1>6, EntriesOfCat
<1>8. u \o <<e>> = Append(u, e)
  BY <1>5, AppendIsConcat
<1>9. <<e>> \o u # <<>> /\ Tail(<<e>> \o u) = u
  <2>0. <<e>> \in Seq(K)
    BY <1>5
  <2>1. PICK t \in Seq(K) : t = <<e>> \o u
    BY <2>0, ConcatProperties
  <2>2. Len(t) = Len(u) + 1 /\ \A i \in 1..Len(u) : t[i + 1] = u[i]
    BY <1>5, <2>1
  <2>3. t # <<>> /\ Tail(t) \in Seq(K) /\ Len(Tail(t)) = Len(u)
    BY <2>2
  <2>4. \A i \in 1..Len(u) : Tail(t)[i] = u[i]
    BY <2>2
  <2>5. Tail(t) = u
    BY <2>3, <2>4, SeqEqual
  <2>. QED BY <2>1, <2>3, <2>5
<1>. QED BY <1>1, <1>6, <1>7, <1>8, <1>9

-----------------------------------------------------------------------------
(* A place on the walk of a chain, and the words that are left there.      *)
OnWay(s, U, cap, H, q, l) ==
    /\ q \in 0..(cap - 1) /\ l \in Nat /\ l <= U
    /\ IF l = 0 THEN q = Wrap(s + U, cap) ELSE q \in H /\ Off(s, q, cap) + l = U

LEMMA OnTheWay ==
    ASSUME NEW m, NEW cap, Segment(m, cap), NEW s \in 0..(cap - 1), NEW U \in 0..cap,
           NEW H, Chain(m, cap, s, U, H), NEW q, NEW l, OnWay(s, U, cap, H, q, l), l # 0
    PROVE  \E z \in 1..l :
              /\ z = Span(m, cap, q) /\ l \in 1..cap
              /\ Linked(m, cap, s, U, H, q) /\ m[q] \in Cell
              /\ OnWay(s, U, cap, H, After(m, cap, q), l - z)
<1>0. PICK z : z = Span(m, cap, q)
  OBVIOUS
<1>1. /\ q \in H /\ Off(s, q, cap) + l = U /\ q \in 0..(cap - 1) /\ l \in Nat /\ l >= 1
      /\ cap \in Nat /\ m[q] \in Cell
  BY DEF OnWay, Segment
<1>2. Linked(m, cap, s, U, H, q)
  BY <1>1 DEF Chain
<1>3. PICK d \in Nat : d = Off(s, q, cap)
  BY <1>1, OffIs
<1>4. z \in Nat /\ z >= 1 /\ After(m, cap, q) \in 0..(cap - 1) /\ After(m, cap, q) = Wrap(q + z, cap)
  BY <1>0, <1>1, SpanIs DEF After
<1>5. d + z <= U /\ d + l = U /\ (d + z < U => After(m, cap, q) \in H)
  BY <1>0, <1>1, <1>2, <1>3 DEF Linked
<1>6. z <= l /\ l - z \in Nat /\ l \in 1..cap /\ l - z <= U
  BY <1>1, <1>3, <1>4, <1>5
<1>7. /\ After(m, cap, q) = Wrap(s + (d + z), cap)
      /\ d + z < cap => Off(s, After(m, cap, q), cap) = d + z
  BY <1>1, <1>3, <1>4, <1>5, AfterOff
<1>8. OnWay(s, U, cap, H, After(m, cap, q), l - z)
  <2>1. CASE l - z = 0
    <3>1. d + z = U
      BY <1>1, <1>4, <1>5, <2>1
    <3>. QED BY <1>4, <1>6, <1>7, <2>1, <3>1 DEF OnWay
  <2>2. CASE l - z # 0
    <3>1. d + z < U /\ d + z < cap /\ (d + z) + (l - z) = U
      BY <1>1, <1>4, <1>5, <1>6, <2>2
    <3>. QED BY <1>4, <1>5, <1>6, <1>7, <2>2, <3>1 DEF OnWay
  <2>. QED BY <2>1, <2>2
<1>10. z \in 1..l
  BY <1>1, <1>4, <1>6
<1>. QED BY <1>0, <1>1, <1>2, <1>6, <1>8, <1>10

LEMMA WalkSteps ==
    ASSUME NEW m, NEW cap, Segment(m, cap), NEW q \in 0..(cap - 1), NEW l \in 1..cap,
           Span(m, cap, q) <= l
    PROVE  Walk(m, cap, q, l)
             = Met(m, cap, q) \o Walk(m, cap, After(m, cap, q), l - Span(m, cap, q))
<1>1. PICK z : z = Span(m, cap, q)
  OBVIOUS
<1>2. cap \in Nat /\ z \in Nat /\ After(m, cap, q) \in 0..(cap - 1)
  <2>1. cap \in Nat
    BY DEF Segment
  <2>. QED BY <1>1, <2>1, SpanIs
<1>3. l \in 0..cap /\ 0 \in 0..cap /\ l # 0 /\ (z >= l => l - z = 0)
  BY <1>1, <1>2
<1>4. Walk(m, cap, q, l) = Met(m, cap, q)
           \o (IF z >= l THEN <<>> ELSE Walk(m, cap, After(m, cap, q), l - z))
  BY <1>1, <1>3, WalkUnfolds
<1>5. Walk(m, cap, After(m, cap, q), 0) = <<>>
  BY <1>2, <1>3, WalkUnfolds
<1>. QED BY <1>1, <1>3, <1>4, <1>5

LEMMA WayStarts ==
    ASSUME NEW m, NEW cap, Segment(m, cap), NEW s \in 0..(cap - 1), NEW U \in 0..cap,
           NEW H, Chain(m, cap, s, U, H)
    PROVE  OnWay(s, U, cap, H, s, U)
<1>1. cap \in Nat /\ U \in Nat
  BY DEF Segment
<1>2. Off(s, s, cap) = 0
  BY <1>1, OffIs
<1>3. U # 0 => s \in H
  BY <1>1 DEF Chain
<1>4. U = 0 => s = Wrap(s + U, cap)
  BY <1>1 DEF Wrap
<1>. QED BY <1>1, <1>2, <1>3, <1>4 DEF OnWay

(* Three pieces of a walk, grouped either way.                             *)
LEMMA Regrouped ==
    ASSUME NEW C, NEW a \in Seq(C), NEW b \in Seq(C), NEW c \in Seq(C)
    PROVE  a \o (b \o c) = (a \o b) \o c
BY ConcatAssociative

(* The words counted past the end of a chain add what is met there.        *)
LEMMA WalkGrows ==
    ASSUME NEW m, NEW cap, Segment(m, cap), NEW s \in 0..(cap - 1), NEW U \in 0..cap,
           NEW H, Chain(m, cap, s, U, H), NEW e, e = Wrap(s + U, cap),
           NEW d, d = Span(m, cap, e), U + d <= cap
    PROVE  Walk(m, cap, s, U + d) = Walk(m, cap, s, U) \o Met(m, cap, e)
<1>1. PICK S : S = {k \in Nat : \A q \in 0..(cap - 1), l \in Nat :
                      l <= k /\ OnWay(s, U, cap, H, q, l)
                        => Walk(m, cap, q, l + d) = Walk(m, cap, q, l) \o Met(m, cap, e)}
  OBVIOUS
<1>2. cap \in Nat /\ U \in Nat /\ e \in 0..(cap - 1)
  BY DEF Segment, Wrap
<1>3. d \in Nat /\ d >= 1 /\ d \in 0..cap
  BY <1>2, SpanIs
<1>4. Met(m, cap, e) \in Seq(Cell) /\ \A q \in 0..(cap - 1) : Met(m, cap, q) \in Seq(Cell)
  <2>1. ASSUME NEW q \in 0..(cap - 1) PROVE Met(m, cap, q) \in Seq(Cell)
    <3>1. m[q] \in Cell
      BY DEF Segment
    <3>. QED BY <3>1 DEF Met
  <2>. QED BY <1>2, <2>1
<1>5. 0 \in S
  <2>1. ASSUME NEW q, NEW l \in Nat, l <= 0, OnWay(s, U, cap, H, q, l)
        PROVE  Walk(m, cap, q, l + d) = Walk(m, cap, q, l) \o Met(m, cap, e)
    <3>1. l = 0 /\ q = e /\ l + d = d /\ d # 0 /\ d >= d /\ 0 \in 0..cap
      BY <1>2, <1>3, <2>1 DEF OnWay
    <3>2. Walk(m, cap, e, d) = Met(m, cap, e) \o <<>> /\ Walk(m, cap, e, 0) = <<>>
      BY <1>2, <1>3, <3>1, WalkUnfolds
    <3>. QED BY <1>4, <3>1, <3>2, ConcatEmptySeq
  <2>. QED BY <1>1, <2>1
<1>6. ASSUME NEW k \in Nat, k \in S PROVE k + 1 \in S
  <2>1. ASSUME NEW q, NEW l \in Nat, l <= k + 1, OnWay(s, U, cap, H, q, l)
        PROVE  Walk(m, cap, q, l + d) = Walk(m, cap, q, l) \o Met(m, cap, e)
    <3>0. q \in 0..(cap - 1) /\ (l = 0 => l <= 0)
      BY <2>1 DEF OnWay
    <3>1. CASE l = 0
      BY <1>1, <1>5, <2>1, <3>1, <3>0
    <3>2. CASE l # 0
      <4>1. PICK z \in 1..l : /\ z = Span(m, cap, q) /\ l \in 1..cap
                              /\ OnWay(s, U, cap, H, After(m, cap, q), l - z)
        BY <2>1, <3>2, OnTheWay
      <4>2. PICK r \in 0..(cap - 1) :
              /\ r = After(m, cap, q) /\ l - z \in Nat /\ OnWay(s, U, cap, H, r, l - z)
              /\ Walk(m, cap, q, l) = Met(m, cap, q) \o Walk(m, cap, r, l - z)
        <5>1. Span(m, cap, q) <= l /\ After(m, cap, q) \in 0..(cap - 1) /\ l - z \in Nat
          BY <3>0, <4>1, SpanIs DEF OnWay
        <5>2. Walk(m, cap, q, l) = Met(m, cap, q) \o Walk(m, cap, After(m, cap, q), l - z)
          BY <3>0, <4>1, <5>1, WalkSteps
        <5>. QED BY <4>1, <5>1, <5>2
      <4>3. /\ l - z <= k /\ l <= U /\ l + d \in 0..cap /\ l + d # 0 /\ ~(z >= l + d)
            /\ (l + d) - z = (l - z) + d /\ l - z \in 0..cap
        <5>1. l <= U /\ z \in Nat /\ z >= 1 /\ z <= l
          BY <2>1, <4>1 DEF OnWay
        <5>. QED BY <1>2, <1>3, <2>1, <5>1
      <4>4. Walk(m, cap, q, l + d) = Met(m, cap, q) \o Walk(m, cap, r, (l - z) + d)
        BY <3>0, <4>1, <4>2, <4>3, WalkUnfolds
      <4>5. Walk(m, cap, r, (l - z) + d) = Walk(m, cap, r, l - z) \o Met(m, cap, e)
        BY <1>1, <1>6, <4>2, <4>3
      <4>6. PICK a \in Seq(Cell), b \in Seq(Cell), c \in Seq(Cell) :
              a = Met(m, cap, q) /\ b = Walk(m, cap, r, l - z) /\ c = Met(m, cap, e)
        BY <1>4, <3>0, <4>2, <4>3, WalkType
      <4>7. a \o (b \o c) = (a \o b) \o c
        <5>1. PICK C : C = Cell
          OBVIOUS
        <5>2. a \in Seq(C) /\ b \in Seq(C) /\ c \in Seq(C)
          BY <4>6, <5>1
        <5>3. a \o (b \o c) = (a \o b) \o c
          BY ONLY <5>2, Regrouped
        <5>. QED BY <5>3
      <4>. QED BY <4>2, <4>4, <4>5, <4>6, <4>7
    <3>. QED BY <3>1, <3>2
  <2>. QED BY <1>1, <1>6, <2>1
<1>7. Nat \subseteq S
  BY <1>5, <1>6, Climb
<1>8. OnWay(s, U, cap, H, s, U) /\ U <= U /\ U \in S
  BY <1>2, <1>7, WayStarts
<1>9. \A q \in 0..(cap - 1), l \in Nat : l <= U /\ OnWay(s, U, cap, H, q, l)
        => Walk(m, cap, q, l + d) = Walk(m, cap, q, l) \o Met(m, cap, e)
  BY <1>1, <1>8
<1>. QED BY <1>2, <1>8, <1>9

(* What is met at a place of a chain: nothing at the filler, or a record.  *)
LEMMA MetIs ==
    ASSUME NEW m, NEW cap, Segment(m, cap), NEW q \in 0..(cap - 1),
           q > cap - Hdr \/ m[q].k # "junk"
    PROVE  /\ Filled(m, cap, q) => Met(m, cap, q) = <<>> /\ Span(m, cap, q) = cap - q
           /\ ~Filled(m, cap, q) => /\ Met(m, cap, q) = <<m[q]>> /\ m[q] \in Cell
                                    /\ m[q].k = "rec" /\ Span(m, cap, q) = Need(m[q].len)
<1>1. m[q] \in Cell /\ cap \in Nat
  BY DEF Segment
<1>2. ASSUME Filled(m, cap, q) PROVE Met(m, cap, q) = <<>> /\ Span(m, cap, q) = cap - q
  <2>1. ~(q <= cap - Hdr) \/ m[q].k = "wrap"
    BY <1>1, <1>2 DEF Filled, Hdr
  <2>. QED BY <1>2, <2>1 DEF Met, Filled, Span
<1>3. ASSUME ~Filled(m, cap, q)
      PROVE  /\ Met(m, cap, q) = <<m[q]>> /\ m[q].k = "rec"
             /\ Span(m, cap, q) = Need(m[q].len)
  <2>1. q <= cap - Hdr /\ m[q].k = "rec"
    <3>1. ~(q > cap - Hdr) /\ m[q].k # "wrap"
      BY <1>3 DEF Filled
    <3>2. m[q].k # "junk"
      BY <3>1
    <3>3. m[q].k \in {"rec", "wrap", "junk"}
      BY <1>1 DEF Cell
    <3>4. q <= cap - Hdr
      BY <1>1, <3>1 DEF Hdr
    <3>. QED BY <3>1, <3>2, <3>3, <3>4
  <2>. QED BY <1>3, <2>1 DEF Met, Filled, Span
<1>. QED BY <1>1, <1>2, <1>3

(* The words of the records between two places are the words between them, *)
(* but for those of the filler, of which a ring has at most one.           *)
Fits(m, cap, s, q, l, w) ==
    /\ w \in Nat /\ w <= l /\ l - w < Need(MaxLen)
    /\ l # 0 /\ q < s => w = l

LEMMA PlaceFits ==
    ASSUME NEW m, NEW cap, Segment(m, cap), NEW s \in 0..(cap - 1), NEW U \in 0..cap,
           NEW H, NEW q \in 0..(cap - 1), Linked(m, cap, s, U, H, q),
           NEW l \in Nat, Off(s, q, cap) + l = U, NEW z \in 1..l, z = Span(m, cap, q),
           NEW v, Fits(m, cap, s, After(m, cap, q), l - z, v)
    PROVE  /\ Filled(m, cap, q) => Met(m, cap, q) = <<>> /\ Fits(m, cap, s, q, l, v)
           /\ ~Filled(m, cap, q) => /\ Met(m, cap, q) = <<m[q]>> /\ m[q] \in Cell
                                    /\ z = Need(m[q].len) /\ Fits(m, cap, s, q, l, z + v)
<1>1. m[q] \in Cell /\ cap \in Nat
  BY DEF Segment
<1>2. PICK b \in Nat : b = Need(MaxLen) /\ b >= 2
  BY SizesAssumption DEF Need, Hdr
<1>3. PICK d \in Nat : d = Off(s, q, cap)
  BY <1>1, OffIs
<1>4. d = (IF q >= s THEN q - s ELSE q + cap - s) /\ d + l = U
  BY <1>3 DEF Off
<1>5. q + z <= cap /\ d + z <= U
  BY <1>3 DEF Linked
<1>6. PICK r \in 0..(cap - 1) : r = After(m, cap, q) /\ r = IF q + z >= cap THEN q + z - cap ELSE q + z
  BY <1>1, SpanIs DEF After, Wrap
<1>7. v \in Nat /\ v <= l - z /\ (l - z) - v < b /\ (l - z # 0 /\ r < s => v = l - z)
  BY <1>2, <1>6 DEF Fits
<1>8. q > cap - Hdr \/ m[q].k # "junk"
  BY DEF Linked
<1>9. ASSUME Filled(m, cap, q) PROVE Met(m, cap, q) = <<>> /\ Fits(m, cap, s, q, l, v)
  <2>1. z = cap - q /\ cap - q < b
    BY <1>2, <1>9 DEF Filled, Span, Linked
  <2>2. Met(m, cap, q) = <<>>
    BY <1>9, <1>8, MetIs
  <2>3. q >= s
    BY <1>1, <1>4, <1>5, <2>1
  <2>4. r = 0
    BY <1>1, <1>6, <2>1
  <2>5. v = l - z
    <3>1. CASE l - z = 0
      BY <1>7, <3>1
    <3>2. CASE l - z # 0
      <4>1. s # 0
        BY <1>1, <1>4, <1>5, <2>1, <2>3, <3>2
      <4>. QED BY <1>7, <2>4, <3>2, <4>1
    <3>. QED BY <3>1, <3>2
  <2>6. v \in Nat /\ v <= l /\ l - v < b /\ ~(q < s)
    BY <1>1, <1>2, <1>7, <2>1, <2>3, <2>5
  <2>. QED BY <1>2, <2>2, <2>6 DEF Fits
<1>10. ASSUME ~Filled(m, cap, q)
      PROVE  /\ Met(m, cap, q) = <<m[q]>> /\ z = Need(m[q].len)
             /\ Fits(m, cap, s, q, l, z + v)
  <2>2. Met(m, cap, q) = <<m[q]>> /\ z = Need(m[q].len)
    BY <1>10, <1>8, MetIs
  <2>4. z + v \in Nat /\ z + v <= l /\ l - (z + v) < b
    BY <1>7
  <2>5. ASSUME l # 0, q < s PROVE z + v = l
    <3>1. CASE l - z = 0
      BY <1>7, <3>1
    <3>2. CASE l - z # 0
      <4>1. q + z < s
        BY <1>1, <1>4, <1>5, <2>5, <3>2
      <4>2. r < s
        BY <1>1, <1>6, <4>1
      <4>. QED BY <1>7, <3>2, <4>2
    <3>. QED BY <3>1, <3>2
  <2>. QED BY <1>2, <2>2, <2>4, <2>5 DEF Fits
<1>. QED BY <1>1, <1>9, <1>10

LEMMA WordsFit ==
    ASSUME NEW m, NEW cap, Segment(m, cap), NEW s \in 0..(cap - 1), NEW U \in 0..cap,
           NEW H, Chain(m, cap, s, U, H)
    PROVE  Fits(m, cap, s, s, U, Words(Walk(m, cap, s, U)))
<1>1. PICK S : S = {k \in Nat : \A q \in 0..(cap - 1), l \in Nat :
                      l <= k /\ OnWay(s, U, cap, H, q, l)
                        => Fits(m, cap, s, q, l, Words(Walk(m, cap, q, l)))}
  OBVIOUS
<1>2. cap \in Nat /\ U \in Nat /\ Need(MaxLen) \in Nat /\ Need(MaxLen) >= 2
  BY SizesAssumption DEF Segment, Need, Hdr
<1>3. ASSUME NEW q \in 0..(cap - 1) PROVE Fits(m, cap, s, q, 0, Words(Walk(m, cap, q, 0)))
  <2>1. 0 \in 0..cap
    BY <1>2
  <2>2. Walk(m, cap, q, 0) = <<>>
    BY <2>1, WalkUnfolds
  <2>3. Words(Walk(m, cap, q, 0)) = 0
    BY <2>2, WordsOfNone
  <2>. QED BY <1>2, <2>3 DEF Fits
<1>4. 0 \in S
  <2>1. \A l \in Nat : l <= 0 => l = 0
    OBVIOUS
  <2>. QED BY <1>1, <1>3, <2>1
<1>5. ASSUME NEW k \in Nat, k \in S PROVE k + 1 \in S
  <2>1. ASSUME NEW q \in 0..(cap - 1), NEW l \in Nat, l <= k + 1, OnWay(s, U, cap, H, q, l)
        PROVE  Fits(m, cap, s, q, l, Words(Walk(m, cap, q, l)))
    <3>1. CASE l = 0
      BY <1>3, <3>1
    <3>2. CASE l # 0
      <4>1. PICK z \in 1..l :
              /\ z = Span(m, cap, q) /\ l \in 1..cap
              /\ Linked(m, cap, s, U, H, q) /\ m[q] \in Cell
              /\ OnWay(s, U, cap, H, After(m, cap, q), l - z)
        BY <2>1, <3>2, OnTheWay
      <4>2. PICK r \in 0..(cap - 1), n \in Nat :
              r = After(m, cap, q) /\ n = l - z /\ n <= k /\ n \in 0..cap
        BY <1>2, <1>5, <2>1, <4>1 DEF OnWay
      <4>3. PICK t \in Seq(Cell) : t = Walk(m, cap, r, n)
        BY <4>2, WalkType
      <4>4. PICK v : v = Words(t)
        OBVIOUS
      <4>5. Fits(m, cap, s, r, n, v)
        BY <1>1, <1>5, <4>1, <4>2, <4>3, <4>4
      <4>6. Off(s, q, cap) + l = U
        BY <2>1, <3>2 DEF OnWay
      <4>7. /\ Filled(m, cap, q) => Met(m, cap, q) = <<>> /\ Fits(m, cap, s, q, l, v)
            /\ ~Filled(m, cap, q) => /\ Met(m, cap, q) = <<m[q]>> /\ m[q] \in Cell
                                     /\ z = Need(m[q].len) /\ Fits(m, cap, s, q, l, z + v)
        BY <2>1, <4>1, <4>2, <4>5, <4>6, PlaceFits
      <4>8. Walk(m, cap, q, l) = Met(m, cap, q) \o t
        <5>1. Span(m, cap, q) <= l
          BY <4>1
        <5>2. t = Walk(m, cap, After(m, cap, q), l - Span(m, cap, q))
          BY <4>1, <4>2, <4>3
        <5>. QED BY <4>1, <5>1, <5>2, WalkSteps
      <4>9. CASE Filled(m, cap, q)
        <5>1. <<>> \o t = t
          BY <4>3, ConcatEmptySeq
        <5>. QED BY <4>4, <4>7, <4>8, <4>9, <5>1
      <4>10. CASE ~Filled(m, cap, q)
        <5>1. Words(<<m[q]>> \o t) = z + v
          BY <4>3, <4>4, <4>7, <4>10, WordsOfMore
        <5>. QED BY <4>7, <4>8, <4>10, <5>1
      <4>. QED BY <4>9, <4>10
    <3>. QED BY <3>1, <3>2
  <2>. QED BY <1>1, <1>5, <2>1
<1>6. Nat \subseteq S
  BY <1>4, <1>5, Climb
<1>7. OnWay(s, U, cap, H, s, U) /\ U <= U /\ U \in S
  BY <1>2, <1>6, WayStarts
<1>. QED BY <1>1, <1>2, <1>7

-----------------------------------------------------------------------------
(* What the steps of the store are to its history.                         *)
LEMMA EmptyLog == Entries(<<>>) = <<>>
  BY DEF Entries

LEMMA NoWords ==
    ASSUME NEW m, NEW cap, Segment(m, cap), NEW p \in 0..(cap - 1)
    PROVE  Walk(m, cap, p, 0) = <<>>
<1>1. 0 \in 0..cap
  BY DEF Segment
<1>. QED BY <1>1, WalkUnfolds

(* Stores outside of its places leave what a segment holds as it was.      *)
LEMMA LiveFrame ==
    ASSUME NEW m, NEW w, NEW cap, Segment(m, cap), Segment(w, cap),
           NEW s \in 0..(cap - 1), NEW U \in 0..cap, NEW H, Chain(m, cap, s, U, H),
           \A p \in H : w[p] = m[p]
    PROVE  Walk(w, cap, s, U) = Walk(m, cap, s, U)
<1>1. CASE U = 0
  BY <1>1, NoWords
<1>2. CASE U # 0
  <2>1. cap \in Nat /\ U \in Nat
    BY DEF Segment
  <2>2. PICK p \in H : p = s
    BY <1>2, <2>1 DEF Chain
  <2>3. PICK n \in Nat : n = U
    BY <2>1
  <2>4. Off(s, p, cap) + n <= U
    BY <2>1, <2>2, <2>3, OffIs
  <2>5. Walk(w, cap, p, n) = Walk(m, cap, p, n)
    <3>1. /\ s \in 0..(cap - 1) /\ U \in 0..cap /\ n \in Nat /\ p \in H
          /\ \A q \in H : w[q] = m[q]
      BY <2>2, <2>3
    <3>. QED BY <2>4, <3>1, WalkFrame
  <2>. QED BY <2>2, <2>3, <2>5
<1>. QED BY <1>1, <1>2

(* A record stored where the words counted end, and counted.               *)
LEMMA RecordAdds ==
    ASSUME NEW m, NEW w, NEW cap, Segment(m, cap), Segment(w, cap),
           NEW s \in 0..(cap - 1), NEW U \in 0..cap, NEW H, Chain(m, cap, s, U, H),
           \A p \in H : w[p] = m[p], NEW e, e = Wrap(s + U, cap), NEW c \in Cell,
           c.k = "rec", w[e] = c, U + Need(c.len) <= cap, e + Need(c.len) <= cap,
           NEW v, v = U + Need(c.len)
    PROVE  Walk(w, cap, s, v) = Walk(m, cap, s, U) \o <<c>>
<1>1. cap \in Nat /\ U \in Nat /\ e \in 0..(cap - 1) /\ Need(c.len) >= 2 /\ Need(c.len) \in Nat
  <2>1. cap \in Nat /\ U \in Nat
    BY DEF Segment
  <2>2. e \in 0..(cap - 1)
    BY <2>1 DEF Wrap
  <2>3. c.len \in Nat
    BY SizesAssumption DEF Cell
  <2>. QED BY <2>1, <2>2, <2>3 DEF Need, Hdr
<1>2. e <= cap - Hdr
  BY <1>1 DEF Hdr
<1>3. Met(w, cap, e) = <<c>> /\ Span(w, cap, e) = Need(c.len)
  <2>1. ~(e > cap - Hdr)
    BY <1>1, <1>2 DEF Hdr
  <2>. QED BY <1>2, <2>1 DEF Met, Span
<1>4. Chain(w, cap, s, U, H)
  BY ChainFrame
<1>5. PICK d : d = Span(w, cap, e)
  OBVIOUS
<1>6. Walk(w, cap, s, U + d) = Walk(w, cap, s, U) \o Met(w, cap, e)
  BY <1>3, <1>4, <1>5, WalkGrows
<1>7. Walk(w, cap, s, U) = Walk(m, cap, s, U)
  BY LiveFrame
<1>. QED BY <1>3, <1>5, <1>6, <1>7

(* A filler counted.                                                       *)
LEMMA FillerAdds ==
    ASSUME NEW m, NEW cap, Segment(m, cap), NEW s \in 0..(cap - 1), NEW U \in 0..cap,
           NEW H, Chain(m, cap, s, U, H), NEW e, e = Wrap(s + U, cap),
           Filled(m, cap, e), U + (cap - e) <= cap, NEW v, v = U + (cap - e)
    PROVE  Walk(m, cap, s, v) = Walk(m, cap, s, U)
<1>1. cap \in Nat /\ U \in Nat /\ e \in 0..(cap - 1)
  BY DEF Segment, Wrap
<1>2. e > cap - Hdr \/ m[e].k # "junk"
  BY DEF Filled
<1>3. Met(m, cap, e) = <<>> /\ Span(m, cap, e) = cap - e
  BY <1>1, <1>2, MetIs
<1>4. PICK d : d = Span(m, cap, e)
  OBVIOUS
<1>5. Walk(m, cap, s, U + d) = Walk(m, cap, s, U) \o Met(m, cap, e)
  BY <1>3, <1>4, WalkGrows
<1>6. Walk(m, cap, s, U) \in Seq(Cell)
  BY <1>1, WalkType
<1>. QED BY <1>3, <1>4, <1>5, <1>6, ConcatEmptySeq

(* The records of both segments.                                           *)
LEMMA LiveTypes ==
    ASSUME StoreOK
    PROVE  /\ BootLive \in Seq(Cell) /\ RollLive \in Seq(Cell)
           /\ Segment(mem, RollCap) /\ Segment(bootMem, BootCap)
           /\ 0 \in 0..(BootCap - 1) /\ bootUsed \in 0..BootCap /\ bootUsed \in Nat
           /\ readStart \in 0..(RollCap - 1) /\ used - sz \in 0..RollCap /\ seq \in Nat
<1>1. Segment(mem, RollCap) /\ Segment(bootMem, BootCap)
  BY Segments DEF StoreOK
<1>2. /\ 0 \in 0..(BootCap - 1) /\ bootUsed \in 0..BootCap /\ bootUsed \in Nat /\ seq \in Nat
  BY SizesAssumption DEF StoreOK, RangeInv, TypeOK, RingOK, CountersOK, Hdr
<1>3. readStart \in 0..(RollCap - 1) /\ used - sz \in 0..RollCap
  BY RollNumbers DEF StoreOK
<1>4. BootLive \in Seq(Cell) /\ RollLive \in Seq(Cell)
  BY <1>1, <1>2, <1>3, WalkType DEF BootLive, RollLive
<1>. QED BY <1>1, <1>2, <1>3, <1>4

LEMMA NothingKept ==
    ASSUME UNCHANGED <<bootMem, bootUsed, mem, readStart, used, sz, seq>>
    PROVE  UNCHANGED History!hvars
  BY DEF History!hvars, BootLive, RollLive

LEMMA SegmentsNext ==
    ASSUME StoreOK' PROVE Segment(mem', RollCap) /\ Segment(bootMem', BootCap)
BY SizesAssumption DEF StoreOK, RangeInv, TypeOK, MemOK, Segment

(* A record of the boot window: kept in the boot log.                      *)
LEMMA SinkBootKeeps ==
    ASSUME StoreOK, StoreOK', NEW l \in 0..MaxLen, SinkBoot(l) PROVE History!KeepBoot
<1>1. /\ bootMem' = Put(bootMem, bootUsed, Record(seq + 1, l)) /\ bootUsed + Need(l) <= BootCap
      /\ bootUsed' = bootUsed + Need(l) /\ seq' = seq + 1
      /\ UNCHANGED <<mem, readStart, used, sz>>
  BY DEF SinkBoot, locals
<1>2. PICK B : Chain(bootMem, BootCap, 0, bootUsed, B)
  BY DEF StoreOK, BootChain, InOrder
<1>3. PICK c : c = Record(seq + 1, l)
  OBVIOUS
<1>4. c \in Cell /\ c.k = "rec" /\ c.len = l /\ c.id = seq + 1
  BY <1>3, LiveTypes DEF Record, Cell
<1>5. PICK n \in Nat : n = Need(l) /\ n >= 2 /\ n <= Need(MaxLen)
  BY SizesAssumption DEF Need, Hdr
<1>6. /\ bootUsed = Wrap(0 + bootUsed, BootCap) /\ BootCap \in Nat /\ bootUsed \in 0..BootCap
      /\ bootUsed \in Nat
  <2>1. BootCap \in Nat /\ bootUsed \in 0..BootCap /\ bootUsed \in Nat
    BY LiveTypes, SizesAssumption
  <2>2. bootUsed + n <= BootCap
    BY <1>1, <1>5
  <2>3. bootUsed < BootCap
    BY <1>5, <2>1, <2>2
  <2>. QED BY <2>1, <2>3 DEF Wrap
<1>7. (\A p \in B : bootMem'[p] = bootMem[p]) /\ bootMem'[bootUsed] = c
  <2>1. PICK m, U, e : m = bootMem /\ U = bootUsed /\ e = bootUsed
    OBVIOUS
  <2>2. /\ Segment(m, BootCap) /\ Chain(m, BootCap, 0, U, B) /\ 0 \in 0..(BootCap - 1)
        /\ U \in 0..BootCap /\ e = Wrap(0 + U, BootCap) /\ c \in Cell
        /\ U + Need(c.len) <= BootCap /\ e + Need(c.len) <= BootCap
    BY <1>1, <1>2, <1>4, <1>6, <2>1, LiveTypes
  <2>3. (\A p \in B : Put(m, e, c)[p] = m[p]) /\ Put(m, e, c)[e] = c
    BY <2>2, PutBeyond
  <2>. QED BY <1>1, <1>3, <2>1, <2>3
<1>8. Segment(bootMem', BootCap) /\ Segment(bootMem, BootCap)
  BY SegmentsNext, LiveTypes
<1>9. BootLive' = BootLive \o <<c>>
  <2>1. PICK w, v, U : w = bootMem' /\ v = bootUsed' /\ U = bootUsed /\ U \in 0..BootCap
    BY <1>6
  <2>2. /\ Segment(w, BootCap) /\ Chain(bootMem, BootCap, 0, U, B) /\ 0 \in 0..(BootCap - 1)
        /\ \A p \in B : w[p] = bootMem[p]
    BY <1>2, <1>7, <1>8, <2>1, LiveTypes
  <2>3. /\ U = Wrap(0 + U, BootCap) /\ w[U] = c /\ v = U + Need(c.len)
        /\ U + Need(c.len) <= BootCap
    BY <1>1, <1>4, <1>6, <1>7, <2>1
  <2>4. Walk(w, BootCap, 0, v) = Walk(bootMem, BootCap, 0, U) \o <<c>>
    <3>1. PICK m, s, cap : m = bootMem /\ s = 0 /\ cap = BootCap
      OBVIOUS
    <3>2. /\ Segment(m, cap) /\ Segment(w, cap) /\ s \in 0..(cap - 1) /\ U \in 0..cap
          /\ Chain(m, cap, s, U, B) /\ (\A p \in B : w[p] = m[p]) /\ c \in Cell /\ c.k = "rec"
      BY <1>4, <1>8, <2>1, <2>2, <3>1
    <3>3. /\ U = Wrap(s + U, cap) /\ w[U] = c /\ v = U + Need(c.len)
          /\ U + Need(c.len) <= cap
      BY <2>3, <3>1
    <3>4. Walk(w, cap, s, v) = Walk(m, cap, s, U) \o <<c>>
      BY <3>2, <3>3, RecordAdds
    <3>. QED BY <3>1, <3>4
  <2>. QED BY <2>1, <2>4 DEF BootLive
<1>10. Entries(BootLive') = Append(Entries(BootLive), [id |-> seq + 1, size |-> n])
  BY <1>4, <1>5, <1>9, LiveTypes, EntriesOfOne
<1>11. UNCHANGED Entries(RollLive)
  BY <1>1 DEF RollLive
<1>12. n \in 1..Need(MaxLen)
  BY <1>5, SizesAssumption DEF Need, Hdr
<1>. QED BY <1>1, <1>10, <1>11, <1>12 DEF History!KeepBoot

(* A boot: a boot log of its marker.                                       *)
LEMMA BeginBoots ==
    ASSUME StoreOK, StoreOK', Begin PROVE History!Boot
<1>1. /\ seq' = seq + 1 /\ bootMem' = Put(bootMem, 0, Record(seq', MarkerLen))
      /\ bootUsed' = Need(MarkerLen) /\ UNCHANGED <<mem, readStart, used, sz>>
  BY DEF Begin, StoreOK, ScheduleInv
<1>2. PICK c : c = Record(seq + 1, MarkerLen)
  OBVIOUS
<1>3. c \in Cell /\ c.k = "rec" /\ c.len = MarkerLen /\ c.id = seq + 1
  BY <1>2, LiveTypes, SizesAssumption DEF Record, Cell
<1>4. PICK n \in Nat : n = Need(MarkerLen) /\ n >= 2 /\ n <= Need(MaxLen) /\ n <= BootCap
  BY SizesAssumption DEF Need, Hdr
<1>5. PICK m, w, cap, s, U, H : /\ m = bootMem /\ w = bootMem' /\ cap = BootCap /\ s = 0 /\ U = 0
                                /\ H = {}
  OBVIOUS
<1>6. /\ cap \in Nat /\ s \in 0..(cap - 1) /\ U \in 0..cap /\ s = Wrap(s + U, cap)
  BY <1>5, SizesAssumption DEF Wrap, Hdr
<1>7. /\ Segment(m, cap) /\ Segment(w, cap) /\ Chain(m, cap, s, U, H) /\ \A p \in H : w[p] = m[p]
  BY <1>5, LiveTypes, SegmentsNext, EmptyChain
<1>8. w[s] = c
  <2>1. w = Put(m, 0, c) /\ 0 \in DOMAIN m
    BY <1>1, <1>2, <1>5, <1>6, <1>7 DEF Segment
  <2>. QED BY <1>5, <2>1 DEF Put
<1>9. Walk(w, cap, s, n) = Walk(m, cap, s, U) \o <<c>>
  <2>1. PICK e, v : e = s /\ v = n
    OBVIOUS
  <2>2. /\ e = Wrap(s + U, cap) /\ w[e] = c /\ v = U + Need(c.len)
        /\ U + Need(c.len) <= cap /\ e + Need(c.len) <= cap
    BY <1>3, <1>4, <1>5, <1>6, <1>8, <2>1
  <2>3. /\ Segment(m, cap) /\ Segment(w, cap) /\ s \in 0..(cap - 1) /\ U \in 0..cap
        /\ Chain(m, cap, s, U, H) /\ (\A p \in H : w[p] = m[p]) /\ c \in Cell /\ c.k = "rec"
    BY <1>3, <1>6, <1>7
  <2>4. Walk(w, cap, s, v) = Walk(m, cap, s, U) \o <<c>>
    BY <2>2, <2>3, RecordAdds
  <2>. QED BY <2>1, <2>4
<1>10. Walk(m, cap, s, U) = <<>>
  BY <1>5, <1>6, <1>7, NoWords
<1>11. BootLive' = <<>> \o <<c>>
  BY <1>1, <1>4, <1>5, <1>9, <1>10 DEF BootLive
<1>12. Entries(BootLive') = Append(<<>>, [id |-> seq + 1, size |-> n])
  <2>1. <<>> \in Seq(Cell)
    BY <1>6, <1>7, <1>10, WalkType
  <2>2. PICK q \in Seq(Cell) : q = <<>>
    BY <2>1
  <2>3. Entries(q \o <<c>>) = Append(Entries(q), [id |-> c.id, size |-> Need(c.len)])
    BY <1>3, EntriesOfOne
  <2>. QED BY <1>3, <1>4, <1>11, <2>2, <2>3, EmptyLog
<1>13. UNCHANGED Entries(RollLive)
  BY <1>1 DEF RollLive
<1>14. n \in 1..Need(MaxLen)
  BY <1>4, SizesAssumption DEF Need, Hdr
<1>15. Append(<<>>, [id |-> seq + 1, size |-> n]) = <<[id |-> seq + 1, size |-> n]>>
  OBVIOUS
<1>. QED BY <1>1, <1>12, <1>13, <1>14, <1>15 DEF History!Boot

(* An eviction: of the oldest record, when there is no room for one more   *)
(* and a filler; or of the filler.                                         *)
LEMMA EvictionLoses ==
    ASSUME StoreOK, EvictAdvance PROVE History!LoseOldest \/ UNCHANGED History!hvars
<1>1. PICK z : /\ z \in SizesAt(readStart) /\ sz' = z /\ readStart' = Wrap(readStart + z, RollCap)
  BY DEF EvictAdvance
<1>2. /\ MustEvict /\ UNCHANGED <<bootMem, bootUsed, mem, used, seq>>
      /\ pc \in {"evictGap", "evictNeed"}
  BY DEF EvictAdvance, MustEvict
<1>3. /\ sz = 0 /\ used > 0 /\ z = Span(mem, RollCap, readStart) /\ z \in 1..used
  BY <1>1, <1>2, SizesKnown
<1>4. PICK s, U : s = readStart /\ U = used
  OBVIOUS
<1>5. /\ Segment(mem, RollCap) /\ s \in 0..(RollCap - 1) /\ U \in 1..RollCap
      /\ RollCap \in Nat /\ used - sz = U
  BY <1>2, <1>3, <1>4, LiveTypes, RollNumbers DEF StoreOK
<1>6. PICK H : Chain(mem, RollCap, s, U, H)
  BY <1>4, <1>5 DEF StoreOK, RollChain, InOrder
<1>7. s > RollCap - Hdr \/ mem[s].k # "junk"
  BY <1>5, <1>6, <1>3, <1>4, ChainEvict
<1>8. PICK t \in Seq(Cell) : t = Walk(mem, RollCap, After(mem, RollCap, s), U - z)
  <2>1. After(mem, RollCap, s) \in 0..(RollCap - 1)
    BY <1>5, SpanIs
  <2>2. U - z \in 0..RollCap
    BY <1>3, <1>4, <1>5
  <2>. QED BY <1>5, <2>1, <2>2, WalkType
<1>9. RollLive' = t
  BY <1>1, <1>2, <1>3, <1>4, <1>8 DEF RollLive, After
<1>10. RollLive = Met(mem, RollCap, s) \o t
  <2>1. RollLive = Walk(mem, RollCap, s, U)
    BY <1>4, <1>5 DEF RollLive
  <2>2. Span(mem, RollCap, s) <= U /\ U - Span(mem, RollCap, s) = U - z
    BY <1>3, <1>4, <1>5
  <2>3. Walk(mem, RollCap, s, U)
          = Met(mem, RollCap, s) \o Walk(mem, RollCap, After(mem, RollCap, s), U - Span(mem, RollCap, s))
    BY <1>5, <2>2, WalkSteps
  <2>. QED BY <1>8, <2>1, <2>2, <2>3
<1>11. CASE Filled(mem, RollCap, s)
  <2>1. Met(mem, RollCap, s) = <<>>
    BY <1>5, <1>7, <1>11, MetIs
  <2>2. RollLive' = RollLive
    BY <1>8, <1>9, <1>10, <2>1, ConcatEmptySeq
  <2>. QED BY <1>2, <2>2 DEF History!hvars, BootLive
<1>12. CASE ~Filled(mem, RollCap, s)
  <2>1. PICK c \in Cell : Met(mem, RollCap, s) = <<c>>
    BY <1>5, <1>7, <1>12, MetIs
  <2>2. RollLive = <<c>> \o t
    BY <1>10, <2>1
  <2>3. Entries(RollLive) # <<>> /\ Entries(RollLive') = Tail(Entries(RollLive))
    BY <1>8, <1>9, <2>2, EntriesOfOne
  <2>4. PICK b \in Nat, v \in Nat : b = Need(MaxLen) /\ v = Words(RollLive) /\ U - v < b
    <3>1. Fits(mem, RollCap, s, s, U, Words(Walk(mem, RollCap, s, U)))
      <4>1. U \in 0..RollCap
        BY <1>5
      <4>. QED BY <1>5, <1>6, <4>1, WordsFit
    <3>2. Need(MaxLen) \in Nat
      BY SizesAssumption DEF Need, Hdr
    <3>. QED BY <1>4, <1>5, <3>1, <3>2 DEF Fits, RollLive
  <2>5. U + EvictTarget > RollCap
    BY <1>2, <1>4 DEF MustEvict
  <2>6. EvictTarget \in Nat /\ EvictTarget <= b
    <3>1. Need(len) \in Nat /\ Need(len) <= b
      BY <2>4, RollNumbers DEF StoreOK
    <3>2. pc = "evictGap" => gap \in Nat /\ gap < Need(len)
      <4>1. gap \in 0..RollCap
        BY DEF StoreOK, RangeInv, TypeOK, WriterOK
      <4>2. gap \in Nat
        BY <1>5, <4>1
      <4>. QED BY <4>2 DEF StoreOK, StoreInv
    <3>. QED BY <3>1, <3>2 DEF EvictTarget
  <2>7. v + 2 * b > RollCap + 1
    BY <1>5, <2>4, <2>5, <2>6
  <2>8. UNCHANGED <<Entries(BootLive), seq>>
    BY <1>2 DEF BootLive
  <2>9. History!TotalSize(Entries(RollLive)) + 2 * Need(MaxLen) > RollCap + 1
    BY <2>4, <2>7 DEF Words
  <2>. QED BY <2>3, <2>8, <2>9 DEF History!LoseOldest
<1>. QED BY <1>11, <1>12

(* A record counted: it is in the rolling log, whose records fit.          *)
LEMMA FinishRolls ==
    ASSUME StoreOK, StoreOK', FinishAppend PROVE History!Roll
<1>1. /\ pc = "count" /\ used' = used + Need(len) /\ seq' = seq + 1
      /\ UNCHANGED <<bootMem, bootUsed, mem, readStart, sz>>
  BY DEF FinishAppend
<1>2. sz = 0 /\ mem[Edge] = Record(seq + 1, len) /\ Edge + Need(len) <= RollCap
  BY <1>1 DEF StoreOK, StoreInv
<1>3. used + Need(len) <= RollCap
  BY <1>1 DEF StoreOK, RangeInv, RoomInv
<1>4. PICK s, U, v, e : s = readStart /\ U = used /\ v = used' /\ e = Edge
  OBVIOUS
<1>5. /\ Segment(mem, RollCap) /\ s \in 0..(RollCap - 1) /\ U \in 0..RollCap
      /\ RollCap \in Nat /\ used - sz = U /\ e = Wrap(s + U, RollCap) /\ used \in Nat
  BY <1>2, <1>4, LiveTypes, RollNumbers DEF StoreOK, Edge
<1>6. PICK H : Chain(mem, RollCap, s, U, H)
  BY <1>4, <1>5 DEF StoreOK, RollChain, InOrder
<1>7. PICK c : c = Record(seq + 1, len)
  OBVIOUS
<1>8. c \in Cell /\ c.k = "rec" /\ c.len = len /\ c.id = seq + 1
  <2>1. len \in 0..MaxLen
    BY DEF StoreOK, RangeInv, TypeOK, WriterOK
  <2>. QED BY <1>7, <2>1, LiveTypes DEF Record, Cell
<1>9. PICK n \in Nat : n = Need(len) /\ n >= 2 /\ n <= Need(MaxLen)
  BY RollNumbers DEF StoreOK
<1>10. RollLive' = RollLive \o <<c>>
  <2>1. /\ e = Wrap(s + U, RollCap) /\ mem[e] = c /\ v = U + Need(c.len)
        /\ U + Need(c.len) <= RollCap /\ e + Need(c.len) <= RollCap
    BY <1>1, <1>2, <1>3, <1>4, <1>5, <1>7, <1>8
  <2>2. PICK w : w = mem
    OBVIOUS
  <2>3. Walk(w, RollCap, s, v) = Walk(mem, RollCap, s, U) \o <<c>>
    <3>1. /\ Segment(mem, RollCap) /\ Segment(w, RollCap) /\ s \in 0..(RollCap - 1)
          /\ U \in 0..RollCap /\ Chain(mem, RollCap, s, U, H) /\ (\A p \in H : w[p] = mem[p])
          /\ c \in Cell /\ c.k = "rec" /\ w[e] = c
      BY <1>5, <1>6, <1>8, <2>1, <2>2
    <3>. QED BY <2>1, <3>1, RecordAdds
  <2>4. used' - sz' = v
    BY <1>1, <1>2, <1>4, <1>5, <1>9
  <2>. QED BY <1>1, <1>4, <1>5, <2>2, <2>3, <2>4 DEF RollLive
<1>11. Entries(RollLive') = Append(Entries(RollLive), [id |-> seq + 1, size |-> n])
  BY <1>8, <1>9, <1>10, LiveTypes, EntriesOfOne
<1>12. History!TotalSize(Entries(RollLive')) <= RollCap
  <2>1. PICK K : Chain(mem', RollCap, readStart', used' - sz', K)
    BY DEF StoreOK, RollChain, InOrder
  <2>2. PICK m, r, W : m = mem' /\ r = readStart' /\ W = used' - sz'
    OBVIOUS
  <2>3. /\ Segment(m, RollCap) /\ r \in 0..(RollCap - 1) /\ W \in 0..RollCap
        /\ Chain(m, RollCap, r, W, K)
    <3>1. W = used + Need(len)
      BY <1>1, <1>2, <1>5, <1>9, <2>2
    <3>. QED BY <1>1, <1>3, <1>4, <1>5, <1>9, <2>1, <2>2, <3>1
  <2>4. Fits(m, RollCap, r, r, W, Words(Walk(m, RollCap, r, W)))
    BY <2>3, WordsFit
  <2>5. Words(RollLive') <= W /\ Words(RollLive') \in Nat
    BY <2>2, <2>4 DEF Fits, RollLive
  <2>6. PICK x : x = Words(RollLive')
    OBVIOUS
  <2>7. x <= RollCap
    BY <1>5, <2>3, <2>5, <2>6
  <2>. QED BY <2>6, <2>7 DEF Words
<1>13. UNCHANGED Entries(BootLive)
  BY <1>1 DEF BootLive
<1>14. n \in 1..Need(MaxLen)
  BY <1>9, SizesAssumption DEF Need, Hdr
<1>. QED BY <1>1, <1>11, <1>12, <1>13, <1>14 DEF History!Roll

(* The other steps of the writer change nothing that is kept.              *)
LEMMA WriterKeepsLog ==
    ASSUME StoreOK, StoreOK', AppendStep, ~EvictAdvance, ~FinishAppend
    PROVE  UNCHANGED History!hvars
<1>1. UNCHANGED <<bootMem, bootUsed, seq>>
  BY DEF AppendStep, AppendStart, EvictDone, EvictSalvage, EvictRelease, WriteFiller, GapUsed,
         GapWrap, WriteRecord, AdvanceWritePos, region
<1>2. UNCHANGED BootLive
  BY <1>1 DEF BootLive
<1>3. UNCHANGED RollLive
  <2>1. CASE AppendStart \/ EvictDone \/ GapWrap \/ AdvanceWritePos
    <3>1. UNCHANGED <<mem, readStart, used, sz>>
      BY <2>1 DEF AppendStart, EvictDone, GapWrap, AdvanceWritePos, region
    <3>. QED BY <3>1 DEF RollLive
  <2>2. CASE EvictSalvage
    BY <2>2, NeverSalvages
  <2>3. CASE EvictRelease
    <3>1. used' = used - sz /\ sz' = 0 /\ UNCHANGED <<mem, readStart>>
      BY <2>3 DEF EvictRelease
    <3>2. used - sz \in 0..RollCap /\ RollCap \in Nat
      BY RollNumbers DEF StoreOK
    <3>3. used' - sz' = used - sz
      BY <3>1, <3>2
    <3>. QED BY <3>1, <3>3 DEF RollLive
  <2>4. CASE WriteFiller \/ WriteRecord
    <3>1. UNCHANGED <<readStart, used, sz>>
      BY <2>4 DEF WriteFiller, WriteRecord
    <3>2. PICK H : Chain(mem, RollCap, readStart, used - sz, H)
      BY DEF StoreOK, RollChain, InOrder
    <3>3. \A p \in H : mem'[p] = mem[p]
      BY <3>2, WriterSpares
    <3>4. PICK w, m, s, U : w = mem' /\ m = mem /\ s = readStart /\ U = used - sz
      OBVIOUS
    <3>5. /\ Segment(m, RollCap) /\ Segment(w, RollCap) /\ s \in 0..(RollCap - 1)
          /\ U \in 0..RollCap /\ Chain(m, RollCap, s, U, H) /\ \A p \in H : w[p] = m[p]
      BY <3>2, <3>3, <3>4, LiveTypes, SegmentsNext
    <3>6. Walk(w, RollCap, s, U) = Walk(m, RollCap, s, U)
      BY <3>5, LiveFrame
    <3>. QED BY <3>1, <3>4, <3>6 DEF RollLive
  <2>5. CASE GapUsed
    <3>1. pc = "gapUsed" /\ used' = used + gap /\ UNCHANGED <<mem, readStart, sz>>
      BY <2>5 DEF GapUsed
    <3>2. /\ sz = 0 /\ writePos = Edge /\ gap = RollCap - writePos
          /\ (gap < Hdr \/ mem[writePos].k = "wrap") /\ used + gap <= RollCap
      BY <3>1 DEF StoreOK, StoreInv, RangeInv, RoomInv
    <3>3. PICK s, U, e, v : s = readStart /\ U = used /\ e = Edge /\ v = used'
      OBVIOUS
    <3>4. /\ Segment(mem, RollCap) /\ s \in 0..(RollCap - 1) /\ U \in 0..RollCap
          /\ RollCap \in Nat /\ used - sz = U /\ e = Wrap(s + U, RollCap)
          /\ e \in 0..(RollCap - 1)
      BY <3>2, <3>3, LiveTypes, RollNumbers DEF StoreOK, Edge
    <3>5. PICK H : Chain(mem, RollCap, s, U, H)
      BY <3>3, <3>4 DEF StoreOK, RollChain, InOrder
    <3>6. Filled(mem, RollCap, e) /\ v = U + (RollCap - e) /\ U + (RollCap - e) <= RollCap
      BY <3>1, <3>2, <3>3, <3>4 DEF Filled, Hdr
    <3>7. Walk(mem, RollCap, s, v) = Walk(mem, RollCap, s, U)
      BY <3>4, <3>5, <3>6, FillerAdds
    <3>8. used' - sz' = v
      BY <3>1, <3>2, <3>3, <3>4, <3>6
    <3>. QED BY <3>1, <3>3, <3>4, <3>7, <3>8 DEF RollLive
  <2>. QED BY <2>1, <2>2, <2>3, <2>4, <2>5 DEF AppendStep
<1>. QED BY <1>1, <1>2, <1>3 DEF History!hvars

LEMMA PowerCutLoses ==
    ASSUME StoreOK', PowerCut PROVE History!PowerLoss
<1>1. bootUsed' = 0 /\ readStart' = 0 /\ used' = 0 /\ sz' = 0 /\ seq' = 0
  BY DEF PowerCut
<1>2. PICK m, w : m = mem' /\ w = bootMem'
  OBVIOUS
<1>3. Segment(m, RollCap) /\ Segment(w, BootCap) /\ 0 \in 0..(RollCap - 1) /\ 0 \in 0..(BootCap - 1)
  BY <1>2, SegmentsNext, SizesAssumption DEF Hdr
<1>4. Walk(m, RollCap, 0, 0) = <<>> /\ Walk(w, BootCap, 0, 0) = <<>>
  BY <1>3, NoWords
<1>5. 0 - 0 = 0
  OBVIOUS
<1>. QED BY <1>1, <1>2, <1>4, <1>5, EmptyLog DEF History!PowerLoss, BootLive, RollLive

LEMMA HistoryInit == Init => History!HInit
<1>. SUFFICES ASSUME Init PROVE History!HInit
  OBVIOUS
<1>1. bootUsed = 0 /\ readStart = 0 /\ used - sz = 0 /\ seq = 0
  BY DEF Init
<1>2. Segment(mem, RollCap) /\ Segment(bootMem, BootCap)
  BY StoreOKInit, LiveTypes
<1>3. 0 \in 0..(RollCap - 1) /\ 0 \in 0..(BootCap - 1)
  BY SizesAssumption DEF Hdr
<1>4. BootLive = <<>> /\ RollLive = <<>>
  BY <1>1, <1>2, <1>3, NoWords DEF BootLive, RollLive
<1>. QED BY <1>1, <1>4, EmptyLog DEF History!HInit

LEMMA HistoryStep ==
    ASSUME TornCrash = FALSE, StoreOK, StoreOK', [Next]_vars
    PROVE  [History!HNext]_(History!hvars)
<1>1. CASE Begin
  BY <1>1, BeginBoots DEF History!HNext
<1>2. CASE \E l \in 0..MaxLen : SinkBoot(l)
  BY <1>2, SinkBootKeeps DEF History!HNext
<1>3. CASE \E l \in 0..MaxLen, early \in BOOLEAN : SinkRoll(l, early)
  BY <1>3, NothingKept DEF SinkRoll, region
<1>4. CASE AppendStep
  <2>1. CASE EvictAdvance
    BY <2>1, EvictionLoses DEF History!HNext
  <2>2. CASE FinishAppend
    BY <2>2, FinishRolls DEF History!HNext
  <2>. QED BY <1>4, <2>1, <2>2, WriterKeepsLog
<1>5. CASE OpenRead \/ NextEnter \/ ReadStep
  <2>1. UNCHANGED <<bootMem, bootUsed, mem, readStart, used, sz, seq>>
    BY <1>5 DEF OpenRead, NextEnter, ReadStep, NextSegment, CheckOverrun, SkipTail,
                StopAtCorrupt, TakeRecord, EndRead, region, locals
  <2>. QED BY <2>1, NothingKept
<1>6. CASE Restart
  <2>1. sz = sz'
    BY <1>6 DEF Restart, StoreOK, StoreInv, ScheduleInv
  <2>. QED BY <1>6, <2>1, NothingKept DEF Restart, region
<1>7. CASE PowerCut
  BY <1>7, PowerCutLoses DEF History!HNext
<1>8. CASE UNCHANGED vars
  BY <1>8, NothingKept DEF vars, region, locals
<1>. QED BY <1>1, <1>2, <1>3, <1>4, <1>5, <1>6, <1>7, <1>8 DEF Next

(* The store keeps a history: a boot log that only grows while the boot    *)
(* lasts, and a rolling log that loses only its oldest record, only while  *)
(* a record is logged, and only when one more record and one wrap would    *)
(* not fit; restarts keep it.                                              *)
THEOREM StoreKeepsHistory == ASSUME TornCrash = FALSE PROVE Spec => ImplementsHistory
<1>1. Init => StoreOK /\ History!HInit
  BY StoreOKInit, HistoryInit
<1>2. StoreOK /\ [Next]_vars => StoreOK'
  BY StoreOKStep
<1>3. StoreOK /\ StoreOK' /\ [Next]_vars => [History!HNext]_(History!hvars)
  BY HistoryStep
<1>. QED BY <1>1, <1>2, <1>3, PTL DEF Spec, ImplementsHistory, History!HSpec
=============================================================================
