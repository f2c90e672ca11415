-------------------------- MODULE GenericDevice_proofs --------------------------
(***************************************************************************)
(* Proofs about GenericDevice, for every width of an offset, every limit   *)
(* of a group, every file and every timing of the bus.                     *)
(***************************************************************************)
EXTENDS GenericDevice, TLAPS, FiniteSetTheorems

Entry == [count : 1..MAX_GROUP_COUNT, storage : BOOLEAN, fields : SUBSET Fields]

-----------------------------------------------------------------------------
(* PhaseBounded.  The clock only runs while an entry is read, and a read   *)
(* begins only within the budget.                                          *)
LEMMA BudgetType == pollBudget \in Nat
BY DeviceAssumption DEF pollBudget, Clamp

LEMMA LoadKeepsClock == Load => UNCHANGED elapsed
BY DEF Load, parseRegisterDef, StartGroups, OpenGroup, parseField, CloseGroup, FinishLoad,
       Refuse, poll

ClockInv == elapsed \in Nat /\ PhaseBounded

LEMMA ClockStep == ClockInv /\ [Next]_vars => ClockInv'
<1> SUFFICES ASSUME ClockInv, [Next]_vars PROVE ClockInv'
  OBVIOUS
<1> USE BudgetType, DeviceAssumption DEF ClockInv
<1>1. pollBudget' = pollBudget
  BY DEF pollBudget, Clamp
<1>2. ASSUME UNCHANGED elapsed \/ elapsed' = 0 PROVE ClockInv'
  BY <1>1, <1>2 DEF PhaseBounded
<1>3. CASE ReadEntry
  <2>1. elapsed <= pollBudget
    BY <1>3 DEF ReadEntry, Expired
  <2>2. PICK time \in 0..FailTime : elapsed' = elapsed + time
    BY <1>3 DEF ReadEntry
  <2> QED
    BY <1>1, <2>1, <2>2 DEF PhaseBounded
<1>4. CASE OtherPhase \/ SkipEntry \/ EndPhase \/ PollEnds
  BY <1>2, <1>4 DEF OtherPhase, SkipEntry, EndPhase, PollEnds, poll
<1>5. CASE StartPoll \/ GoOn
  BY <1>2, <1>5 DEF StartPoll, GoOn, StartPhase
<1>6. CASE Load
  BY <1>2, <1>6, LoadKeepsClock
<1>7. CASE UNCHANGED vars
  BY <1>2, <1>7 DEF vars, poll
<1> QED
  BY <1>3, <1>4, <1>5, <1>6, <1>7 DEF Next, readPhase

(* However many entries time out, a phase is over its budget by one read   *)
(* at most, for every budget and every length of a read.                   *)
THEOREM PhaseTakesItsBudget == Spec => []PhaseBounded
<1>1. Init => ClockInv
  BY BudgetType, DeviceAssumption DEF Init, ClockInv, PhaseBounded
<1>2. ClockInv => PhaseBounded
  BY DEF ClockInv
<1> QED
  BY <1>1, <1>2, ClockStep, PTL DEF Spec

-----------------------------------------------------------------------------
(* FieldsAreSlices.  What is being parsed and what has been accepted.      *)
Sliced(g) ==
    \A f \in g.fields :
       /\ Words(f) \subseteq 0..(g.count - 1)
       /\ \A other \in g.fields \ {f} : Words(f) \cap Words(other) = {}

ParseInv ==
    /\ entries \in Seq(Entry)
    /\ group \in [count : 0..MAX_GROUP_COUNT, storage : BOOLEAN, fields : SUBSET Fields]
    /\ pc = "fields" => group.count \in 1..MAX_GROUP_COUNT
    /\ Sliced(group)
    /\ \A i \in 1..Len(entries) : Sliced(entries[i])

LEMMA CastInRange == \A written \in Nat : Cast(written) \in 0..(OFFSET_VALUES - 1)
BY DeviceAssumption DEF Cast

(* A field that fits and does not overlap leaves the group sliced.         *)
LEMMA FieldAdded ==
    ASSUME NEW g, Sliced(g), g.fields \in SUBSET Fields, g.count \in Nat,
           NEW f \in Fields, Fits(f, g.count), ~Overlaps(f, g),
           NEW h, h.count = g.count, h.fields = g.fields \cup {f}
    PROVE  Sliced(h)
<1>1. Words(f) \subseteq 0..(h.count - 1)
  BY DeviceAssumption DEF Fits, Words, Fields
<1>2. \A other \in g.fields : Words(f) \cap Words(other) = {}
  BY DEF Overlaps, Covered
<1>3. SUFFICES ASSUME NEW x \in h.fields
               PROVE  /\ Words(x) \subseteq 0..(h.count - 1)
                      /\ \A other \in h.fields \ {x} : Words(x) \cap Words(other) = {}
  BY DEF Sliced
<1>4. CASE x = f
  BY <1>1, <1>2, <1>4
<1>5. CASE x # f
  <2>1. x \in g.fields
    BY <1>5
  <2>2. Words(x) \subseteq 0..(h.count - 1)
    BY <2>1 DEF Sliced
  <2>3. \A other \in g.fields \ {x} : Words(x) \cap Words(other) = {}
    BY <2>1 DEF Sliced
  <2>4. Words(x) \cap Words(f) = {}
    BY <1>2, <2>1
  <2> QED
    BY <2>2, <2>3, <2>4
<1> QED
  BY <1>4, <1>5

(* A register is a group of one field.                                     *)
LEMMA RegisterSliced ==
    ASSUME NEW size \in 1..2, NEW g, g.count = size,
           g.fields = {[offset |-> 0, size |-> size]}
    PROVE  Sliced(g)
BY DEF Sliced, Words

LEMMA EntryAppended ==
    ASSUME ParseInv, NEW e \in Entry, Sliced(e), entries' = Append(entries, e)
    PROVE  entries' \in Seq(Entry) /\ \A i \in 1..Len(entries') : Sliced(entries'[i])
<1>1. entries' \in Seq(Entry) /\ Len(entries') = Len(entries) + 1
  BY DEF ParseInv
<1>2. ASSUME NEW i \in 1..Len(entries') PROVE Sliced(entries'[i])
  <2>1. CASE i = Len(entries) + 1
    <3>1. entries'[i] = e
      BY <2>1 DEF ParseInv
    <3> QED
      BY <3>1
  <2>2. CASE i # Len(entries) + 1
    <3>1. i \in 1..Len(entries) /\ entries'[i] = entries[i]
      BY <1>1, <2>2 DEF ParseInv
    <3> QED
      BY <3>1 DEF ParseInv
  <2> QED
    BY <2>1, <2>2
<1> QED
  BY <1>1, <1>2

LEMMA ParseKept ==
    ASSUME ParseInv, UNCHANGED <<entries, group>>, pc' = "fields" => pc = "fields"
    PROVE  ParseInv'
BY DEF ParseInv, Sliced

LEMMA FieldStep == ParseInv /\ parseField => ParseInv'
<1> SUFFICES ASSUME ParseInv, parseField PROVE ParseInv'
  OBVIOUS
<1>1. PICK written \in 0..(OFFSET_VALUES + MAX_GROUP_COUNT), size \in 1..2, seen \in BOOLEAN :
         LET f == [offset |-> Cast(written), size |-> size]
         IN  IF Fits(f, group.count) /\ ~Overlaps(f, group)
             THEN /\ group' = [group EXCEPT !.fields = @ \cup {f}]
                  /\ NameSeen(seen)
                  /\ UNCHANGED <<pc, schema, entries, healthy, poll>>
             ELSE Refuse
  BY DEF parseField
<1> DEFINE f == [offset |-> Cast(written), size |-> size]
<1>2. f \in Fields
  BY CastInRange, DeviceAssumption DEF Fields
<1> HIDE DEF f
<1>3. CASE Fits(f, group.count) /\ ~Overlaps(f, group)
  <2>1. group' = [group EXCEPT !.fields = @ \cup {f}] /\ UNCHANGED <<pc, entries>>
    BY <1>1, <1>3 DEF f
  <2>2. group'.count = group.count /\ group'.fields = group.fields \cup {f}
    BY <2>1 DEF ParseInv
  <2>3. Sliced(group')
    BY <1>2, <1>3, <2>2, FieldAdded, DeviceAssumption DEF ParseInv
  <2>4. group' \in [count : 0..MAX_GROUP_COUNT, storage : BOOLEAN, fields : SUBSET Fields]
    BY <1>2, <2>1 DEF ParseInv
  <2> QED
    BY <2>1, <2>2, <2>3, <2>4 DEF ParseInv
<1>4. CASE ~(Fits(f, group.count) /\ ~Overlaps(f, group))
  <2>1. Refuse
    BY <1>1, <1>4 DEF f
  <2> QED
    BY <2>1, ParseKept DEF Refuse, file
<1> QED
  BY <1>3, <1>4

LEMMA RegisterStep == ParseInv /\ parseRegisterDef => ParseInv'
<1> SUFFICES ASSUME ParseInv, parseRegisterDef PROVE ParseInv'
  OBVIOUS
<1>1. CASE Refuse
  BY <1>1, ParseKept DEF Refuse, file
<1>2. CASE ~Refuse
  <2>1. PICK size \in 1..2, storage \in BOOLEAN, seen \in BOOLEAN :
           /\ entries' = Append(entries, [Group(size, storage) EXCEPT
                                            !.fields = {[offset |-> 0, size |-> size]}])
           /\ UNCHANGED <<pc, group>>
    BY <1>2 DEF parseRegisterDef
  <2> DEFINE e == [Group(size, storage) EXCEPT !.fields = {[offset |-> 0, size |-> size]}]
  <2>2. /\ e = [count |-> size, storage |-> storage,
                fields |-> {[offset |-> 0, size |-> size]}]
        /\ [offset |-> 0, size |-> size] \in Fields
    BY DeviceAssumption DEF Group, Fields
  <2>3. e \in Entry /\ Sliced(e)
    BY <2>2, RegisterSliced, DeviceAssumption DEF Entry
  <2>4. entries' \in Seq(Entry) /\ \A i \in 1..Len(entries') : Sliced(entries'[i])
    BY <2>1, <2>3, EntryAppended
  <2>5. Sliced(group')
    BY <2>1 DEF ParseInv, Sliced
  <2> QED
    BY <2>1, <2>4, <2>5 DEF ParseInv
<1> QED
  BY <1>1, <1>2

LEMMA GroupOpened == ParseInv /\ OpenGroup => ParseInv'
<1> SUFFICES ASSUME ParseInv, OpenGroup PROVE ParseInv'
  OBVIOUS
<1>1. CASE Refuse
  BY <1>1, ParseKept DEF Refuse, file
<1>2. CASE ~Refuse
  <2>1. PICK count \in 1..MAX_GROUP_COUNT, storage \in BOOLEAN :
           group' = Group(count, storage) /\ UNCHANGED entries
    BY <1>2 DEF OpenGroup, ValidCount
  <2>2. Sliced(group')
    BY <2>1 DEF Group, Sliced
  <2> QED
    BY <2>1, <2>2, DeviceAssumption DEF ParseInv, Group
<1> QED
  BY <1>1, <1>2

LEMMA GroupClosed == ParseInv /\ CloseGroup => ParseInv'
<1> SUFFICES ASSUME ParseInv, CloseGroup PROVE ParseInv'
  OBVIOUS
<1>1. CASE Refuse
  BY <1>1, ParseKept DEF Refuse, file
<1>2. CASE ~Refuse
  <2>1. entries' = Append(entries, group) /\ group' = NoGroup /\ pc' = "groups"
    BY <1>2 DEF CloseGroup
  <2>2. group \in Entry /\ Sliced(group)
    BY DEF ParseInv, Entry, CloseGroup
  <2>3. entries' \in Seq(Entry) /\ \A i \in 1..Len(entries') : Sliced(entries'[i])
    BY <2>1, <2>2, EntryAppended
  <2>4. Sliced(group')
    BY <2>1 DEF NoGroup, Group, Sliced
  <2> QED
    BY <2>1, <2>3, <2>4, DeviceAssumption DEF ParseInv, NoGroup, Group
<1> QED
  BY <1>1, <1>2

LEMMA ParseStep == ParseInv /\ [Next]_vars => ParseInv'
<1> SUFFICES ASSUME ParseInv, [Next]_vars PROVE ParseInv'
  OBVIOUS
<1>1. CASE parseRegisterDef \/ OpenGroup \/ parseField \/ CloseGroup
  BY <1>1, RegisterStep, GroupOpened, FieldStep, GroupClosed
<1>2. CASE StartGroups \/ FinishLoad
  BY <1>2, ParseKept DEF StartGroups, FinishLoad, Refuse, file
<1>3. CASE StartPoll \/ GoOn \/ PollEnds
  BY <1>3, ParseKept DEF StartPoll, GoOn, StartPhase, PollEnds, file
<1>4. CASE readPhase
  BY <1>4, ParseKept DEF readPhase, OtherPhase, SkipEntry, ReadEntry, EndPhase, Step, file
<1>5. CASE UNCHANGED vars
  BY <1>5, ParseKept DEF vars, file
<1> QED
  BY <1>1, <1>2, <1>3, <1>4, <1>5 DEF Next, Load

(* No accepted file, whatever offsets, types and counts it writes and in   *)
(* whatever order, makes emitField() read outside the words of its group   *)
(* or publish a word under two names.                                      *)
THEOREM AcceptedFieldsAreSlices == Spec => []FieldsAreSlices
<1>1. Init => ParseInv
  <2> SUFFICES ASSUME Init PROVE ParseInv
    OBVIOUS
  <2>1. Sliced(group)
    BY DEF Init, NoGroup, Group, Sliced
  <2> QED
    BY <2>1, DeviceAssumption DEF Init, NoGroup, Group, ParseInv
<1>2. ParseInv => FieldsAreSlices
  BY DEF ParseInv, Sliced, FieldsAreSlices
<1> QED
  BY <1>1, <1>2, ParseStep, PTL DEF Spec

-----------------------------------------------------------------------------
(* TypeOK.  A group that is open still has its place in the file, and only *)
(* a file that is loaded is polled.                                        *)
Kinds == {"registers", "groups", "fields", "refused", "idle", "read", "done"}
Loading == {"registers", "groups", "fields"}
RoomLeft == pc = "fields" => Len(entries) < MaxEntries
GenericInv == ParseInv /\ TypeOK /\ RoomLeft

LEMMA LoadTypes ==
    ASSUME GenericInv, ParseInv', Load
    PROVE  TypeOK' /\ RoomLeft'
<1>. USE DEF GenericInv
<1>1. entries \in Seq(Entry) /\ entries' \in Seq(Entry) /\ Len(entries) \in Nat
  BY DEF ParseInv
<1>2. UNCHANGED <<phase, index, elapsed, tripped, served, schema>>
  BY DEF Load, parseRegisterDef, StartGroups, OpenGroup, parseField, CloseGroup, FinishLoad,
         Refuse, poll, file
<1>3. pc' \in Kinds
  BY DEF TypeOK, Kinds, Load, parseRegisterDef, StartGroups, OpenGroup, parseField, CloseGroup,
         FinishLoad, Refuse, file
<1>4. duplicate' \in BOOLEAN
  BY DEF TypeOK, Load, parseRegisterDef, StartGroups, OpenGroup, parseField, CloseGroup,
         FinishLoad, Refuse, NameSeen, file
<1>5. \/ entries' = entries /\ (pc' = "fields" => Len(entries) < MaxEntries)
      \/ /\ Len(entries) < MaxEntries /\ pc' # "fields"
         /\ \E e : entries' = Append(entries, e)
  BY DEF RoomLeft, Load, parseRegisterDef, StartGroups, OpenGroup, parseField, CloseGroup,
         FinishLoad, Refuse, file
<1>6. /\ Len(entries') \in Nat /\ Len(entries) <= Len(entries') /\ Len(entries') <= MaxEntries
      /\ RoomLeft'
  BY <1>1, <1>5, DeviceAssumption DEF TypeOK, RoomLeft
<1>7. healthy' = healthy \/ healthy' \subseteq 1..Len(entries')
  BY DEF Load, parseRegisterDef, StartGroups, OpenGroup, parseField, CloseGroup, FinishLoad,
         Refuse, file
<1>8. /\ healthy' \subseteq 1..Len(entries') /\ served' \subseteq 1..Len(entries')
      /\ index' \in 1..(Len(entries') + 1)
  <2>1. /\ healthy \subseteq 1..Len(entries) /\ served \subseteq 1..Len(entries)
        /\ index \in 1..(Len(entries) + 1)
    BY DEF TypeOK
  <2>2. 1..Len(entries) \subseteq 1..Len(entries')
    BY <1>1, <1>6
  <2>3. 1..(Len(entries) + 1) \subseteq 1..(Len(entries') + 1)
    BY <1>1, <1>6
  <2>. QED BY <1>2, <1>7, <2>1, <2>2, <2>3
<1>9. schema' \in 1..2 /\ tripped' \in BOOLEAN /\ phase' \in {"basic", "storage"} /\ elapsed' \in Nat
  BY <1>2 DEF TypeOK
<1>10. entries' \in Seq([count : 1..MAX_GROUP_COUNT, storage : BOOLEAN, fields : SUBSET Fields])
  BY <1>1 DEF Entry
<1>. QED BY <1>3, <1>4, <1>6, <1>8, <1>9, <1>10 DEF TypeOK, Kinds

(* A step of a poll leaves the file alone.                                 *)
LEMMA PollKeepsFile == StartPoll \/ GoOn \/ PollEnds \/ readPhase => UNCHANGED file
BY DEF StartPoll, GoOn, PollEnds, readPhase, OtherPhase, SkipEntry, ReadEntry, EndPhase,
       StartPhase, Step

LEMMA PollTypes ==
    ASSUME GenericInv, StartPoll \/ GoOn \/ PollEnds \/ readPhase
    PROVE  TypeOK' /\ RoomLeft'
<1>. USE DEF GenericInv
<1>1. UNCHANGED file /\ Len(entries) \in Nat
  BY PollKeepsFile DEF ParseInv
<1>2. pc' \in {"idle", "read", "done"}
  BY DEF StartPoll, GoOn, PollEnds, readPhase, OtherPhase, SkipEntry, ReadEntry, EndPhase,
         StartPhase, Step
<1>3. SUFFICES /\ tripped' \in BOOLEAN /\ served' \subseteq 1..Len(entries)
               /\ phase' \in {"basic", "storage"} /\ index' \in 1..(Len(entries) + 1)
               /\ elapsed' \in Nat
  BY <1>1, <1>2 DEF TypeOK, RoomLeft, file
<1>4. CASE StartPoll \/ GoOn
  <2>1. /\ index' = 1 /\ elapsed' = 0 /\ tripped' = FALSE /\ served' = {}
        /\ phase' \in {"basic", "storage"}
    BY <1>4 DEF StartPoll, GoOn, StartPhase
  <2>2. index' \in 1..(Len(entries) + 1) /\ elapsed' \in Nat
    BY <1>1, <2>1
  <2>. QED BY <2>1, <2>2
<1>5. CASE PollEnds \/ EndPhase
  BY <1>5 DEF PollEnds, EndPhase, poll, TypeOK
<1>6. CASE OtherPhase \/ SkipEntry
  <2>1. index <= Len(entries) /\ index' = index + 1 /\ UNCHANGED <<phase, elapsed, served>>
    BY <1>6 DEF OtherPhase, SkipEntry, Step
  <2>2. tripped' \in BOOLEAN
    BY <1>6 DEF OtherPhase, SkipEntry, TypeOK
  <2>. QED BY <1>1, <2>1, <2>2 DEF TypeOK
<1>7. CASE ReadEntry
  <2>1. PICK time \in 0..FailTime : elapsed' = elapsed + time
    BY <1>7 DEF ReadEntry
  <2>2. elapsed' \in Nat
    BY <2>1, DeviceAssumption DEF TypeOK
  <2>. QED BY <1>1, <1>7, <2>2 DEF ReadEntry, Step, TypeOK
<1>. QED BY <1>4, <1>5, <1>6, <1>7 DEF readPhase

LEMMA GenericInit == Init => GenericInv
<1>. SUFFICES ASSUME Init PROVE GenericInv
  OBVIOUS
<1>1. ParseInv
  <2>1. Sliced(group)
    BY DEF Init, NoGroup, Group, Sliced
  <2>. QED BY <2>1, DeviceAssumption DEF Init, NoGroup, Group, ParseInv
<1>2. /\ Len(entries) = 0 /\ 0 <= MaxEntries
      /\ entries \in Seq([count : 1..MAX_GROUP_COUNT, storage : BOOLEAN, fields : SUBSET Fields])
  BY DeviceAssumption DEF Init
<1>3. index \in 1..(Len(entries) + 1) /\ elapsed \in Nat
  BY <1>2 DEF Init
<1>4. TypeOK
  BY <1>2, <1>3, Zenon DEF Init, TypeOK
<1>. QED BY <1>1, <1>4 DEF Init, RoomLeft, GenericInv

LEMMA GenericStep == GenericInv /\ [Next]_vars => GenericInv'
<1>. SUFFICES ASSUME GenericInv, [Next]_vars PROVE GenericInv'
  OBVIOUS
<1>1. ParseInv'
  BY ParseStep DEF GenericInv
<1>2. CASE Load
  BY <1>1, <1>2, LoadTypes DEF GenericInv
<1>3. CASE StartPoll \/ GoOn \/ PollEnds \/ readPhase
  BY <1>1, <1>3, PollTypes DEF GenericInv
<1>4. CASE UNCHANGED vars
  BY <1>1, <1>4 DEF GenericInv, vars, file, poll, TypeOK, RoomLeft
<1>. QED BY <1>2, <1>3, <1>4 DEF Next

(* However a file is refused or accepted and however its polls go, the     *)
(* parser and the poll stay within the types of their variables.           *)
THEOREM GenericTypes == Spec => []TypeOK
<1>1. GenericInv => TypeOK
  BY DEF GenericInv
<1>. QED BY <1>1, GenericInit, GenericStep, PTL DEF Spec

-----------------------------------------------------------------------------
(* EarlyEntriesServed.  The clock shows what the entries before the next   *)
(* one can have taken, so the budget is not used up before its time.       *)
Took(i) == Cardinality(Before(i)) * FailTime
Owed(i) == InPhase(i) /\ Took(i) <= pollBudget
Spent ==
    /\ elapsed <= Took(index)
    /\ tripped => elapsed > pollBudget
Served == \A i \in healthy : i < index /\ Owed(i) => i \in served
PollInv ==
    /\ pc \in {"read", "done"} => Spent /\ Served
    /\ pc = "done" => index = Len(entries) + 1
ServeInv == GenericInv /\ PollInv

LEMMA Plus == \A c, f \in Nat : c * f \in Nat /\ (c + 1) * f = c * f + f
OBVIOUS

(* One more entry behind it: the count of those of the phase goes up by    *)
(* one, or it was of the other phase.                                      *)
LEMMA BeforeNext ==
    ASSUME NEW i \in Nat \ {0}
    PROVE  /\ Cardinality(Before(i)) \in Nat
           /\ Took(i) \in Nat
           /\ InPhase(i) => Took(i + 1) = Took(i) + FailTime
           /\ ~InPhase(i) => Took(i + 1) = Took(i)
<1>1. IsFiniteSet(1..(i - 1))
  BY FS_Interval
<1>2. IsFiniteSet(Before(i))
  BY <1>1, FS_Subset DEF Before
<1>3. Cardinality(Before(i)) \in Nat
  BY <1>2, FS_CardinalityType
<1>4. CASE InPhase(i)
  <2>1. Before(i + 1) = Before(i) \cup {i} /\ i \notin Before(i)
    BY <1>4 DEF Before
  <2>2. Cardinality(Before(i + 1)) = Cardinality(Before(i)) + 1
    BY <1>2, <2>1, FS_AddElement
  <2>. QED BY <1>3, <1>4, <2>2, Plus, DeviceAssumption DEF Took
<1>5. CASE ~InPhase(i)
  <2>1. Before(i + 1) = Before(i)
    BY <1>5 DEF Before
  <2>. QED BY <1>3, <1>5, <2>1, Plus, DeviceAssumption DEF Took
<1>. QED BY <1>4, <1>5

(* What an entry is owed does not change as long as the phase lasts.       *)
LEMMA SamePhase ==
    ASSUME UNCHANGED <<entries, phase>>
    PROVE  \A i : Took(i)' = Took(i) /\ Owed(i)' = Owed(i) /\ pollBudget' = pollBudget
<1>. TAKE i
<1>1. Before(i)' = Before(i) /\ InPhase(i)' = InPhase(i)
  BY DEF Before, InPhase
<1>2. pollBudget' = pollBudget
  BY DEF pollBudget, Clamp
<1>. QED BY <1>1, <1>2 DEF Took, Owed

LEMMA PhaseStarted ==
    ASSUME GenericInv, NEW which, StartPhase(which), GenericInv'
    PROVE  PollInv'
<1>1. index' = 1 /\ elapsed' = 0 /\ ~tripped' /\ pc' = "read" /\ healthy' \subseteq 1..Len(entries')
  BY DEF StartPhase, GenericInv, TypeOK
<1>2. Took(1)' \in Nat
  <2>1. Before(1)' = {}
    BY DEF Before
  <2>. QED BY <2>1, FS_EmptySet, Plus, DeviceAssumption DEF Took
<1>3. Spent'
  BY <1>1, <1>2 DEF Spent
<1>4. Served'
  BY <1>1 DEF Served
<1>. QED BY <1>1, <1>3, <1>4 DEF PollInv

LEMMA EntryPassed ==
    ASSUME ServeInv, OtherPhase \/ SkipEntry \/ ReadEntry
    PROVE  PollInv'
<1>. USE DEF ServeInv
<1>1. /\ pc = "read" /\ pc' = "read" /\ index' = index + 1
      /\ UNCHANGED <<entries, phase, healthy>> /\ served \subseteq served'
  BY DEF OtherPhase, SkipEntry, ReadEntry, Step, file
<1>2. /\ index \in Nat \ {0} /\ elapsed \in Nat /\ healthy \subseteq Nat
  BY DEF GenericInv, TypeOK
<1>3. Spent /\ Served
  BY <1>1 DEF PollInv
<1>4. pollBudget \in Nat /\ pollBudget' = pollBudget
  BY <1>1, BudgetType, SamePhase
<1>5. Took(index') \in Nat /\ Took(index)' = Took(index') /\ Took(index) \in Nat
  <2>1. PICK n \in Nat \ {0} : n = index'
    BY <1>1, <1>2
  <2>2. Took(n) \in Nat /\ Took(n)' = Took(n)
    BY <1>1, BeforeNext, SamePhase
  <2>3. Took(n)' = Took(index)' /\ Took(n) = Took(index')
    BY <2>1 DEF Took, Before
  <2>. QED BY <1>2, <2>2, <2>3, BeforeNext
<1>6. SUFFICES /\ elapsed' <= Took(index')
               /\ tripped' => elapsed' > pollBudget
               /\ Owed(index) /\ index \in healthy => index \in served'
  <2>1. Spent'
    BY <1>1, <1>4, <1>5, <1>6 DEF Spent
  <2>2. ASSUME NEW i \in healthy, i < index', Owed(i)' PROVE i \in served'
    <3>1. Owed(i)
      BY <1>1, <2>2, SamePhase
    <3>2. CASE i < index
      BY <1>1, <1>3, <3>1, <3>2 DEF Served
    <3>3. CASE i = index
      BY <1>6, <3>1, <3>3
    <3>. QED BY <1>1, <1>2, <2>2, <3>2, <3>3
  <2>3. Served'
    BY <1>1, <2>2 DEF Served
  <2>. QED BY <1>1, <2>1, <2>3 DEF PollInv
<1>7. CASE OtherPhase
  <2>1. Took(index') = Took(index) /\ ~Owed(index)
    BY <1>1, <1>2, <1>7, BeforeNext DEF OtherPhase, Owed
  <2>. QED BY <1>3, <1>7, <2>1 DEF OtherPhase, Spent
<1>8. CASE SkipEntry
  <2>1. Took(index') = Took(index) + FailTime
    BY <1>1, <1>2, <1>8, BeforeNext DEF SkipEntry
  <2>2. elapsed > pollBudget
    BY <1>3, <1>8 DEF SkipEntry, Expired, Spent
  <2>3. ~Owed(index)
    BY <1>2, <1>3, <1>4, <1>5, <2>2 DEF Spent, Owed
  <2>4. elapsed' = elapsed
    BY <1>8 DEF SkipEntry
  <2>. QED BY <1>2, <1>3, <1>5, <2>1, <2>2, <2>3, <2>4, DeviceAssumption DEF Spent
<1>9. CASE ReadEntry
  <2>1. Took(index') = Took(index) + FailTime
    BY <1>1, <1>2, <1>9, BeforeNext DEF ReadEntry
  <2>2. PICK time \in 0..FailTime : elapsed' = elapsed + time
    BY <1>9 DEF ReadEntry
  <2>3. ~tripped'
    BY <1>9 DEF ReadEntry, Expired
  <2>4. index \in healthy => index \in served'
    BY <1>9 DEF ReadEntry
  <2>. QED BY <1>2, <1>3, <1>5, <2>1, <2>2, <2>3, <2>4, DeviceAssumption DEF Spent
<1>. QED BY <1>7, <1>8, <1>9

LEMMA PhaseEnded == ServeInv /\ EndPhase => PollInv'
<1>. SUFFICES ASSUME ServeInv, EndPhase PROVE PollInv'
  OBVIOUS
<1>1. Spent /\ Served /\ UNCHANGED <<file, poll>>
  BY DEF ServeInv, PollInv, EndPhase
<1>2. Spent' /\ Served'
  BY <1>1, SamePhase DEF Spent, Served, file, poll
<1>3. index' = Len(entries') + 1
  <2>1. Len(entries) \in Nat /\ index \in 1..(Len(entries) + 1)
    BY DEF ServeInv, GenericInv, TypeOK
  <2>. QED BY <1>1, <2>1 DEF EndPhase, file, poll
<1>. QED BY <1>2, <1>3 DEF PollInv

LEMMA ServeStep == ServeInv /\ [Next]_vars => ServeInv'
<1>. SUFFICES ASSUME ServeInv, [Next]_vars PROVE ServeInv'
  OBVIOUS
<1>1. GenericInv'
  BY GenericStep DEF ServeInv
<1>2. SUFFICES PollInv'
  BY <1>1 DEF ServeInv
<1>3. CASE Load \/ PollEnds
  <2>1. pc' \notin {"read", "done"}
    BY <1>3 DEF Load, parseRegisterDef, StartGroups, OpenGroup, parseField, CloseGroup,
                FinishLoad, Refuse, PollEnds, file
  <2>. QED BY <2>1 DEF PollInv
<1>4. CASE StartPoll \/ GoOn
  BY <1>1, <1>4, PhaseStarted DEF StartPoll, GoOn, ServeInv
<1>5. CASE readPhase
  BY <1>5, EntryPassed, PhaseEnded DEF readPhase
<1>6. CASE UNCHANGED vars
  BY <1>6, SamePhase DEF ServeInv, PollInv, Spent, Served, vars, file, poll
<1>. QED BY <1>3, <1>4, <1>5, <1>6 DEF Next

LEMMA Serves == ServeInv => EarlyEntriesServed
<1>. SUFFICES ASSUME ServeInv, pc = "done",
                     NEW i \in healthy, InPhase(i),
                     Cardinality(Before(i)) * FailTime <= pollBudget
              PROVE  i \in served
  BY DEF EarlyEntriesServed
<1>1. healthy \subseteq 1..Len(entries) /\ Len(entries) \in Nat
  BY DEF ServeInv, GenericInv, TypeOK
<1>2. i < index
  BY <1>1 DEF ServeInv, PollInv
<1>. QED BY <1>2 DEF ServeInv, PollInv, Served, Owed, Took

(* Whatever the budget, the file and the entries that time out, an entry   *)
(* the device answers is read if the entries before it cannot use up the   *)
(* budget of its phase: readPhase() starves no entry that comes early.     *)
THEOREM EarlyEntriesAreServed == Spec => []EarlyEntriesServed
<1>1. Init => ServeInv
  <2>1. Init => pc \notin {"read", "done"}
    BY DEF Init
  <2>. QED BY <2>1, GenericInit DEF ServeInv, PollInv
<1>. QED BY <1>1, ServeStep, Serves, PTL DEF Spec
=============================================================================
