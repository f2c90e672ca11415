----------------------------- MODULE Logger_proofs -----------------------------
(***************************************************************************)
(* Proofs about the logger's two sinks: LogCapture, for any number of      *)
(* tasks and any windows, then ConsoleLog, for any buffer, any slots and   *)
(* any clients, and last the logger that calls them.                       *)
(***************************************************************************)
EXTENDS Logger, TLAPS, FiniteSetTheorems, SequenceTheorems, WellFoundedInduction

(* Why a record is kept: no capture deadline but the 0 of begin() lies     *)
(* beyond the aftermath of an ERROR that was logged, and a task about to   *)
(* store a deadline holds the stamp of such an ERROR.                      *)
DeadlineEarned ==
    captureUntil = 0 \/ \E e \in errors : captureUntil = e + ErrorWindow
StampsEarned ==
    \A k \in Tasks :
        /\ stamp[k] = started[k] /\ started[k] <= time
        /\ pc[k] \in {"gap", "rearm", "open"} => level[k] = "ERROR"
        /\ pc[k] # "idle" /\ level[k] = "ERROR" => started[k] \in errors

CaptureInv ==
    /\ TypeOK
    /\ Unwrapped => StampsEarned /\ DeadlineEarned
    /\ NoChatter

LEMMA SmallMod == ASSUME NEW t \in Nat, t < Width PROVE t % Width = t
  BY ClockAssumption

LEMMA ModRange == ASSUME NEW t \in Int PROVE t % Width \in 0..(Width - 1)
  BY ClockAssumption

LEMMA CaptureInvInit == Init => CaptureInv
<1> SUFFICES ASSUME Init PROVE CaptureInv
  OBVIOUS
<1>1. 0 \in 0..MaxTime /\ 0 \in 0..(Width - 1)
  BY ClockAssumption
<1>2. TypeOK
  BY <1>1 DEF Init, TypeOK, Levels
<1>3. StampsEarned /\ DeadlineEarned /\ NoChatter
  BY DEF Init, StampsEarned, DeadlineEarned, NoChatter
<1> QED
  BY <1>2, <1>3 DEF CaptureInv

LEMMA EmitKeeps ==
    ASSUME CaptureInv, NEW k \in Tasks, NEW l \in Levels, Emit(k, l)
    PROVE  CaptureInv'
<1>1. time \in Nat /\ Millis \in 0..(Width - 1) /\ time' = time
  BY ModRange DEF CaptureInv, TypeOK, Millis, Emit
<1>2. TypeOK'
  <2>1. errors' \subseteq 0..MaxTime
    BY DEF CaptureInv, TypeOK, Emit
  <2>2. calm' \in [Tasks -> BOOLEAN] /\ raced' \in BOOLEAN
    BY DEF CaptureInv, TypeOK, Emit, ErrorPending
  <2>3. level' \in [Tasks -> Levels] /\ started' \in [Tasks -> 0..MaxTime]
    BY DEF CaptureInv, TypeOK, Emit
  <2>4. stamp' \in [Tasks -> 0..(Width - 1)]
    BY <1>1 DEF CaptureInv, TypeOK, Emit
  <2>5. pc' \in [Tasks -> {"idle", "capture", "gap", "rearm", "open"}]
    BY DEF CaptureInv, TypeOK, Emit
  <2> QED
    BY <2>1, <2>2, <2>3, <2>4, <2>5 DEF CaptureInv, TypeOK, Emit
<1>3. errors \subseteq errors' /\ (l = "ERROR" => time \in errors')
  BY DEF Emit
<1>4. Unwrapped' => StampsEarned'
  <2> SUFFICES ASSUME Unwrapped PROVE StampsEarned'
    BY <1>1 DEF Unwrapped
  <2>1. Millis = time
    BY <1>1, SmallMod, ClockAssumption DEF Unwrapped, Millis
  <2> QED
    BY <1>1, <1>3, <2>1 DEF CaptureInv, TypeOK, StampsEarned, Emit
<1>5. Unwrapped' => DeadlineEarned'
  BY <1>1, <1>3 DEF CaptureInv, Unwrapped, DeadlineEarned, Emit
<1>6. NoChatter'
  BY <1>1, <1>3 DEF CaptureInv, TypeOK, NoChatter, Unwrapped, Logged, Emit
<1> QED
  BY <1>2, <1>4, <1>5, <1>6 DEF CaptureInv

LEMMA CaptureKeeps ==
    ASSUME CaptureInv, NEW k \in Tasks, Capture(k)
    PROVE  CaptureInv'
<1>1. TypeOK'
  BY DEF CaptureInv, TypeOK, Capture, shouldCapture
<1>2. Unwrapped' => StampsEarned'
  BY DEF CaptureInv, TypeOK, Unwrapped, StampsEarned, Capture
<1>3. Unwrapped' => DeadlineEarned'
  BY DEF CaptureInv, Unwrapped, DeadlineEarned, Capture
<1>4. NoChatter'
  <2> SUFFICES ASSUME Unwrapped, NEW j \in Tasks, Logged(j)', kept'[j]
               PROVE  started[j] < BootWindow
                      \/ \E e \in errors : started[j] < e + ErrorWindow
    BY DEF NoChatter, Unwrapped, Capture
  <2>1. CASE j = k
    <3>1. level[k] = "INFO" /\ (stamp[k] < BootWindow \/ stamp[k] < captureUntil)
      BY <2>1 DEF CaptureInv, TypeOK, Logged, Capture, shouldCapture
    <3>2. stamp[k] = started[k] /\ stamp[k] \in Nat
      BY DEF CaptureInv, TypeOK, StampsEarned
    <3> QED
      BY <2>1, <3>1, <3>2 DEF CaptureInv, DeadlineEarned
  <2>2. CASE j # k
    BY <2>2 DEF CaptureInv, TypeOK, NoChatter, Logged, Capture
  <2> QED
    BY <2>1, <2>2
<1> QED
  BY <1>1, <1>2, <1>3, <1>4 DEF CaptureInv

LEMMA CheckGapKeeps ==
    ASSUME CaptureInv, NEW k \in Tasks, CheckGap(k)
    PROVE  CaptureInv'
<1>1. pc' \in [Tasks -> {"idle", "capture", "gap", "rearm", "open"}]
  BY DEF CaptureInv, TypeOK, CheckGap
<1>2. TypeOK'
  BY <1>1 DEF CaptureInv, TypeOK, CheckGap
<1>3. \A j \in Tasks : pc'[j] = pc[j] \/ (j = k /\ pc[k] = "gap")
  BY DEF CaptureInv, TypeOK, CheckGap
<1>4. UNCHANGED <<time, level, stamp, kept, started, captureUntil, errors>>
  BY DEF CheckGap
<1>5. Unwrapped' => StampsEarned' /\ DeadlineEarned'
  BY <1>3, <1>4 DEF CaptureInv, Unwrapped, StampsEarned, DeadlineEarned
<1>6. NoChatter'
  <2> SUFFICES ASSUME Unwrapped, NEW j \in Tasks, Logged(j)', kept[j]
               PROVE  started[j] < BootWindow
                      \/ \E e \in errors : started[j] < e + ErrorWindow
    BY <1>4 DEF NoChatter, Unwrapped
  <2>1. Logged(j)
    BY <1>3, <1>4 DEF CaptureInv, StampsEarned, Logged
  <2> QED
    BY <2>1 DEF CaptureInv, NoChatter
<1> QED
  BY <1>2, <1>5, <1>6 DEF CaptureInv

LEMMA RearmKeeps ==
    ASSUME CaptureInv, NEW k \in Tasks, Rearm(k)
    PROVE  CaptureInv'
<1>1. started[k] \in 0..MaxTime /\ stamp[k] \in 0..(Width - 1)
  BY DEF CaptureInv, TypeOK
<1>2. pc' \in [Tasks -> {"idle", "capture", "gap", "rearm", "open"}]
  BY DEF CaptureInv, TypeOK, Rearm
<1>3. TypeOK'
  BY <1>1, <1>2 DEF CaptureInv, TypeOK, Rearm
<1>4. \A j \in Tasks : pc'[j] = pc[j]
                       \/ (j = k /\ pc[k] = "rearm" /\ pc'[k] = "open")
  BY DEF CaptureInv, TypeOK, Rearm
<1>5. UNCHANGED <<time, level, stamp, kept, started, captureUntil, errors>>
  BY DEF Rearm
<1>6. Unwrapped' => StampsEarned' /\ DeadlineEarned'
  BY <1>4, <1>5 DEF CaptureInv, Unwrapped, StampsEarned, DeadlineEarned
<1>7. NoChatter'
  BY <1>4, <1>5 DEF CaptureInv, NoChatter, Unwrapped, Logged
<1> QED
  BY <1>3, <1>6, <1>7 DEF CaptureInv

LEMMA OpenWindowKeeps ==
    ASSUME CaptureInv, NEW k \in Tasks, OpenWindow(k)
    PROVE  CaptureInv'
<1>1. stamp[k] \in Nat /\ captureUntil' = (stamp[k] + ErrorWindow) % Width
  BY ClockAssumption DEF CaptureInv, TypeOK, OpenWindow, WindowEnd
<1>2. captureUntil' \in 0..(Width - 1)
  BY <1>1, ModRange, ClockAssumption
<1>3. TypeOK'
  BY <1>2 DEF CaptureInv, TypeOK, OpenWindow
<1>4. Unwrapped' => StampsEarned'
  BY DEF CaptureInv, TypeOK, Unwrapped, StampsEarned, OpenWindow
<1>5. Unwrapped' => DeadlineEarned'
  <2> SUFFICES ASSUME Unwrapped PROVE DeadlineEarned'
    BY DEF Unwrapped, OpenWindow
  <2>1. stamp[k] \in errors /\ stamp[k] <= time /\ time \in Nat
    BY DEF CaptureInv, TypeOK, StampsEarned, OpenWindow
  <2>2. stamp[k] + ErrorWindow \in Nat /\ stamp[k] + ErrorWindow < Width
    BY <1>1, <2>1, ClockAssumption DEF Unwrapped
  <2>3. captureUntil' = stamp[k] + ErrorWindow
    BY <1>1, <2>2, SmallMod
  <2> QED
    BY <2>1, <2>3 DEF DeadlineEarned, OpenWindow
<1>6. NoChatter'
  BY DEF CaptureInv, TypeOK, StampsEarned, Unwrapped, NoChatter, Logged,
         OpenWindow
<1> QED
  BY <1>3, <1>4, <1>5, <1>6 DEF CaptureInv

LEMMA CaptureInvStep == CaptureInv /\ [Next]_vars => CaptureInv'
<1> SUFFICES ASSUME CaptureInv, [Next]_vars PROVE CaptureInv'
  OBVIOUS
<1>1. CASE Tick
  <2>1. time \in Nat /\ time' = time + 1 /\ time' \in 0..MaxTime
    BY <1>1, ClockAssumption DEF Tick, CaptureInv, TypeOK
  <2>2. Unwrapped' => Unwrapped
    BY <2>1, ClockAssumption DEF Unwrapped
  <2>3. TypeOK'
    BY <1>1, <2>1 DEF Tick, CaptureInv, TypeOK
  <2>4. Unwrapped' => StampsEarned' /\ DeadlineEarned'
    BY <1>1, <2>1, <2>2
    DEF Tick, CaptureInv, TypeOK, StampsEarned, DeadlineEarned
  <2>5. NoChatter'
    BY <1>1, <2>2 DEF Tick, CaptureInv, NoChatter, Logged
  <2> QED
    BY <2>3, <2>4, <2>5 DEF CaptureInv
<1>2. CASE \E k \in Tasks : Sink(k) \/ \E l \in Levels : Emit(k, l)
  BY <1>2, EmitKeeps, CaptureKeeps, CheckGapKeeps, RearmKeeps, OpenWindowKeeps
  DEF Sink
<1>3. CASE UNCHANGED vars
  BY <1>3
  DEF vars, CaptureInv, TypeOK, StampsEarned, DeadlineEarned, NoChatter, Logged,
      Unwrapped
<1> QED
  BY <1>1, <1>2, <1>3 DEF Next

(* However many tasks race through the unlocked capture test and re-arm,   *)
(* and whatever order their stores land in, no routine record is kept      *)
(* outside the boot window and the aftermath of an ERROR, until the clock  *)
(* wraps.                                                                  *)
THEOREM CaptureNoChatter == Spec => []NoChatter
<1>1. Init => CaptureInv
  BY CaptureInvInit
<1>2. CaptureInv /\ [Next]_vars => CaptureInv'
  BY CaptureInvStep
<1>3. CaptureInv => NoChatter
  BY DEF CaptureInv
<1> QED
  BY <1>1, <1>2, <1>3, PTL DEF Spec

-----------------------------------------------------------------------------
(* The re-arm, as long as no two tasks are in sink() with an ERROR at once.*)
Raising(k) == pc[k] # "idle" /\ level[k] = "ERROR"
Raised(e) == \E k \in Tasks : Raising(k) /\ started[k] = e
Stamped ==
    /\ \A k \in Tasks : /\ stamp[k] = started[k] % Width /\ started[k] <= time
                        /\ pc[k] \in {"gap", "rearm", "open"} => level[k] = "ERROR"
                        /\ Raising(k) => started[k] \in errors
    /\ \A e \in errors : e <= time

(* One ERROR is dealt with at a time, in the order they were logged; what  *)
(* is compared with its stamp is the stamp of the latest re-arm, however   *)
(* often the clock has wrapped since.                                      *)
InTurn ==
    /\ \A j, k \in Tasks : Raising(j) /\ Raising(k) => j = k
    /\ \A k \in Tasks : Raising(k) => \A e \in errors : e <= started[k]
LatestRearm ==
    \/ rearms = {} /\ lastRearm = 0
    \/ \E r \in rearms : lastRearm = r % Width /\ \A f \in rearms : f <= r
SpacedInv ==
    /\ rearms \subseteq errors
    /\ LatestRearm
    /\ \A k \in Tasks : pc[k] = "rearm" => \A r \in rearms : started[k] - r >= RearmGap
    /\ RearmsSpaced

(* An ERROR through sink() was too early, too close to a re-arm, or has    *)
(* its window; a line that was logged when none was pending sees the       *)
(* windows of all before it.                                               *)
Blocked(e) == e < RearmGap \/ \E r \in rearms : r < e /\ e < r + RearmGap
Covered(e) == e + ErrorWindow <= captureUntil
WindowInv ==
    /\ \A r \in rearms : Covered(r) \/ \E k \in Tasks : pc[k] = "open" /\ started[k] = r
    /\ \A e \in errors : Raised(e) \/ Blocked(e) \/ Covered(e)
    /\ \A k \in Tasks : pc[k] = "capture" /\ level[k] = "INFO" /\ calm[k] =>
          \A j \in Tasks : Raising(j) => started[k] <= started[j]

Spaced ==
    /\ Stamped
    /\ ~raced => InTurn /\ SpacedInv
Aftermath ==
    /\ Unwrapped /\ ~raced => WindowInv
    /\ AftermathAfterGap
RearmInv == CaptureInv /\ Spaced /\ Aftermath

(* Arithmetic of the clock: the difference of two stamps never exceeds     *)
(* what has passed between them.                                           *)
LEMMA DivMod ==
    ASSUME NEW a \in Int
    PROVE  a \div Width \in Int /\ a % Width \in 0..(Width - 1)
           /\ a = Width * (a \div Width) + (a % Width)
  BY ClockAssumption

LEMMA ModOf ==
    ASSUME NEW d \in Int, NEW m \in Int, NEW r \in 0..(Width - 1), d = Width * m + r
    PROVE  d % Width = r
<1> USE ClockAssumption
<1>1. d \div Width \in Int /\ d % Width \in 0..(Width - 1)
      /\ d = Width * (d \div Width) + (d % Width)
  BY DivMod
<1>2. Width * (d \div Width - m) = r - (d % Width)
  BY <1>1
<1>3. r - (d % Width) < Width /\ r - (d % Width) > -Width
  BY <1>1
<1>4. d \div Width - m = 0
  BY <1>1, <1>2, <1>3
<1> QED
  BY <1>1, <1>2, <1>4

LEMMA Elapsed ==
    ASSUME NEW a \in Nat, NEW b \in Nat, b <= a
    PROVE  ((a % Width) - (b % Width)) % Width <= a - b
<1> DEFINE d == (a % Width) - (b % Width)
           m == (a \div Width) - (b \div Width)
<1>1. /\ a \div Width \in Int /\ a % Width \in 0..(Width - 1)
      /\ a = Width * (a \div Width) + (a % Width)
  BY DivMod
<1>0. /\ b \div Width \in Int /\ b % Width \in 0..(Width - 1)
      /\ b = Width * (b \div Width) + (b % Width)
  BY DivMod
<1> USE ClockAssumption
<1>2. m \in Int /\ d \in Int /\ d < Width /\ -Width < d /\ a - b = Width * m + d
  BY <1>0, <1>1
<1> HIDE DEF d, m
<1>3. CASE d >= 0
  <2>1. d % Width = d
    BY <1>2, <1>3, ModOf
  <2>2. m >= 0
    BY <1>2
  <2> QED
    BY <1>2, <2>1, <2>2 DEF d
<1>4. CASE d < 0
  <2>1. d = Width * (-1) + (d + Width) /\ d + Width \in 0..(Width - 1)
    BY <1>2, <1>4
  <2>2. d % Width = d + Width
    BY <1>2, <2>1, ModOf
  <2>3. m >= 1
    BY <1>2, <1>4
  <2>4. Width * m >= Width
    BY <1>2, <2>3
  <2> QED
    BY <1>2, <2>2, <2>4 DEF d
<1> QED
  BY <1>2, <1>3, <1>4

LEMMA RearmInvInit == Init => RearmInv
<1> SUFFICES ASSUME Init PROVE RearmInv
  OBVIOUS
<1>1. CaptureInv
  BY CaptureInvInit
<1>2. Stamped /\ InTurn
  <2>1. 0 % Width = 0
    BY SmallMod, ClockAssumption
  <2> QED
    BY <2>1 DEF Init, Stamped, InTurn, Raising
<1>3. SpacedInv
  BY DEF Init, SpacedInv, LatestRearm, RearmsSpaced
<1>4. WindowInv /\ AftermathAfterGap
  BY DEF Init, WindowInv, AftermathAfterGap
<1> QED
  BY <1>1, <1>2, <1>3, <1>4 DEF RearmInv, Spaced, Aftermath

(* What the typing facts give to the arithmetic.                           *)
LEMMA Times ==
    ASSUME CaptureInv
    PROVE  /\ time \in Nat /\ \A k \in Tasks : started[k] \in Nat /\ stamp[k] \in Nat
           /\ errors \subseteq Nat /\ rearms \subseteq Nat
           /\ lastRearm \in Nat /\ captureUntil \in Nat
           /\ Width \in Nat \ {0} /\ ErrorWindow \in Nat /\ RearmGap \in Nat
  BY ClockAssumption DEF CaptureInv, TypeOK

LEMMA EmitSpaced ==
    ASSUME RearmInv, NEW k \in Tasks, NEW l \in Levels, Emit(k, l)
    PROVE  Spaced' /\ Aftermath'
<1> USE DEF RearmInv
<1>1. /\ pc[k] = "idle" /\ pc'[k] = "capture" /\ level'[k] = l /\ started'[k] = time
      /\ stamp'[k] = time % Width /\ calm'[k] = ~ErrorPending
      /\ \A j \in Tasks \ {k} : /\ pc'[j] = pc[j] /\ level'[j] = level[j]
                                /\ started'[j] = started[j] /\ stamp'[j] = stamp[j]
                                /\ calm'[j] = calm[j]
      /\ UNCHANGED <<time, kept, lastRearm, captureUntil, rearms>>
  BY DEF Emit, CaptureInv, TypeOK, Millis
<1>2. errors' = errors \cup {x \in {time} : l = "ERROR"}
      /\ (raced' <=> raced \/ (l = "ERROR" /\ ErrorPending))
  BY DEF Emit
<1>3. /\ ~Raising(k) /\ (Raising(k)' <=> l = "ERROR")
      /\ \A j \in Tasks \ {k} : Raising(j)' <=> Raising(j)
      /\ ErrorPending <=> \E j \in Tasks \ {k} : Raising(j)
  BY <1>1 DEF Raising, ErrorPending
<1>4. Stamped'
  <2>1. ASSUME NEW j \in Tasks
        PROVE  /\ stamp'[j] = started'[j] % Width /\ started'[j] <= time
               /\ pc'[j] \in {"gap", "rearm", "open"} => level'[j] = "ERROR"
               /\ Raising(j)' => started'[j] \in errors'
    BY <1>1, <1>2, <1>3, Times DEF Spaced, Stamped
  <2>2. \A e \in errors' : e <= time
    BY <1>2, Times DEF Spaced, Stamped
  <2> QED
    BY <1>1, <2>1, <2>2 DEF Stamped
<1>5. ASSUME ~raced' PROVE InTurn' /\ SpacedInv'
  <2>1. ~raced /\ (l = "ERROR" => ~ErrorPending)
    BY <1>2, <1>5
  <2>2. InTurn'
    <3>1. \A i, j \in Tasks : Raising(i)' /\ Raising(j)' => i = j
      BY <1>3, <2>1 DEF Spaced, InTurn
    <3>2. ASSUME NEW j \in Tasks, Raising(j)', NEW e \in errors' PROVE e <= started'[j]
      BY <1>1, <1>2, <1>3, <2>1, <3>2, Times DEF Spaced, InTurn, Stamped
    <3> QED
      BY <3>1, <3>2 DEF InTurn
  <2>3. SpacedInv'
    BY <1>1, <1>2, <1>5, <2>1 DEF Spaced, SpacedInv, LatestRearm, RearmsSpaced
  <2> QED
    BY <2>2, <2>3
<1>6. ASSUME Unwrapped', ~raced' PROVE WindowInv'
  <2>1. WindowInv /\ (l = "ERROR" => ~ErrorPending)
    BY <1>1, <1>2, <1>6 DEF Aftermath, Unwrapped
  <2>2. \A r \in rearms' : Covered(r)' \/ \E j \in Tasks : pc'[j] = "open" /\ started'[j] = r
    BY <1>1, <2>1 DEF WindowInv, Covered
  <2>3. ASSUME NEW e \in errors' PROVE Raised(e)' \/ Blocked(e)' \/ Covered(e)'
    <3>1. CASE e \in errors
      BY <1>1, <1>3, <2>1, <3>1 DEF WindowInv, Covered, Blocked, Raised
    <3>2. CASE e = time /\ l = "ERROR"
      BY <1>1, <1>3, <3>2 DEF Raised
    <3> QED
      BY <1>2, <2>3, <3>1, <3>2
  <2>4. ASSUME NEW i \in Tasks, pc'[i] = "capture", level'[i] = "INFO", calm'[i],
               NEW j \in Tasks, Raising(j)'
        PROVE  started'[i] <= started'[j]
    <3>1. CASE i = k
      BY <1>1, <1>3, <2>4, <3>1
    <3>2. CASE i # k /\ j = k
      BY <1>1, <3>2 DEF Spaced, Stamped
    <3>3. CASE i # k /\ j # k
      BY <1>1, <1>3, <2>1, <2>4, <3>3 DEF WindowInv
    <3> QED
      BY <3>1, <3>2, <3>3
  <2> QED
    BY <2>2, <2>3, <2>4 DEF WindowInv
<1>7. AftermathAfterGap'
  <2>1. SUFFICES ASSUME Unwrapped', ~raced', NEW j \in Tasks, NEW e \in errors', Logged(j)',
                        calm'[j], e < started'[j], started'[j] < e + ErrorWindow, e >= RearmGap,
                        \A r \in rearms' : ~(r < e /\ e < r + RearmGap)
                 PROVE  kept'[j]
    BY DEF AftermathAfterGap
  <2>2. j # k /\ Logged(j) /\ Unwrapped /\ ~raced
    BY <1>1, <1>2, <2>1 DEF Logged, Unwrapped
  <2>3. e \in errors
    BY <1>1, <1>2, <2>1, <2>2, Times DEF Spaced, Stamped
  <2> QED
    BY <1>1, <2>1, <2>2, <2>3 DEF Aftermath, AftermathAfterGap
<1> QED
  BY <1>4, <1>5, <1>6, <1>7 DEF Spaced, Aftermath

LEMMA CaptureSpaced ==
    ASSUME RearmInv, NEW k \in Tasks, Capture(k)
    PROVE  Spaced' /\ Aftermath'
<1> USE DEF RearmInv
<1>1. /\ pc[k] = "capture"
      /\ pc'[k] = IF level[k] = "ERROR" THEN "gap" ELSE "idle"
      /\ kept'[k] = shouldCapture(level[k], stamp[k])
      /\ \A j \in Tasks \ {k} : pc'[j] = pc[j] /\ kept'[j] = kept[j]
      /\ UNCHANGED <<time, level, stamp, started, lastRearm, captureUntil, errors, rearms,
                     raced, calm>>
  BY DEF Capture, CaptureInv, TypeOK
<1>2. \A j \in Tasks : Raising(j)' <=> Raising(j)
  BY <1>1 DEF Raising
<1>3. \A j \in Tasks : pc'[j] \in {"rearm", "open"} => pc'[j] = pc[j]
  BY <1>1
<1>4. Stamped'
  BY <1>1, <1>2 DEF Spaced, Stamped
<1>5. ~raced' => InTurn' /\ SpacedInv'
  BY <1>1, <1>2, <1>3 DEF Spaced, InTurn, SpacedInv, LatestRearm, RearmsSpaced
<1>6. ASSUME Unwrapped', ~raced' PROVE WindowInv'
  <2>1. WindowInv
    BY <1>1, <1>6 DEF Aftermath, Unwrapped
  <2>2. \A r \in rearms' : Covered(r)' \/ \E j \in Tasks : pc'[j] = "open" /\ started'[j] = r
    <3>1. \A j \in Tasks : pc[j] = "open" => pc'[j] = "open"
      BY <1>1
    <3> QED
      BY <1>1, <2>1, <3>1 DEF WindowInv, Covered
  <2>3. \A e \in errors' : Raised(e)' \/ Blocked(e)' \/ Covered(e)'
    BY <1>1, <1>2, <2>1 DEF WindowInv, Covered, Blocked, Raised
  <2>4. \A j \in Tasks : pc'[j] = "capture" => pc[j] = "capture"
    BY <1>1
  <2> QED
    BY <1>1, <1>2, <2>1, <2>2, <2>3, <2>4 DEF WindowInv
<1>7. AftermathAfterGap'
  <2>1. SUFFICES ASSUME Unwrapped, ~raced, NEW j \in Tasks, NEW e \in errors, Logged(j)',
                        calm[j], e < started[j], started[j] < e + ErrorWindow, e >= RearmGap,
                        \A r \in rearms : ~(r < e /\ e < r + RearmGap)
                 PROVE  kept'[j]
    BY <1>1 DEF AftermathAfterGap, Unwrapped
  <2>2. CASE j = k
    <3>1. level[k] = "INFO" /\ WindowInv /\ stamp[k] = started[k]
      BY <1>1, <2>1, <2>2 DEF Logged, Aftermath, CaptureInv, StampsEarned
    <3>2. ~Raised(e)
      BY <1>1, <2>1, <2>2, <3>1, Times DEF WindowInv, Raised
    <3>3. ~Blocked(e)
      BY <2>1, Times DEF Blocked
    <3>4. e + ErrorWindow <= captureUntil
      BY <3>1, <3>2, <3>3 DEF WindowInv, Covered
    <3>5. stamp[k] < captureUntil
      BY <2>1, <2>2, <3>1, <3>4, Times
    <3> QED
      BY <1>1, <2>2, <3>5 DEF shouldCapture
  <2>3. CASE j # k
    BY <1>1, <2>1, <2>3 DEF Aftermath, AftermathAfterGap, Logged
  <2> QED
    BY <2>2, <2>3
<1> QED
  BY <1>4, <1>5, <1>6, <1>7 DEF Spaced, Aftermath

(* The three steps that move no record and keep no line.                   *)
LEMMA AftermathStays ==
    ASSUME AftermathAfterGap, NEW k \in Tasks, level[k] = "ERROR",
           \A j \in Tasks \ {k} : pc'[j] = pc[j],
           UNCHANGED <<time, level, kept, started, errors, raced, calm>>, rearms \subseteq rearms'
    PROVE  AftermathAfterGap'
  BY DEF AftermathAfterGap, Logged, Unwrapped

(* The rate limit measures from the latest re-arm, also across a wrap.     *)
LEMMA CheckGapSpaced ==
    ASSUME RearmInv, NEW k \in Tasks, CheckGap(k)
    PROVE  Spaced' /\ Aftermath'
<1> USE DEF RearmInv
<1>1. /\ pc[k] = "gap" /\ level[k] = "ERROR"
      /\ pc'[k] = IF GapPassed(stamp[k]) THEN "rearm" ELSE "idle"
      /\ \A j \in Tasks \ {k} : pc'[j] = pc[j]
      /\ UNCHANGED <<time, level, stamp, kept, started, lastRearm, captureUntil, errors,
                     rearms, raced, calm>>
  BY DEF CheckGap, CaptureInv, TypeOK, Spaced, Stamped
<1>2. /\ Raising(k) /\ \A j \in Tasks : Raising(j)' => Raising(j)
      /\ \A j \in Tasks \ {k} : Raising(j)' <=> Raising(j)
  BY <1>1 DEF Raising
<1>3. Stamped'
  BY <1>1, <1>2 DEF Spaced, Stamped
<1>4. ASSUME ~raced, NEW r \in rearms, lastRearm = r % Width
      PROVE  r <= started[k] /\ (stamp[k] - lastRearm) % Width <= started[k] - r
  <2>1. r <= started[k]
    BY <1>2, <1>4 DEF Spaced, InTurn, SpacedInv
  <2>2. stamp[k] = started[k] % Width
    BY DEF Spaced, Stamped
  <2> QED
    BY <1>4, <2>1, <2>2, Times, Elapsed
<1>5. ASSUME ~raced' PROVE InTurn' /\ SpacedInv'
  <2>1. ~raced
    BY <1>1, <1>5
  <2>2. InTurn'
    BY <1>1, <1>2, <2>1 DEF Spaced, InTurn
  <2>3. ASSUME NEW f \in rearms, GapPassed(stamp[k]) PROVE started[k] - f >= RearmGap
    <3>1. PICK r \in rearms : lastRearm = r % Width /\ f <= r
      BY <2>1, <2>3 DEF Spaced, SpacedInv, LatestRearm
    <3>2. (stamp[k] - lastRearm) % Width >= RearmGap
          /\ (stamp[k] - lastRearm) % Width <= started[k] - r
      BY <1>4, <2>1, <2>3, <3>1 DEF GapPassed
    <3>3. (stamp[k] - lastRearm) % Width \in 0..(Width - 1)
      BY Times, ModRange
    <3> QED
      BY <3>1, <3>2, <3>3, Times
  <2>4. \A j \in Tasks : pc'[j] = "rearm" => \A f \in rearms : started[j] - f >= RearmGap
    BY <1>1, <2>1, <2>3 DEF Spaced, SpacedInv
  <2>5. SpacedInv'
    BY <1>1, <2>1, <2>4 DEF Spaced, SpacedInv, LatestRearm, RearmsSpaced
  <2> QED
    BY <2>2, <2>5
<1>6. ASSUME Unwrapped', ~raced' PROVE WindowInv'
  <2>1. WindowInv /\ Unwrapped /\ ~raced
    BY <1>1, <1>6 DEF Aftermath, Unwrapped
  <2>2. \A r \in rearms' : Covered(r)' \/ \E j \in Tasks : pc'[j] = "open" /\ started'[j] = r
    BY <1>1, <2>1 DEF WindowInv, Covered
  <2>3. ASSUME ~GapPassed(stamp[k])
        PROVE  Blocked(started[k]) \/ Covered(started[k])
    <3>1. stamp[k] = started[k] /\ started[k] < Width
      BY <2>1, Times DEF CaptureInv, StampsEarned, Unwrapped
    <3>2. CASE rearms = {}
      <4>1. lastRearm = 0
        BY <2>1, <3>2 DEF Spaced, SpacedInv, LatestRearm
      <4>2. started[k] % Width = started[k]
        BY <3>1, Times, SmallMod
      <4>3. stamp[k] - lastRearm = started[k]
        BY <3>1, <4>1, Times
      <4> QED
        BY <2>3, <4>2, <4>3, Times DEF GapPassed, Blocked
    <3>3. CASE rearms # {}
      <4>1. PICK r \in rearms : lastRearm = r % Width
        BY <2>1, <3>3 DEF Spaced, SpacedInv, LatestRearm
      <4>2. r <= started[k]
        BY <1>4, <2>1, <4>1
      <4>3. r % Width = r
        BY <3>1, <4>2, Times, SmallMod
      <4>4. (started[k] - r) % Width = started[k] - r
        BY <3>1, <4>2, Times, SmallMod
      <4>5. started[k] - r < RearmGap
        BY <2>3, <3>1, <4>1, <4>3, <4>4, Times DEF GapPassed
      <4>6. CASE r < started[k]
        BY <4>5, <4>6, Times DEF Blocked
      <4>7. CASE r = started[k]
        <5>1. ASSUME NEW j \in Tasks PROVE ~(pc[j] = "open")
          <6>1. pc[j] = "open" => Raising(j)
            BY DEF Raising, Spaced, Stamped
          <6> QED
            BY <1>1, <1>2, <2>1, <6>1 DEF Spaced, InTurn
        <5> QED
          BY <2>1, <4>7, <5>1 DEF WindowInv
      <4> QED
        BY <4>2, <4>6, <4>7, Times
    <3> QED
      BY <3>2, <3>3
  <2>4. ASSUME NEW e \in errors PROVE Raised(e)' \/ Blocked(e)' \/ Covered(e)'
    <3>1. CASE Raised(e) /\ ~Raised(e)'
      <4>1. PICK j \in Tasks : Raising(j) /\ started[j] = e
        BY <3>1 DEF Raised
      <4>2. j = k /\ ~Raising(k)'
        BY <1>1, <1>2, <3>1, <4>1 DEF Raised
      <4>3. ~GapPassed(stamp[k])
        BY <1>1, <4>2 DEF Raising
      <4> QED
        BY <1>1, <2>3, <4>1, <4>2, <4>3 DEF Blocked, Covered
    <3>2. CASE Raised(e)'
      BY <3>2
    <3>3. CASE ~Raised(e)
      BY <1>1, <2>1, <3>3 DEF WindowInv, Blocked, Covered
    <3> QED
      BY <3>1, <3>2, <3>3
  <2>5. \A j \in Tasks : pc'[j] = "capture" => pc[j] = "capture"
    BY <1>1
  <2> QED
    BY <1>1, <1>2, <2>1, <2>2, <2>4, <2>5 DEF WindowInv
<1>7. AftermathAfterGap'
  BY <1>1, AftermathStays DEF Aftermath
<1> QED
  BY <1>3, <1>5, <1>6, <1>7 DEF Spaced, Aftermath

LEMMA RearmSpaced ==
    ASSUME RearmInv, NEW k \in Tasks, Rearm(k)
    PROVE  Spaced' /\ Aftermath'
<1> USE DEF RearmInv
<1>1. /\ pc[k] = "rearm" /\ pc'[k] = "open" /\ level[k] = "ERROR"
      /\ lastRearm' = stamp[k] /\ rearms' = rearms \cup {started[k]}
      /\ \A j \in Tasks \ {k} : pc'[j] = pc[j]
      /\ UNCHANGED <<time, level, stamp, kept, started, captureUntil, errors, raced, calm>>
  BY DEF Rearm, CaptureInv, TypeOK, Spaced, Stamped
<1>2. Raising(k) /\ \A j \in Tasks : Raising(j)' <=> Raising(j)
  BY <1>1 DEF Raising
<1>3. Stamped'
  BY <1>1, <1>2 DEF Spaced, Stamped
<1>4. ASSUME ~raced' PROVE InTurn' /\ SpacedInv'
  <2>1. ~raced /\ InTurn /\ SpacedInv
    BY <1>1, <1>4 DEF Spaced
  <2>2. InTurn'
    BY <1>1, <1>2, <2>1 DEF InTurn
  <2>3. rearms' \subseteq errors'
    BY <1>1, <1>2, <2>1 DEF SpacedInv, Spaced, Stamped
  <2>4. \A f \in rearms : f <= started[k] /\ started[k] - f >= RearmGap
    BY <1>1, <1>2, <2>1 DEF SpacedInv, InTurn
  <2>5. LatestRearm'
    <3>1. stamp[k] = started[k] % Width
      BY DEF Spaced, Stamped
    <3>2. \A f \in rearms' : f <= started[k]
      BY <1>1, <2>4, Times
    <3> QED
      BY <1>1, <3>1, <3>2 DEF LatestRearm
  <2>6. \A j \in Tasks : pc'[j] # "rearm"
    <3>1. \A j \in Tasks : pc[j] = "rearm" => Raising(j)
      BY DEF Raising, Spaced, Stamped
    <3> QED
      BY <1>1, <1>2, <2>1, <3>1 DEF InTurn
  <2>7. RearmsSpaced'
    <3>1. ASSUME NEW e \in rearms', NEW f \in rearms', e < f PROVE f - e >= RearmGap
      <4>1. e \in rearms
        BY <1>1, <2>4, <3>1, Times
      <4> QED
        BY <1>1, <2>1, <2>4, <3>1, <4>1 DEF SpacedInv, RearmsSpaced
    <3> QED
      BY <3>1 DEF RearmsSpaced
  <2> QED
    BY <2>2, <2>3, <2>5, <2>6, <2>7 DEF SpacedInv
<1>5. ASSUME Unwrapped', ~raced' PROVE WindowInv'
  <2>1. WindowInv
    BY <1>1, <1>5 DEF Aftermath, Unwrapped
  <2>2. \A r \in rearms' : Covered(r)' \/ \E j \in Tasks : pc'[j] = "open" /\ started'[j] = r
    BY <1>1, <2>1 DEF WindowInv, Covered
  <2>3. \A e \in errors' : Raised(e)' \/ Blocked(e)' \/ Covered(e)'
    BY <1>1, <1>2, <2>1 DEF WindowInv, Raised, Blocked, Covered
  <2>4. \A j \in Tasks : pc'[j] = "capture" => pc[j] = "capture"
    BY <1>1
  <2> QED
    BY <1>1, <1>2, <2>1, <2>2, <2>3, <2>4 DEF WindowInv
<1>6. AftermathAfterGap'
  BY <1>1, AftermathStays DEF Aftermath
<1> QED
  BY <1>3, <1>4, <1>5, <1>6 DEF Spaced, Aftermath

(* The window that is opened is the latest: it covers every ERROR so far.  *)
LEMMA OpenWindowSpaced ==
    ASSUME RearmInv, NEW k \in Tasks, OpenWindow(k)
    PROVE  Spaced' /\ Aftermath'
<1> USE DEF RearmInv
<1>1. /\ pc[k] = "open" /\ pc'[k] = "idle" /\ level[k] = "ERROR"
      /\ captureUntil' = WindowEnd(stamp[k])
      /\ \A j \in Tasks \ {k} : pc'[j] = pc[j]
      /\ UNCHANGED <<time, level, stamp, kept, started, lastRearm, errors, rearms, raced, calm>>
  BY DEF OpenWindow, CaptureInv, TypeOK, Spaced, Stamped
<1>2. Raising(k) /\ \A j \in Tasks : Raising(j)' => Raising(j)
  BY <1>1 DEF Raising
<1>3. Stamped'
  BY <1>1, <1>2 DEF Spaced, Stamped
<1>4. ~raced' => InTurn' /\ SpacedInv'
  <2>1. \A j \in Tasks : pc'[j] = "rearm" => pc[j] = "rearm"
    BY <1>1
  <2> QED
    BY <1>1, <1>2, <2>1 DEF Spaced, InTurn, SpacedInv, LatestRearm, RearmsSpaced
<1>5. ASSUME Unwrapped', ~raced' PROVE WindowInv'
  <2>1. WindowInv /\ Unwrapped /\ ~raced
    BY <1>1, <1>5 DEF Aftermath, Unwrapped
  <2>2. stamp[k] = started[k] /\ started[k] <= time /\ started[k] + ErrorWindow \in Nat
        /\ started[k] + ErrorWindow < Width
    BY <2>1, Times DEF CaptureInv, StampsEarned, Unwrapped
  <2>3. captureUntil' = started[k] + ErrorWindow
    BY <1>1, <2>2, SmallMod DEF WindowEnd
  <2>4. \A e \in errors : Covered(e)'
    BY <1>1, <1>2, <2>1, <2>3, Times DEF Spaced, InTurn, Covered
  <2>5. rearms \subseteq errors
    BY <2>1 DEF Spaced, SpacedInv
  <2>6. \A j \in Tasks : pc'[j] = "capture" => pc[j] = "capture"
    BY <1>1
  <2> QED
    BY <1>1, <1>2, <2>1, <2>4, <2>5, <2>6 DEF WindowInv
<1>6. AftermathAfterGap'
  BY <1>1, AftermathStays DEF Aftermath
<1> QED
  BY <1>3, <1>4, <1>5, <1>6 DEF Spaced, Aftermath

LEMMA RearmInvStep == RearmInv /\ [Next]_vars => RearmInv'
<1> SUFFICES ASSUME RearmInv, [Next]_vars PROVE RearmInv'
  OBVIOUS
<1> USE DEF RearmInv
<1>1. CaptureInv'
  BY CaptureInvStep
<1>2. CASE Tick
  <2>1. time \in Nat /\ time' = time + 1
    BY <1>2, Times DEF Tick
  <2>2. Unwrapped' => Unwrapped
    BY <2>1, ClockAssumption DEF Unwrapped
  <2>3. Stamped'
    BY <1>2, <2>1, Times DEF Tick, Spaced, Stamped, Raising
  <2>4. Spaced'
    BY <1>2, <2>3
    DEF Tick, Spaced, InTurn, SpacedInv, LatestRearm, RearmsSpaced, Raising
  <2>5. Aftermath'
    BY <1>2, <2>2
    DEF Tick, Aftermath, WindowInv, AftermathAfterGap, Raising, Raised, Blocked, Covered, Logged
  <2> QED
    BY <1>1, <2>4, <2>5
<1>3. CASE \E k \in Tasks : Sink(k) \/ \E l \in Levels : Emit(k, l)
  BY <1>1, <1>3, EmitSpaced, CaptureSpaced, CheckGapSpaced, RearmSpaced, OpenWindowSpaced
  DEF Sink
<1>4. CASE UNCHANGED vars
  BY <1>1, <1>4
  DEF vars, Spaced, Stamped, InTurn, SpacedInv, LatestRearm, RearmsSpaced, Aftermath,
      WindowInv, AftermathAfterGap, Raising, Raised, Blocked, Covered, Logged, Unwrapped
<1> QED
  BY <1>2, <1>3, <1>4 DEF Next

(* Across every wrap of the clock, an error storm re-arms the capture      *)
(* window at most once in RearmGap, as long as no two tasks are in sink()  *)
(* with an ERROR at once.                                                  *)
THEOREM CaptureRearmsSpaced == Spec => []RearmsSpaced
<1>1. RearmInv => RearmsSpaced
  BY DEF RearmInv, Spaced, SpacedInv, RearmsSpaced
<1> QED
  BY RearmInvInit, RearmInvStep, <1>1, PTL DEF Spec

(* However the tasks interleave, a line logged in the window of an ERROR   *)
(* that is through sink(), and that the rate limit let through, is kept,   *)
(* until the clock wraps.                                                  *)
THEOREM CaptureAftermath == Spec => []AftermathAfterGap
<1>1. RearmInv => AftermathAfterGap
  BY DEF RearmInv, Aftermath
<1> QED
  BY RearmInvInit, RearmInvStep, <1>1, PTL DEF Spec

-----------------------------------------------------------------------------
(* The console.  The least of some numbers, and so the slot SlotOf finds.  *)
LEMMA LeastNumber ==
    ASSUME NEW T \in SUBSET Nat, T # {}
    PROVE  \E x \in T : \A y \in T : x <= y
<1>1. \E R : IsWellFoundedOn(R, Nat) /\ \A x, y \in Nat : y < x => <<y, x>> \in R
  <2>1. IsWellFoundedOn(OpToRel(<, Nat), Nat)
    BY NatLessThanWellFounded
  <2>2. \A x, y \in Nat : y < x => <<y, x>> \in OpToRel(<, Nat)
    BY DEF OpToRel
  <2>. QED BY <2>1, <2>2, Zenon
<1>2. PICK R : IsWellFoundedOn(R, Nat) /\ \A x, y \in Nat : y < x => <<y, x>> \in R
  BY <1>1
<1>3. PICK x \in T : \A y \in T : ~(<<y, x>> \in R)
  BY <1>2, WFMin
<1>4. \A y \in T : ~(y < x)
  BY <1>2, <1>3
<1>5. \A y \in T : x <= y
  BY <1>4
<1>. QED BY <1>5

LEMMA SlotFound ==
    ASSUME NEW s, Claims(s) PROVE SlotOf(s) \in Places /\ wsClients[SlotOf(s)].id = s
<1>. DEFINE T == {i \in Places : wsClients[i].id = s}
<1>1. T \in SUBSET Nat /\ T # {}
  BY ConsoleAssumption DEF Claims, Places
<1>2. PICK i \in T : \A j \in T : i <= j
  BY <1>1, LeastNumber
<1>3. i \in Places /\ wsClients[i].id = s /\ i \in Nat
  BY <1>1, <1>2
<1>4. ASSUME NEW j \in 1..(i - 1) PROVE wsClients[j].id # s
  <2>1. j \in Places /\ ~(i <= j)
    BY <1>3, ConsoleAssumption DEF Places
  <2>. QED BY <1>2, <2>1
<1>5. \E k \in Places : wsClients[k].id = s /\ \A j \in 1..(k - 1) : wsClients[j].id # s
  BY <1>3, <1>4
<1>. QED BY <1>5 DEF SlotOf

(* The steps a task may have left.                                         *)
StepType ==
    [do : {"head", "text", "format", "advance", "test", "count", "up", "down"}]
    \cup [do : {"send"}, entry : [head : Nat, text : Nat]]
    \cup [do : {"remove", "replay", "disconnect"}, socket : Sockets]
    \cup [do : {"clear", "forget", "disconnect"}, place : Places]
    \cup [do : {"add"}, socket : Sockets, ip : Addresses]
    \cup [do : {"visit"}, place : Places, socket : Sockets, ip : Addresses]
    \cup [do : {"resend"}, socket : Sockets, index : Int]

LEMMA StepParts ==
    ASSUME NEW x \in StepType
    PROVE  /\ x.do = "add" => x.socket \in Sockets /\ x.ip \in Addresses
           /\ x.do = "visit" => x.place \in Places
           /\ x.do = "replay" => x.socket \in Sockets
           /\ x.do = "clear" => x.place \in Places
BY DEF StepType

LEMMA StepKinds ==
    /\ \A what \in {"head", "text", "format", "advance", "test", "count", "up", "down"} :
          Do(what) \in StepType /\ Do(what).do = what
    /\ \A what \in {"remove", "replay", "disconnect"}, s \in Sockets :
          On(what, s) \in StepType /\ On(what, s).do = what
    /\ \A what \in {"clear", "forget", "disconnect"}, i \in Places :
          /\ AtPlace(what, i) \in StepType /\ AtPlace(what, i).do = what
          /\ AtPlace(what, i).place = i
<1>1. \A what \in {"head", "text", "format", "advance", "test", "count", "up", "down"} :
          Do(what) \in StepType /\ Do(what).do = what
  BY DEF Do, StepType
<1>2. \A what \in {"remove", "replay", "disconnect"}, s \in Sockets :
          On(what, s) \in StepType /\ On(what, s).do = what
  BY DEF On, StepType
<1>3. \A what \in {"clear", "forget", "disconnect"}, i \in Places :
          /\ AtPlace(what, i) \in StepType /\ AtPlace(what, i).do = what
          /\ AtPlace(what, i).place = i
  BY DEF AtPlace, StepType
<1>. QED BY <1>1, <1>2, <1>3

(* What may come right after what: a step that needs the value loaded by   *)
(* the one before it, only that one.  Other steps may be put in front of a *)
(* step, but not of one of these.                                          *)
Follows(a, b) ==
    /\ b = "text" => a = "head"
    /\ b = "format" => a = "text"
    /\ b = "advance" => a \in {"format", "send"}
    /\ b = "test" => a = "advance"
    /\ b = "count" => a = "test"
    /\ b = "down" <=> a = "clear"
    /\ b \notin {"up", "clear"}

Linked(q) ==
    /\ \A k \in 1..(Len(q) - 1) : Follows(q[k].do, q[k + 1].do)
    /\ q # <<>> => q[Len(q)].do # "clear"

(* Steps that may come after any but a clearing of a slot.                 *)
Loose == {"head", "send", "add", "visit", "remove", "forget", "replay", "resend", "disconnect"}

LEMMA LooseFollows == \A b \in Loose : \A a : a # "clear" => Follows(a, b)
BY DEF Loose, Follows

LEMMA LinkedTail ==
    ASSUME NEW q \in Seq(StepType), q # <<>>, Linked(q)
    PROVE  /\ Tail(q) \in Seq(StepType) /\ Linked(Tail(q))
           /\ Tail(q) # <<>> => Tail(q)[1] = q[2] /\ Follows(q[1].do, q[2].do)
<1>1. /\ Tail(q) \in Seq(StepType) /\ Len(Tail(q)) = Len(q) - 1
      /\ \A k \in 1..Len(Tail(q)) : Tail(q)[k] = q[k + 1]
      /\ Len(q) \in Nat \ {0}
  BY HeadTailProperties
<1>2. ASSUME NEW k \in 1..(Len(Tail(q)) - 1) PROVE Follows(Tail(q)[k].do, Tail(q)[k + 1].do)
  <2>1. Tail(q)[k] = q[k + 1] /\ Tail(q)[k + 1] = q[k + 2]
    BY <1>1
  <2>2. k + 1 \in 1..(Len(q) - 1) /\ (k + 1) + 1 = k + 2
    BY <1>1
  <2>. QED BY <2>1, <2>2 DEF Linked
<1>3. ASSUME Tail(q) # <<>>
      PROVE  /\ Tail(q)[Len(Tail(q))].do # "clear"
             /\ Tail(q)[1] = q[2] /\ Follows(q[1].do, q[2].do)
  <2>1. Len(Tail(q)) >= 1
    BY <1>1, <1>3, EmptySeq
  <2>2. Tail(q)[Len(Tail(q))] = q[Len(q)] /\ Tail(q)[1] = q[2] /\ 1 \in 1..(Len(q) - 1)
    BY <1>1, <2>1
  <2>. QED BY <2>2 DEF Linked
<1>. QED BY <1>1, <1>2, <1>3 DEF Linked

LEMMA LinkedCat ==
    ASSUME NEW a \in Seq(StepType), NEW b \in Seq(StepType), Linked(a), Linked(b),
           a # <<>> /\ b # <<>> => Follows(a[Len(a)].do, b[1].do)
    PROVE  /\ a \o b \in Seq(StepType) /\ Linked(a \o b)
           /\ a # <<>> => a \o b # <<>> /\ (a \o b)[1] = a[1]
           /\ a = <<>> => a \o b = b
<1>0. a = <<>> => a \o b = b
  BY ConcatEmptySeq
<1>1. /\ a \o b \in Seq(StepType) /\ Len(a \o b) = Len(a) + Len(b)
      /\ \A i \in 1 .. Len(a) + Len(b) :
             (a \o b)[i] = IF i <= Len(a) THEN a[i] ELSE b[i - Len(a)]
      /\ Len(a) \in Nat /\ Len(b) \in Nat
  BY ConcatProperties
<1>. SUFFICES ASSUME a # <<>>
              PROVE  Linked(a \o b) /\ a \o b # <<>> /\ (a \o b)[1] = a[1]
  BY <1>0, <1>1
<1>2. Len(a) >= 1
  BY <1>1, EmptySeq
<1>3. a \o b # <<>> /\ (a \o b)[1] = a[1]
  BY <1>1, <1>2
<1>4. ASSUME NEW k \in 1..(Len(a \o b) - 1)
      PROVE  Follows((a \o b)[k].do, (a \o b)[k + 1].do)
  <2>1. CASE k < Len(a)
    <3>1. (a \o b)[k] = a[k] /\ (a \o b)[k + 1] = a[k + 1] /\ k \in 1..(Len(a) - 1)
      BY <1>1, <2>1
    <3>. QED BY <3>1 DEF Linked
  <2>2. CASE k = Len(a)
    <3>1. (a \o b)[k] = a[Len(a)] /\ (a \o b)[k + 1] = b[1] /\ Len(b) >= 1
      BY <1>1, <1>2, <2>2
    <3>. QED BY <3>1
  <2>3. CASE k > Len(a)
    <3>. DEFINE j == k - Len(a)
    <3>1. (a \o b)[k] = b[j] /\ (a \o b)[k + 1] = b[(k + 1) - Len(a)] /\ j \in 1..(Len(b) - 1)
      BY <1>1, <2>3
    <3>2. (k + 1) - Len(a) = j + 1
      BY <1>1
    <3>. QED BY <3>1, <3>2 DEF Linked
  <2>. QED BY <1>1, <2>1, <2>2, <2>3
<1>5. (a \o b)[Len(a \o b)].do # "clear"
  <2>1. CASE Len(b) = 0
    <3>1. (a \o b)[Len(a \o b)] = a[Len(a)]
      BY <1>1, <1>2, <2>1
    <3>. QED BY <3>1 DEF Linked
  <2>2. CASE Len(b) > 0
    <3>1. (a \o b)[Len(a \o b)] = b[Len(b)] /\ b # <<>>
      BY <1>1, <2>2
    <3>. QED BY <3>1 DEF Linked
  <2>. QED BY <1>1, <2>1, <2>2
<1>. QED BY <1>3, <1>4, <1>5 DEF Linked

-----------------------------------------------------------------------------
(* Lines a task is yet to begin, each by the step that does.               *)
HeadsOf(q) == {k \in DOMAIN q : q[k].do = "head"}

LEMMA CountSplit ==
    ASSUME NEW S, IsFiniteSet(S), NEW M, M \subseteq S
    PROVE  /\ IsFiniteSet(S \ M) /\ IsFiniteSet(M)
           /\ Cardinality(S) \in Nat /\ Cardinality(M) \in Nat /\ Cardinality(S \ M) \in Nat
           /\ Cardinality(S \ M) = Cardinality(S) - Cardinality(M)
<1>1. S \cap M = M
  OBVIOUS
<1>2. IsFiniteSet(M)
  BY FS_Subset
<1>3. IsFiniteSet(S \ M) /\ Cardinality(S \ M) = Cardinality(S) - Cardinality(S \cap M)
  BY <1>2, FS_Difference
<1>. QED BY <1>1, <1>2, <1>3, FS_CardinalityType

LEMMA CountJoin ==
    ASSUME NEW S, IsFiniteSet(S), NEW M, IsFiniteSet(M), S \cap M = {}
    PROVE  /\ IsFiniteSet(S \cup M)
           /\ Cardinality(S) \in Nat /\ Cardinality(M) \in Nat
           /\ Cardinality(S \cup M) \in Nat
           /\ Cardinality(S \cup M) = Cardinality(S) + Cardinality(M)
<1>1. Cardinality(S \cap M) = 0
  BY FS_EmptySet
<1>2. Cardinality(S) \in Nat /\ Cardinality(M) \in Nat
  BY FS_CardinalityType
<1>3. /\ IsFiniteSet(S \cup M)
      /\ Cardinality(S \cup M) = Cardinality(S) + Cardinality(M) - Cardinality(S \cap M)
  BY FS_Union
<1>. QED BY <1>1, <1>2, <1>3

LEMMA HeadsFinite ==
    ASSUME NEW q \in Seq(StepType)
    PROVE  IsFiniteSet(HeadsOf(q)) /\ Cardinality(HeadsOf(q)) \in Nat
<1>1. IsFiniteSet(1..Len(q)) /\ HeadsOf(q) \subseteq 1..Len(q)
  <2>1. Len(q) \in Nat /\ DOMAIN q = 1..Len(q)
    OBVIOUS
  <2>. QED BY <2>1, FS_Interval DEF HeadsOf
<1>. QED BY <1>1, FS_Subset, FS_CardinalityType

LEMMA HeadsShift ==
    ASSUME NEW q \in Seq(StepType), NEW n \in Nat
    PROVE  LET T == {k + n : k \in HeadsOf(q)}
           IN  IsFiniteSet(T) /\ Cardinality(T) = Cardinality(HeadsOf(q))
<1>. DEFINE S == HeadsOf(q)
            T == {k + n : k \in S}
            f == [k \in S |-> k + n]
<1>1. S \subseteq Nat
  <2>1. DOMAIN q = 1..Len(q)
    OBVIOUS
  <2>. QED BY <2>1 DEF HeadsOf
<1>. HIDE DEF S
<1>2. f \in [S -> T] /\ \A a, b \in S : f[a] = f[b] => a = b
  BY <1>1
<1>3. \A x \in T : \E a \in S : f[a] = x
  OBVIOUS
<1>4. f \in Bijection(S, T)
  BY <1>2, <1>3 DEF Bijection, Injection, Surjection, IsInjective
<1>5. ExistsBijection(S, T)
  BY <1>4 DEF ExistsBijection
<1>6. IsFiniteSet(S)
  BY HeadsFinite DEF S
<1>. QED BY <1>5, <1>6, FS_Bijection DEF S

LEMMA HeadsCat ==
    ASSUME NEW a \in Seq(StepType), NEW b \in Seq(StepType)
    PROVE  Cardinality(HeadsOf(a \o b)) = Cardinality(HeadsOf(a)) + Cardinality(HeadsOf(b))
<1>. DEFINE n == Len(a)
            T == {k + n : k \in HeadsOf(b)}
<1>1. /\ Len(a \o b) = n + Len(b) /\ n \in Nat /\ Len(b) \in Nat
      /\ \A i \in 1 .. n + Len(b) : (a \o b)[i] = IF i <= n THEN a[i] ELSE b[i - n]
      /\ a \o b \in Seq(StepType)
  BY ConcatProperties
<1>2. DOMAIN (a \o b) = 1..(n + Len(b)) /\ DOMAIN a = 1..n /\ DOMAIN b = 1..Len(b)
  BY <1>1
<1>3. ASSUME NEW k \in HeadsOf(a \o b) PROVE k \in HeadsOf(a) \cup T
  <2>1. k \in 1..(n + Len(b)) /\ (a \o b)[k].do = "head"
    BY <1>2 DEF HeadsOf
  <2>2. CASE k <= n
    BY <1>1, <1>2, <2>1, <2>2 DEF HeadsOf
  <2>3. CASE k > n
    <3>1. k - n \in 1..Len(b) /\ b[k - n].do = "head" /\ k = (k - n) + n
      BY <1>1, <2>1, <2>3
    <3>2. k - n \in HeadsOf(b)
      BY <1>2, <3>1 DEF HeadsOf
    <3>. QED BY <3>1, <3>2
  <2>. QED BY <1>1, <2>1, <2>2, <2>3
<1>4. ASSUME NEW k \in HeadsOf(a) PROVE k \in HeadsOf(a \o b) /\ k <= n
  BY <1>1, <1>2 DEF HeadsOf
<1>5. ASSUME NEW k \in HeadsOf(b) PROVE k + n \in HeadsOf(a \o b) /\ k + n > n
  <2>1. k \in 1..Len(b) /\ b[k].do = "head"
    BY <1>2 DEF HeadsOf
  <2>2. k + n \in 1..(n + Len(b)) /\ ~(k + n <= n) /\ (k + n) - n = k
    BY <1>1, <2>1
  <2>. QED BY <1>1, <1>2, <2>1, <2>2 DEF HeadsOf
<1>6. HeadsOf(a \o b) = HeadsOf(a) \cup T
  BY <1>3, <1>4, <1>5
<1>7. HeadsOf(a) \cap T = {}
  <2>1. HeadsOf(b) \subseteq Nat /\ HeadsOf(a) \subseteq Nat
    BY <1>2 DEF HeadsOf
  <2>. QED BY <1>1, <1>4, <1>5, <2>1
<1>8. IsFiniteSet(T) /\ Cardinality(T) = Cardinality(HeadsOf(b))
  BY <1>1, HeadsShift
<1>9. Cardinality(HeadsOf(a) \cup T) = Cardinality(HeadsOf(a)) + Cardinality(T)
  <2>1. IsFiniteSet(HeadsOf(a))
    BY HeadsFinite
  <2>. HIDE DEF T
  <2>. QED BY <1>7, <1>8, <2>1, CountJoin
<1>. QED BY <1>6, <1>8, <1>9

(* All tasks' together, which are Ahead many.                              *)
AheadOf(t) == {t} \X HeadsOf(todo[t])
AheadSet == UNION {AheadOf(t) : t \in ConsoleTasks}

LEMMA AheadIs == Ahead = Cardinality(AheadSet)
BY DEF Ahead, AheadSet, AheadOf, HeadsOf

LEMMA HeadsOfOne ==
    ASSUME NEW t, NEW q \in Seq(StepType)
    PROVE  /\ IsFiniteSet({t} \X HeadsOf(q))
           /\ Cardinality({t} \X HeadsOf(q)) = Cardinality(HeadsOf(q))
<1>1. IsFiniteSet({t}) /\ Cardinality({t}) = 1
  BY FS_Singleton
<1>. QED BY <1>1, HeadsFinite, FS_Product

LEMMA AheadChanges ==
    ASSUME todo \in [ConsoleTasks -> Seq(StepType)], IsFiniteSet(AheadSet),
           NEW t \in ConsoleTasks, NEW q \in Seq(StepType), todo' = [todo EXCEPT ![t] = q]
    PROVE  /\ IsFiniteSet(AheadSet')
           /\ Ahead \in Nat /\ Ahead' \in Nat
           /\ Ahead' = Ahead - Cardinality(HeadsOf(todo[t])) + Cardinality(HeadsOf(q))
<1>. DEFINE Mine == {t} \X HeadsOf(todo[t])
            MineNow == {t} \X HeadsOf(q)
            Others == AheadSet \ Mine
<1>1. /\ IsFiniteSet(Mine) /\ Cardinality(Mine) = Cardinality(HeadsOf(todo[t]))
      /\ IsFiniteSet(MineNow) /\ Cardinality(MineNow) = Cardinality(HeadsOf(q))
  BY HeadsOfOne
<1>2. Mine \subseteq AheadSet
  BY DEF AheadSet, AheadOf
<1>3. \A x \in Others : x[1] # t
  BY DEF AheadSet, AheadOf
<1>4. AheadSet' = Others \cup MineNow
  <2>1. AheadOf(t)' = MineNow
    BY DEF AheadOf
  <2>2. \A u \in ConsoleTasks \ {t} : AheadOf(u)' = AheadOf(u)
    BY DEF AheadOf
  <2>3. AheadSet' = UNION {AheadOf(u)' : u \in ConsoleTasks}
    BY DEF AheadSet, ConsoleTasks
  <2>4. ConsoleTasks = (ConsoleTasks \ {t}) \cup {t}
    OBVIOUS
  <2>5. AheadSet' = (UNION {AheadOf(u)' : u \in ConsoleTasks \ {t}}) \cup AheadOf(t)'
    BY <2>3, <2>4
  <2>6. UNION {AheadOf(u)' : u \in ConsoleTasks \ {t}} = UNION {AheadOf(u) : u \in ConsoleTasks \ {t}}
    BY <2>2
  <2>7. Others = UNION {AheadOf(u) : u \in ConsoleTasks \ {t}}
    <3>1. \A u \in ConsoleTasks \ {t} : AheadOf(u) \cap Mine = {}
      BY DEF AheadOf
    <3>2. AheadOf(t) = Mine
      BY DEF AheadOf
    <3>. QED BY <3>1, <3>2 DEF AheadSet
  <2>. QED BY <2>1, <2>5, <2>6, <2>7
<1>5. Others \cap MineNow = {}
  BY <1>3
<1>. HIDE DEF Mine, MineNow, Others
<1>6. /\ IsFiniteSet(Others) /\ Cardinality(Others) = Cardinality(AheadSet) - Cardinality(Mine)
      /\ Cardinality(AheadSet) \in Nat /\ Cardinality(Mine) \in Nat
  BY <1>2, CountSplit DEF Others
<1>7. /\ IsFiniteSet(Others \cup MineNow)
      /\ Cardinality(Others \cup MineNow) = Cardinality(Others) + Cardinality(MineNow)
      /\ Cardinality(Others \cup MineNow) \in Nat /\ Cardinality(MineNow) \in Nat
  BY <1>1, <1>5, <1>6, CountJoin
<1>8. Ahead' = Cardinality(AheadSet')
  BY DEF Ahead, AheadSet, AheadOf, HeadsOf
<1>. QED BY <1>1, <1>4, <1>6, <1>7, <1>8, AheadIs

-----------------------------------------------------------------------------
(* What is left to do is linked, and leads to no more lines than there may *)
(* be.  A message is sent of a line that was begun.                        *)
TodoInv ==
    /\ todo \in [ConsoleTasks -> Seq(StepType)]
    /\ \A t \in ConsoleTasks : Linked(todo[t])
    /\ IsFiniteSet(AheadSet) /\ lines \in Nat /\ lines + Ahead <= MaxLines
    /\ \A t \in ConsoleTasks : \A k \in 1..Len(todo[t]) :
          todo[t][k].do = "send" => lines >= 1

FewHeads(steps) ==
    \/ Cardinality(HeadsOf(steps)) = 0
    \/ Cardinality(HeadsOf(steps)) = 1 /\ lines + Ahead < MaxLines

(* The sequence of one task changes: to these steps and these after them.  *)
Turns(t, steps, rest) ==
    /\ todo' = [todo EXCEPT ![t] = steps \o rest]
    /\ Linked(steps) /\ Linked(rest)
    /\ steps # <<>> /\ rest # <<>> => Follows(steps[Len(steps)].do, rest[1].do)
    /\ \A k \in 1..Len(steps) : steps[k].do = "send" => lines' >= 1
    /\ \A k \in 1..Len(rest) : rest[k].do = "send" => lines' >= 1
    /\ lines' \in Nat /\ lines' >= lines
    /\ lines' + Ahead - Cardinality(HeadsOf(todo[t])) + Cardinality(HeadsOf(steps))
           + Cardinality(HeadsOf(rest)) <= MaxLines

LEMMA TodoTurn ==
    ASSUME TodoInv, NEW t \in ConsoleTasks,
           NEW steps \in Seq(StepType), NEW rest \in Seq(StepType),
           Turns(t, steps, rest)
    PROVE  /\ TodoInv'
           /\ \A u \in ConsoleTasks \ {t} : todo'[u] = todo[u]
           /\ steps # <<>> => todo'[t] # <<>> /\ todo'[t][1] = steps[1]
           /\ steps = <<>> => todo'[t] = rest
<1>. DEFINE q == steps \o rest
<1>. USE DEF Turns
<1>1. todo \in [ConsoleTasks -> Seq(StepType)] /\ IsFiniteSet(AheadSet) /\ lines \in Nat
  BY DEF TodoInv
<1>2. /\ q \in Seq(StepType) /\ Linked(q)
      /\ steps # <<>> => q # <<>> /\ q[1] = steps[1]
      /\ steps = <<>> => q = rest
  BY LinkedCat
<1>3. /\ Len(q) = Len(steps) + Len(rest) /\ Len(steps) \in Nat /\ Len(rest) \in Nat
      /\ \A i \in 1 .. Len(steps) + Len(rest) :
             q[i] = IF i <= Len(steps) THEN steps[i] ELSE rest[i - Len(steps)]
  BY ConcatProperties
<1>4. Cardinality(HeadsOf(q)) = Cardinality(HeadsOf(steps)) + Cardinality(HeadsOf(rest))
  BY HeadsCat
<1>. HIDE DEF q
<1>5. /\ todo' \in [ConsoleTasks -> Seq(StepType)] /\ todo'[t] = q
      /\ \A u \in ConsoleTasks \ {t} : todo'[u] = todo[u]
  BY <1>1, <1>2 DEF q
<1>6. /\ IsFiniteSet(AheadSet') /\ Ahead \in Nat /\ Ahead' \in Nat
      /\ Ahead' = Ahead - Cardinality(HeadsOf(todo[t])) + Cardinality(HeadsOf(q))
  BY <1>1, <1>2, AheadChanges DEF q
<1>7. lines' + Ahead' <= MaxLines
  <2>1. /\ Cardinality(HeadsOf(steps)) \in Nat /\ Cardinality(HeadsOf(rest)) \in Nat
        /\ Cardinality(HeadsOf(todo[t])) \in Nat
    BY <1>1, HeadsFinite
  <2>. QED BY <1>4, <1>6, <2>1, ConsoleAssumption
<1>8. ASSUME NEW k \in 1..Len(q), q[k].do = "send" PROVE lines' >= 1
  <2>1. CASE k <= Len(steps)
    <3>1. k \in 1..Len(steps) /\ q[k] = steps[k]
      BY <1>3, <2>1
    <3>. QED BY <1>8, <3>1
  <2>2. CASE ~(k <= Len(steps))
    <3>1. k - Len(steps) \in 1..Len(rest) /\ q[k] = rest[k - Len(steps)]
      BY <1>3, <2>2
    <3>. QED BY <1>8, <3>1
  <2>. QED BY <2>1, <2>2
<1>9. ASSUME NEW u \in ConsoleTasks \ {t}
      PROVE  /\ Linked(todo'[u])
             /\ \A k \in 1..Len(todo'[u]) : todo'[u][k].do = "send" => lines' >= 1
  <2>1. todo'[u] = todo[u]
    BY <1>5
  <2>2. Linked(todo[u]) /\ \A k \in 1..Len(todo[u]) : todo[u][k].do = "send" => lines >= 1
    BY DEF TodoInv
  <2>. QED BY <1>1, <2>1, <2>2
<1>10. \A u \in ConsoleTasks :
           /\ Linked(todo'[u])
           /\ \A k \in 1..Len(todo'[u]) : todo'[u][k].do = "send" => lines' >= 1
  BY <1>2, <1>5, <1>8, <1>9
<1>11. TodoInv'
  BY <1>5, <1>6, <1>7, <1>10 DEF TodoInv, ConsoleTasks
<1>. QED BY <1>2, <1>5, <1>11

LEMMA HeadsTail ==
    ASSUME NEW q \in Seq(StepType), q # <<>>
    PROVE  /\ Cardinality(HeadsOf(Tail(q))) \in Nat
           /\ Cardinality(HeadsOf(q)) =
                 Cardinality(HeadsOf(Tail(q))) + (IF q[1].do = "head" THEN 1 ELSE 0)
<1>1. Tail(q) \in Seq(StepType) /\ <<q[1]>> \in Seq(StepType) /\ q = <<q[1]>> \o Tail(q)
  BY HeadTailProperties
<1>2. Cardinality(HeadsOf(q)) = Cardinality(HeadsOf(<<q[1]>>)) + Cardinality(HeadsOf(Tail(q)))
  BY <1>1, HeadsCat
<1>0. Cardinality(HeadsOf(Tail(q))) \in Nat
  BY <1>1, HeadsFinite
<1>3. CASE q[1].do = "head"
  <2>1. HeadsOf(<<q[1]>>) = {1}
    BY <1>3 DEF HeadsOf
  <2>2. Cardinality(HeadsOf(<<q[1]>>)) = 1
    BY <2>1, FS_Singleton
  <2>. QED BY <1>0, <1>2, <1>3, <2>2
<1>4. CASE q[1].do # "head"
  <2>1. HeadsOf(<<q[1]>>) = {}
    BY <1>4 DEF HeadsOf
  <2>2. Cardinality(HeadsOf(<<q[1]>>)) = 0
    BY <2>1, FS_EmptySet
  <2>. QED BY <1>0, <1>2, <1>4, <2>2
<1>. QED BY <1>3, <1>4

(* The next step is taken, and replaced by what it leads to.               *)
LEMMA StepReplaced ==
    ASSUME TodoInv, NEW t \in ConsoleTasks, todo[t] # <<>>,
           NEW steps \in Seq(StepType), Then(t, steps), Linked(steps), FewHeads(steps),
           steps # <<>> => \A b : Follows(Step(t).do, b) => Follows(steps[Len(steps)].do, b),
           \A k \in 1..Len(steps) : steps[k].do = "send" => lines >= 1,
           \/ lines' = lines
           \/ lines' = lines + 1 /\ Step(t).do = "head" /\ steps = <<>>
    PROVE  /\ TodoInv'
           /\ \A u \in ConsoleTasks \ {t} : todo'[u] = todo[u]
           /\ steps # <<>> => todo'[t] # <<>> /\ todo'[t][1] = steps[1]
           /\ steps = <<>> /\ todo'[t] # <<>> => Follows(Step(t).do, todo'[t][1].do)
<1>1. /\ todo[t] \in Seq(StepType) /\ Linked(todo[t]) /\ Step(t) = todo[t][1]
      /\ lines \in Nat /\ Ahead \in Nat /\ lines + Ahead <= MaxLines
  <2>1. Ahead \in Nat
    BY AheadIs, FS_CardinalityType DEF TodoInv
  <2>. QED BY <2>1 DEF TodoInv, Step
<1>0. PICK rest : rest = Tail(todo[t])
  OBVIOUS
<1>2. /\ rest \in Seq(StepType) /\ Linked(rest)
      /\ rest # <<>> => rest[1] = todo[t][2] /\ Follows(Step(t).do, rest[1].do)
  BY <1>0, <1>1, LinkedTail
<1>3. todo' = [todo EXCEPT ![t] = steps \o rest]
  BY <1>0 DEF Then
<1>4. \A k \in 1..Len(rest) : rest[k].do = "send" => lines >= 1
  <2>1. \A k \in 1..Len(rest) : rest[k] = todo[t][k + 1] /\ k + 1 \in 1..Len(todo[t])
    BY <1>0, <1>1, HeadTailProperties
  <2>. QED BY <2>1 DEF TodoInv
<1>5. /\ Cardinality(HeadsOf(steps)) \in Nat /\ Cardinality(HeadsOf(rest)) \in Nat
      /\ Cardinality(HeadsOf(todo[t])) =
            Cardinality(HeadsOf(rest)) + (IF Step(t).do = "head" THEN 1 ELSE 0)
  BY <1>0, <1>1, <1>2, HeadsTail, HeadsFinite
<1>6. steps = <<>> => Cardinality(HeadsOf(steps)) = 0
  <2>1. HeadsOf(<<>>) = {}
    BY DEF HeadsOf
  <2>. QED BY <2>1, FS_EmptySet
<1>7. lines' \in Nat /\ lines' >= lines
  BY <1>1
<1>8. lines' + Ahead - Cardinality(HeadsOf(todo[t])) + Cardinality(HeadsOf(steps))
               + Cardinality(HeadsOf(rest)) <= MaxLines
  <2>1. \/ lines' = lines /\ Cardinality(HeadsOf(steps)) = 0
        \/ lines' = lines /\ Cardinality(HeadsOf(steps)) = 1 /\ lines + Ahead < MaxLines
        \/ lines' = lines + 1 /\ Step(t).do = "head" /\ Cardinality(HeadsOf(steps)) = 0
    BY <1>6 DEF FewHeads
  <2>2. MaxLines \in Nat
    BY ConsoleAssumption
  <2>3. CASE lines' = lines /\ Cardinality(HeadsOf(steps)) = 0
    BY <1>1, <1>5, <2>2, <2>3
  <2>4. CASE lines' = lines /\ Cardinality(HeadsOf(steps)) = 1 /\ lines + Ahead < MaxLines
    BY <1>1, <1>5, <2>2, <2>4
  <2>5. CASE lines' = lines + 1 /\ Step(t).do = "head" /\ Cardinality(HeadsOf(steps)) = 0
    BY <1>1, <1>5, <2>2, <2>5
  <2>. QED BY <2>1, <2>3, <2>4, <2>5
<1>9. steps # <<>> /\ rest # <<>> => Follows(steps[Len(steps)].do, rest[1].do)
  BY <1>2
<1>10. /\ \A k \in 1..Len(steps) : steps[k].do = "send" => lines' >= 1
       /\ \A k \in 1..Len(rest) : rest[k].do = "send" => lines' >= 1
  BY <1>1, <1>4, <1>7
<1>11. /\ TodoInv'
       /\ \A u \in ConsoleTasks \ {t} : todo'[u] = todo[u]
       /\ steps # <<>> => todo'[t] # <<>> /\ todo'[t][1] = steps[1]
       /\ steps = <<>> => todo'[t] = rest
  <2>1. rest \in Seq(StepType) /\ Linked(rest)
    BY <1>2
  <2>2. Turns(t, steps, rest)
    BY <1>3, <1>7, <1>8, <1>9, <1>10, <2>1 DEF Turns
  <2>3. rest \in Seq(StepType)
    BY <2>1
  <2>4. TodoInv'
    BY <2>2, <2>3, TodoTurn
  <2>5. \A u \in ConsoleTasks \ {t} : todo'[u] = todo[u]
    BY <2>2, <2>3, TodoTurn
  <2>6. steps # <<>> => todo'[t] # <<>> /\ todo'[t][1] = steps[1]
    BY <2>2, <2>3, TodoTurn
  <2>7. ASSUME steps = <<>> PROVE todo'[t] = rest
    <3>1. todo \in [ConsoleTasks -> Seq(StepType)]
      BY DEF TodoInv
    <3>2. steps \o rest = rest
      BY <2>3, <2>7, ConcatEmptySeq
    <3>. QED BY <1>3, <3>1, <3>2
  <2>. QED BY <2>4, <2>5, <2>6, <2>7
<1>. QED BY <1>2, <1>11

(* Steps are put in front: of nothing, or of one that sends.               *)
LEMMA StepsPut ==
    ASSUME TodoInv, NEW t \in ConsoleTasks,
           todo[t] # <<>> => Step(t).do \in {"send", "resend"},
           NEW steps \in Seq(StepType), todo' = [todo EXCEPT ![t] = steps \o todo[t]],
           Linked(steps), FewHeads(steps),
           \A k \in 1..Len(steps) : steps[k].do # "send",
           lines' = lines
    PROVE  /\ TodoInv'
           /\ \A u \in ConsoleTasks \ {t} : todo'[u] = todo[u]
           /\ steps # <<>> => todo'[t] # <<>> /\ todo'[t][1] = steps[1]
           /\ steps = <<>> => todo'[t] = todo[t]
<1>1. /\ todo[t] \in Seq(StepType) /\ Linked(todo[t]) /\ (todo[t] # <<>> => Step(t) = todo[t][1])
      /\ lines \in Nat /\ Ahead \in Nat /\ lines + Ahead <= MaxLines
  <2>1. Ahead \in Nat
    BY AheadIs, FS_CardinalityType DEF TodoInv
  <2>. QED BY <2>1 DEF TodoInv, Step
<1>2. steps # <<>> /\ todo[t] # <<>> => Follows(steps[Len(steps)].do, todo[t][1].do)
  BY <1>1, LooseFollows DEF Linked, Loose
<1>3. \A k \in 1..Len(todo[t]) : todo[t][k].do = "send" => lines >= 1
  BY DEF TodoInv
<1>4. Cardinality(HeadsOf(steps)) \in Nat /\ Cardinality(HeadsOf(todo[t])) \in Nat
  BY <1>1, HeadsFinite
<1>5. lines' + Ahead - Cardinality(HeadsOf(todo[t])) + Cardinality(HeadsOf(steps))
               + Cardinality(HeadsOf(todo[t])) <= MaxLines
  BY <1>1, <1>4, ConsoleAssumption DEF FewHeads
<1>6. lines' \in Nat /\ lines' >= lines
  BY <1>1
<1>0. PICK rest : rest = todo[t]
  OBVIOUS
<1>7. rest \in Seq(StepType) /\ Linked(rest) /\ todo' = [todo EXCEPT ![t] = steps \o rest]
  BY <1>0, <1>1
<1>8. steps # <<>> /\ rest # <<>> => Follows(steps[Len(steps)].do, rest[1].do)
  BY <1>0, <1>2
<1>9. /\ \A k \in 1..Len(steps) : steps[k].do = "send" => lines' >= 1
      /\ \A k \in 1..Len(rest) : rest[k].do = "send" => lines' >= 1
  BY <1>0, <1>1, <1>3
<1>10. lines' + Ahead - Cardinality(HeadsOf(todo[t])) + Cardinality(HeadsOf(steps))
               + Cardinality(HeadsOf(rest)) <= MaxLines
  BY <1>0, <1>5
<1>11. /\ TodoInv'
       /\ \A u \in ConsoleTasks \ {t} : todo'[u] = todo[u]
       /\ steps # <<>> => todo'[t] # <<>> /\ todo'[t][1] = steps[1]
       /\ steps = <<>> => todo'[t] = rest
  <2>1. Turns(t, steps, rest)
    BY <1>6, <1>7, <1>8, <1>9, <1>10 DEF Turns
  <2>2. rest \in Seq(StepType)
    BY <1>7
  <2>. QED BY <2>1, <2>2, TodoTurn, Zenon
<1>. QED BY <1>0, <1>11

(* A line, perhaps, and steps of the web task after it.                    *)
Calm(q) == \A k \in 1..Len(q) : q[k].do \in Loose \ {"head", "send"}
Brief(q) ==
    /\ q \in Seq(StepType) /\ Linked(q) /\ FewHeads(q)
    /\ \A k \in 1..Len(q) : q[k].do # "send"
    /\ q # <<>> => q[1].do \in Loose

LEMMA CallbackBrief ==
    ASSUME NEW line \in Line
    PROVE  Brief(line) /\ (line # <<>> => line[Len(line)].do = "count")
<1>1. CASE line = <<>>
  <2>1. HeadsOf(line) = {}
    BY <1>1 DEF HeadsOf
  <2>2. Cardinality(HeadsOf(line)) = 0
    BY <2>1, FS_EmptySet
  <2>. QED BY <1>1, <2>2 DEF Brief, Linked, FewHeads
<1>2. CASE line # <<>>
  <2>1. line = Callback /\ lines + Ahead < MaxLines
    BY <1>2 DEF Line
  <2>2. /\ Len(line) = 6 /\ line \in Seq(StepType) /\ DOMAIN line = 1..6
        /\ line[1].do = "head" /\ line[2].do = "text" /\ line[3].do = "format"
        /\ line[4].do = "advance" /\ line[5].do = "test" /\ line[6].do = "count"
    <3>1. \A what \in {"head", "text", "format", "advance", "test", "count"} :
             Do(what) \in StepType /\ Do(what).do = what
      BY StepKinds
    <3>. QED BY <2>1, <3>1 DEF Callback
  <2>3. HeadsOf(line) = {1}
    BY <2>2 DEF HeadsOf
  <2>4. FewHeads(line)
    BY <2>1, <2>3, FS_Singleton DEF FewHeads
  <2>5. Linked(line)
    BY <2>2 DEF Linked, Follows
  <2>6. \A k \in 1..Len(line) : line[k].do # "send"
    BY <2>2
  <2>. QED BY <2>2, <2>4, <2>5, <2>6 DEF Brief, Loose
<1>. QED BY <1>1, <1>2

LEMMA LineThenCalm ==
    ASSUME NEW line \in Line, NEW others \in Seq(StepType), Calm(others)
    PROVE  /\ Brief(line \o others)
           /\ others # <<>> => line \o others # <<>>
<1>1. Brief(line) /\ (line # <<>> => line[Len(line)].do = "count")
  BY CallbackBrief
<1>2. Linked(others)
  <2>1. \A k \in 1..(Len(others) - 1) :
           others[k].do \in Loose /\ others[k + 1].do \in Loose
    BY DEF Calm
  <2>2. others # <<>> => others[Len(others)].do \in Loose
    <3>1. others # <<>> => Len(others) \in 1..Len(others)
      BY EmptySeq
    <3>. QED BY <3>1 DEF Calm
  <2>3. "clear" \notin Loose
    BY DEF Loose
  <2>. QED BY <2>1, <2>2, <2>3, LooseFollows DEF Linked
<1>3. others # <<>> => others[1].do \in Loose
  <2>1. others # <<>> => 1 \in 1..Len(others)
    BY EmptySeq
  <2>. QED BY <2>1 DEF Calm
<1>4. /\ line \o others \in Seq(StepType) /\ Linked(line \o others)
      /\ line # <<>> => line \o others # <<>> /\ (line \o others)[1] = line[1]
      /\ line = <<>> => line \o others = others
  BY <1>1, <1>2, <1>3, LooseFollows, LinkedCat DEF Brief
<1>5. FewHeads(line \o others)
  <2>1. HeadsOf(others) = {}
    BY DEF Calm, HeadsOf
  <2>2. Cardinality(HeadsOf(others)) = 0
    BY <2>1, FS_EmptySet
  <2>3. Cardinality(HeadsOf(line)) \in Nat
    BY <1>1, HeadsFinite DEF Brief
  <2>4. Cardinality(HeadsOf(line \o others)) = Cardinality(HeadsOf(line))
    BY <1>1, <2>2, <2>3, HeadsCat DEF Brief
  <2>. QED BY <1>1, <2>4 DEF Brief, FewHeads
<1>6. ASSUME NEW k \in 1..Len(line \o others) PROVE (line \o others)[k].do # "send"
  <2>1. /\ Len(line \o others) = Len(line) + Len(others) /\ Len(line) \in Nat /\ Len(others) \in Nat
        /\ (line \o others)[k] = IF k <= Len(line) THEN line[k] ELSE others[k - Len(line)]
    BY <1>1, ConcatProperties DEF Brief
  <2>2. CASE k <= Len(line)
    BY <1>1, <2>1, <2>2 DEF Brief
  <2>3. CASE ~(k <= Len(line))
    <3>1. k - Len(line) \in 1..Len(others)
      BY <2>1, <2>3
    <3>. QED BY <2>1, <2>3, <3>1 DEF Calm
  <2>. QED BY <2>2, <2>3
<1>. QED BY <1>1, <1>3, <1>4, <1>5, <1>6 DEF Brief

-----------------------------------------------------------------------------
(* Steps after which no value that was loaded is needed.                   *)
Ends == (Loose \ {"head", "send"}) \cup {"count", "up", "down"}
Poised(t) == todo[t] # <<>> => Step(t).do \in Loose

LEMMA EndsFollow == \A a, b \in Ends : \A c : Follows(a, c) => Follows(b, c)
BY DEF Ends, Loose, Follows

LEMMA LooseNext ==
    ASSUME NEW a \in Ends, NEW x \in StepType, Follows(a, x.do) PROVE x.do \in Loose
BY DEF Ends, Loose, Follows, StepType

LEMMA LineThenCalmEnds ==
    ASSUME NEW line \in Line, NEW others \in Seq(StepType), Calm(others), line \o others # <<>>
    PROVE  (line \o others)[Len(line \o others)].do \in Ends
<1>. DEFINE q == line \o others
<1>1. /\ line \in Seq(StepType) /\ (line # <<>> => line[Len(line)].do = "count")
      /\ q \in Seq(StepType)
  BY CallbackBrief, LineThenCalm DEF Brief
<1>2. /\ Len(q) = Len(line) + Len(others) /\ Len(line) \in Nat /\ Len(others) \in Nat
      /\ \A k \in 1..(Len(line) + Len(others)) :
             q[k] = IF k <= Len(line) THEN line[k] ELSE others[k - Len(line)]
  BY <1>1, ConcatProperties
<1>3. Len(q) >= 1
  BY <1>1, <1>2, EmptySeq
<1>4. CASE Len(others) = 0
  <2>1. q[Len(q)] = line[Len(line)] /\ line # <<>>
    BY <1>2, <1>3, <1>4
  <2>. QED BY <1>1, <2>1 DEF Ends
<1>5. CASE Len(others) > 0
  <2>1. q[Len(q)] = others[Len(others)] /\ Len(others) \in 1..Len(others)
    BY <1>2, <1>3, <1>5
  <2>. QED BY <2>1 DEF Calm, Ends
<1>. QED BY <1>2, <1>4, <1>5

(* What a step of one task leaves of the rest, and what comes next on it.  *)
OnlyOf(t) == \A u \in ConsoleTasks \ {t} : todo'[u] = todo[u]

LEMMA BriefReplaces ==
    ASSUME TodoInv, NEW t \in ConsoleTasks, todo[t] # <<>>, Step(t).do \in Ends,
           NEW steps, Brief(steps), steps # <<>> => steps[Len(steps)].do \in Ends,
           Then(t, steps), lines' = lines
    PROVE  TodoInv' /\ OnlyOf(t) /\ Poised(t)'
<1>1. steps \in Seq(StepType) /\ Linked(steps) /\ FewHeads(steps)
  BY DEF Brief
<1>2. steps # <<>> => \A b : Follows(Step(t).do, b) => Follows(steps[Len(steps)].do, b)
  BY EndsFollow
<1>3. \A k \in 1..Len(steps) : steps[k].do = "send" => lines >= 1
  BY DEF Brief
<1>4. /\ TodoInv' /\ OnlyOf(t)
      /\ steps # <<>> => todo'[t] # <<>> /\ todo'[t][1] = steps[1]
      /\ steps = <<>> /\ todo'[t] # <<>> => Follows(Step(t).do, todo'[t][1].do)
  BY <1>1, <1>2, <1>3, StepReplaced DEF OnlyOf
<1>5. ASSUME todo'[t] # <<>> PROVE todo'[t][1].do \in Loose
  <2>1. CASE steps # <<>>
    BY <1>4, <2>1 DEF Brief
  <2>2. CASE steps = <<>>
    <3>1. todo'[t] \in Seq(StepType)
      BY <1>4 DEF TodoInv, ConsoleTasks
    <3>2. todo'[t][1] \in StepType
      BY <1>5, <3>1
    <3>. QED BY <1>4, <1>5, <2>2, <3>2, LooseNext
  <2>. QED BY <2>1, <2>2
<1>. QED BY <1>4, <1>5 DEF Poised, Step

LEMMA BriefPut ==
    ASSUME TodoInv, NEW t \in ConsoleTasks,
           todo[t] # <<>> => Step(t).do \in {"send", "resend"},
           NEW steps, Brief(steps), todo' = [todo EXCEPT ![t] = steps \o todo[t]],
           lines' = lines
    PROVE  TodoInv' /\ OnlyOf(t) /\ Poised(t)'
<1>1. steps \in Seq(StepType) /\ Linked(steps) /\ FewHeads(steps)
  BY DEF Brief
<1>2. \A k \in 1..Len(steps) : steps[k].do # "send"
  BY DEF Brief
<1>3. /\ TodoInv' /\ OnlyOf(t)
      /\ steps # <<>> => todo'[t] # <<>> /\ todo'[t][1] = steps[1]
      /\ steps = <<>> => todo'[t] = todo[t]
  BY <1>1, <1>2, StepsPut DEF OnlyOf
<1>. QED BY <1>3 DEF Poised, Step, Brief, Loose

-----------------------------------------------------------------------------
(* A task that is between two accesses of the callback still holds what    *)
(* the first one loaded.                                                   *)
Loaded(t) ==
    /\ About(t, "text") => local[t] \in 1..lines
    /\ About(t, "advance") => local[t] \in 0..(LOG_BUFFER_SIZE - 1)
    /\ About(t, "test") => local[t] \in Nat
    /\ About(t, "count") => local[t] \in Nat \cup {AtLimit}
    /\ (\E what \in {"text", "format", "advance", "test", "count"} : About(t, what)) => lines >= 1
LocalInv == local \in [ConsoleTasks -> Int] /\ \A t \in ConsoleTasks : Loaded(t)

ConsoleInv ==
    /\ ConsoleTypeOK /\ TodoInv /\ LocalInv
    /\ orderly \in Seq(1..lines)

LEMMA PoisedLoaded == ASSUME NEW t, Poised(t)' PROVE Loaded(t)'
<1>1. \A what \in {"text", "format", "advance", "test", "count"} : ~About(t, what)'
  BY DEF Poised, About, Step, Loose
<1>. QED BY <1>1 DEF Loaded

LEMMA LocalsFollow ==
    ASSUME TodoInv, LocalInv, TodoInv', NEW t \in ConsoleTasks, OnlyOf(t), lines' >= lines,
           \/ UNCHANGED local
           \/ \E v \in Int : Load(t, v),
           Loaded(t)'
    PROVE  LocalInv'
<1>1. lines \in Nat /\ lines' \in Nat /\ local \in [ConsoleTasks -> Int]
  BY DEF TodoInv, LocalInv
<1>2. /\ local' \in [ConsoleTasks -> Int]
      /\ \A u \in ConsoleTasks \ {t} : local'[u] = local[u] /\ todo'[u] = todo[u]
  BY <1>1 DEF Load, OnlyOf
<1>3. ASSUME NEW u \in ConsoleTasks \ {t} PROVE Loaded(u)'
  <2>1. \A what : About(u, what)' = About(u, what)
    BY <1>2 DEF About, Step
  <2>2. Loaded(u)
    BY DEF LocalInv
  <2>. QED BY <1>1, <1>2, <2>1, <2>2 DEF Loaded
<1>4. \A u \in ConsoleTasks : Loaded(u)'
  BY <1>3
<1>. QED BY <1>2, <1>4 DEF LocalInv, ConsoleTasks

LEMMA LocalsKept ==
    ASSUME TodoInv, LocalInv, TodoInv', NEW t \in ConsoleTasks, OnlyOf(t), lines' = lines,
           \/ UNCHANGED local
           \/ \E v \in Int : Load(t, v),
           Poised(t)'
    PROVE  LocalInv'
<1>1. lines' >= lines
  BY DEF TodoInv
<1>. QED BY <1>1, PoisedLoaded, LocalsFollow

(* A task that changes the slots or the count of clients, between two      *)
(* accesses; and a step of a task that is not, after it either.            *)
Changing(t) == \E what \in {"up", "clear", "down"} : About(t, what)
Aside(t) ==
    /\ OnlyOf(t) /\ \A u \in ConsoleTasks \ {t} : local'[u] = local[u]
    /\ ~Changing(t)'

LEMMA AsideOthers ==
    ASSUME LocalInv, NEW t \in ConsoleTasks,
           \/ UNCHANGED local
           \/ \E v \in Int : Load(t, v)
    PROVE  \A u \in ConsoleTasks \ {t} : local'[u] = local[u]
BY DEF LocalInv, Load

LEMMA AsidePoised ==
    ASSUME LocalInv, NEW t \in ConsoleTasks, OnlyOf(t), Poised(t)',
           \/ UNCHANGED local
           \/ \E v \in Int : Load(t, v)
    PROVE  Aside(t)
<1>1. ~Changing(t)'
  BY DEF Poised, Changing, About, Step, Loose
<1>. QED BY <1>1, AsideOthers DEF Aside

LEMMA LogKeeps ==
    ASSUME ConsoleInv, NEW t \in ConsoleTasks, Log(t) PROVE ConsoleInv' /\ Aside(t)
<1>. USE DEF ConsoleInv, Log
<1>1. PICK line \in Line : todo' = [todo EXCEPT ![t] = line]
  OBVIOUS
<1>2. Brief(line) /\ line \in Seq(StepType)
  BY CallbackBrief DEF Brief
<1>3. line = line \o todo[t]
  BY <1>2, ConcatEmptySeq
<1>4. TodoInv' /\ OnlyOf(t) /\ Poised(t)'
  BY <1>1, <1>2, <1>3, BriefPut
<1>5. LocalInv'
  BY <1>4, LocalsKept
<1>6. ConsoleTypeOK'
  BY DEF ConsoleTypeOK, ring, registry, sockets, viewers
<1>9. Aside(t)
  BY <1>4, AsidePoised DEF ConsoleInv
<1>. QED BY <1>9, <1>4, <1>5, <1>6 DEF past

(* A step that leads to no others: what comes next follows it.             *)
Ensues(t) ==
    todo'[t] # <<>> => Follows(Step(t).do, todo'[t][1].do) /\ todo'[t][1] \in StepType

LEMMA DoneKeeps ==
    ASSUME TodoInv, NEW t \in ConsoleTasks, todo[t] # <<>>, Done(t),
           \/ lines' = lines
           \/ lines' = lines + 1 /\ Step(t).do = "head"
    PROVE  TodoInv' /\ OnlyOf(t) /\ Ensues(t)
<1>1. <<>> \in Seq(StepType) /\ Linked(<<>>) /\ FewHeads(<<>>) /\ Then(t, <<>>)
  <2>1. HeadsOf(<<>>) = {}
    BY DEF HeadsOf
  <2>2. FewHeads(<<>>)
    BY <2>1, FS_EmptySet DEF FewHeads
  <2>3. <<>> \in Seq(StepType) /\ Linked(<<>>)
    BY DEF Linked
  <2>. QED BY <2>2, <2>3 DEF Done
<1>2. PICK none : none = <<>>
  OBVIOUS
<1>3. /\ none \in Seq(StepType) /\ Linked(none) /\ FewHeads(none) /\ Then(t, none)
      /\ \A k \in 1..Len(none) : none[k].do = "send" => lines >= 1
      /\ \/ lines' = lines
         \/ lines' = lines + 1 /\ Step(t).do = "head" /\ none = <<>>
      /\ none = <<>>
  BY <1>1, <1>2
<1>4. /\ TodoInv' /\ OnlyOf(t)
      /\ todo'[t] # <<>> => Follows(Step(t).do, todo'[t][1].do)
  BY <1>3, StepReplaced DEF OnlyOf
<1>5. todo'[t] \in Seq(StepType)
  BY <1>4 DEF TodoInv, ConsoleTasks
<1>. QED BY <1>4, <1>5 DEF Ensues

LEMMA AsideEnsues ==
    ASSUME LocalInv, NEW t \in ConsoleTasks, OnlyOf(t), Ensues(t), Step(t).do # "clear",
           \/ UNCHANGED local
           \/ \E v \in Int : Load(t, v)
    PROVE  Aside(t)
<1>1. ~Changing(t)'
  BY DEF Ensues, Changing, About, Step, Follows
<1>. QED BY <1>1, AsideOthers DEF Aside

LEMMA DonePoised ==
    ASSUME TodoInv, NEW t \in ConsoleTasks, todo[t] # <<>>, Done(t), lines' = lines,
           Step(t).do \in Ends
    PROVE  TodoInv' /\ OnlyOf(t) /\ Poised(t)'
<1>1. TodoInv' /\ OnlyOf(t) /\ Ensues(t)
  BY DoneKeeps
<1>2. todo'[t] # <<>> => todo'[t][1].do \in Loose
  BY <1>1, LooseNext DEF Ensues
<1>. QED BY <1>1, <1>2 DEF Poised, Step

-----------------------------------------------------------------------------
(* The steps of the callback.                                              *)
LEMMA LinesBoundNext == ASSUME TodoInv' PROVE lines' \in 0..MaxLines /\ lines' \in Nat
<1>1. Ahead' = Cardinality(AheadSet')
  BY DEF Ahead, AheadSet, AheadOf, HeadsOf
<1>0. PICK n : n = Ahead'
  OBVIOUS
<1>2. n \in Nat
  BY <1>0, <1>1, FS_CardinalityType DEF TodoInv
<1>3. lines' \in Nat /\ lines' + n <= MaxLines /\ MaxLines \in Nat
  BY <1>0, ConsoleAssumption DEF TodoInv
<1>4. PICK m : m = lines'
  OBVIOUS
<1>5. m \in Nat /\ m + n <= MaxLines
  BY <1>3, <1>4
<1>6. m \in 0..MaxLines
  BY <1>2, <1>3, <1>5
<1>. QED BY <1>4, <1>5, <1>6

LEMMA SeqWidens ==
    ASSUME NEW S, NEW T, S \subseteq T, NEW s \in Seq(S) PROVE s \in Seq(T)
<1>1. PICK n \in Nat : s \in [1..n -> S]
  BY SeqDef
<1>2. s \in [1..n -> T]
  BY <1>1
<1>. QED BY <1>2, SeqDef

LEMMA StoreHeadKeeps ==
    ASSUME ConsoleInv, NEW t \in ConsoleTasks, StoreHead(t) PROVE ConsoleInv' /\ Aside(t)
<1>1. todo[t] # <<>> /\ Step(t).do = "head" /\ lines' = lines + 1 /\ Done(t) /\ Load(t, lines')
  BY DEF StoreHead, About
<1>2. TodoInv' /\ OnlyOf(t) /\ Ensues(t)
  BY <1>1, DoneKeeps DEF ConsoleInv
<1>3. lines \in Nat /\ lines' \in 1..lines' /\ lines' \in 0..MaxLines /\ lines' \in Nat
  <2>1. lines' \in 0..MaxLines
    BY <1>2, LinesBoundNext
  <2>2. lines \in Nat
    BY DEF ConsoleInv, TodoInv
  <2>. QED BY <1>1, <2>1, <2>2
<1>4. LocalInv'
  <2>1. local' = [local EXCEPT ![t] = lines'] /\ local'[t] = lines'
    BY <1>1 DEF Load, ConsoleInv, LocalInv
  <2>2. \A what \in {"format", "advance", "test", "count"} : ~About(t, what)'
    BY <1>1, <1>2 DEF Ensues, Follows, About, Step
  <2>3. Loaded(t)'
    BY <1>3, <2>1, <2>2 DEF Loaded
  <2>4. lines' >= lines /\ \E v \in Int : Load(t, v)
    BY <1>1, <1>3
  <2>. QED BY <1>2, <2>3, <2>4, LocalsFollow DEF ConsoleInv
<1>5. ConsoleTypeOK'
  <2>1. logBuffer' \in [0..(LOG_BUFFER_SIZE - 1) -> [head : 0..lines', text : 0..lines']]
    <3>. DEFINE Wide == [head : 0..lines', text : 0..lines']
    <3>1. /\ logBuffer \in [0..(LOG_BUFFER_SIZE - 1) -> [head : 0..lines, text : 0..lines]]
          /\ logBufferIndex \in 0..(LOG_BUFFER_SIZE - 1)
      BY DEF ConsoleInv, ConsoleTypeOK
    <3>2. 0..lines \subseteq 0..lines' /\ lines' \in 0..lines'
      BY <1>1, <1>3
    <3>3. logBuffer \in [0..(LOG_BUFFER_SIZE - 1) -> Wide]
      BY <3>1, <3>2
    <3>4. [logBuffer[logBufferIndex] EXCEPT !.head = lines'] \in Wide
      BY <3>1, <3>2, <3>3
    <3>5. logBuffer' = [logBuffer EXCEPT ![logBufferIndex] =
                            [logBuffer[logBufferIndex] EXCEPT !.head = lines']]
      BY <3>1 DEF StoreHead
    <3>. QED BY <3>3, <3>4, <3>5
  <2>2. missing' \in [Sockets -> SUBSET (1..lines')]
    <3>1. missing \in [Sockets -> SUBSET (1..lines)]
      BY DEF ConsoleInv, ConsoleTypeOK
    <3>2. 1..lines \subseteq 1..lines'
      BY <1>1, <1>3
    <3>3. \A s \in Sockets : missing[s] \cup {x \in {lines'} : Claims(s)} \in SUBSET (1..lines')
      BY <1>3, <3>1, <3>2
    <3>4. \/ missing' = [s \in Sockets |-> missing[s] \cup {x \in {lines'} : Claims(s)}]
          \/ missing' = [s \in Sockets |-> {}]
      BY DEF StoreHead
    <3>. QED BY <3>3, <3>4
  <2>. QED BY <1>3, <2>1, <2>2 DEF ConsoleInv, ConsoleTypeOK, StoreHead, registry, sockets, Places
<1>6. orderly' \in Seq(1..lines')
  <2>1. orderly' = orderly \/ orderly' = <<>>
    BY DEF StoreHead, past
  <2>2. 1..lines \subseteq 1..lines'
    BY <1>1, <1>3
  <2>3. orderly \in Seq(1..lines')
    BY <2>2, SeqWidens DEF ConsoleInv
  <2>4. <<>> \in Seq(1..lines')
    OBVIOUS
  <2>. QED BY <2>1, <2>3, <2>4
<1>9. Aside(t)
  BY <1>1, <1>2, <1>3, AsideEnsues DEF ConsoleInv
<1>. QED BY <1>9, <1>2, <1>4, <1>5, <1>6 DEF ConsoleInv

LEMMA StoreTextKeeps ==
    ASSUME ConsoleInv, NEW t \in ConsoleTasks, StoreText(t) PROVE ConsoleInv' /\ Aside(t)
<1>1. /\ todo[t] # <<>> /\ Step(t).do = "text" /\ lines' = lines /\ Done(t) /\ Load(t, 0)
      /\ About(t, "text")
  BY DEF StoreText, About
<1>2. TodoInv' /\ OnlyOf(t) /\ Ensues(t)
  BY <1>1, DoneKeeps DEF ConsoleInv
<1>3. local[t] \in 1..lines /\ lines >= 1 /\ lines \in Nat
  BY <1>1 DEF ConsoleInv, LocalInv, Loaded, TodoInv
<1>4. LocalInv'
  <2>1. \A what \in {"text", "advance", "test", "count"} : ~About(t, what)'
    BY <1>1, <1>2 DEF Ensues, Follows, About, Step
  <2>2. Loaded(t)'
    BY <1>1, <1>3, <2>1 DEF Loaded
  <2>3. lines' >= lines /\ \E v \in Int : Load(t, v)
    BY <1>1, <1>3
  <2>. QED BY <1>2, <2>2, <2>3, LocalsFollow DEF ConsoleInv
<1>5. ConsoleTypeOK'
  <2>1. logBuffer' \in [0..(LOG_BUFFER_SIZE - 1) -> [head : 0..lines, text : 0..lines]]
    <3>1. /\ logBuffer \in [0..(LOG_BUFFER_SIZE - 1) -> [head : 0..lines, text : 0..lines]]
          /\ logBufferIndex \in 0..(LOG_BUFFER_SIZE - 1)
      BY DEF ConsoleInv, ConsoleTypeOK
    <3>2. local[t] \in 0..lines
      BY <1>3
    <3>3. [logBuffer[logBufferIndex] EXCEPT !.text = local[t]] \in [head : 0..lines, text : 0..lines]
      BY <3>1, <3>2
    <3>4. logBuffer' = [logBuffer EXCEPT ![logBufferIndex] =
                            [logBuffer[logBufferIndex] EXCEPT !.text = local[t]]]
      BY <3>1 DEF StoreText
    <3>. QED BY <3>1, <3>3, <3>4
  <2>. QED BY <1>1, <2>1 DEF ConsoleInv, ConsoleTypeOK, StoreText, registry, sockets, viewers, Places
<1>9. Aside(t)
  BY <1>1, <1>2, AsideEnsues DEF ConsoleInv
<1>. QED BY <1>9, <1>1, <1>2, <1>4, <1>5 DEF ConsoleInv, StoreText, past

LEMMA FormatKeeps ==
    ASSUME ConsoleInv, NEW t \in ConsoleTasks, Format(t) PROVE ConsoleInv' /\ Aside(t)
<1>1. todo[t] # <<>> /\ Step(t).do = "format" /\ lines' = lines /\ About(t, "format")
  BY DEF Format, About
<1>2. lines >= 1 /\ lines \in Nat
  BY <1>1 DEF ConsoleInv, LocalInv, Loaded, TodoInv
<1>3. TodoInv' /\ LocalInv' /\ Aside(t)
  <2>1. CASE Listened
    <3>. DEFINE e == logBuffer[logBufferIndex]
                send == [do |-> "send", entry |-> e]
    <3>1. e \in [head : Nat, text : Nat]
      <4>1. e \in [head : 0..lines, text : 0..lines]
        BY DEF ConsoleInv, ConsoleTypeOK
      <4>2. 0..lines \subseteq Nat
        BY <1>2
      <4>. QED BY <4>1, <4>2
    <3>2. PICK steps : steps = <<send>>
      OBVIOUS
    <3>3. send \in StepType /\ send.do = "send"
      BY <3>1 DEF StepType
    <3>. HIDE DEF send
    <3>4. steps \in Seq(StepType) /\ Len(steps) = 1 /\ steps[1] = send /\ steps # <<>>
      BY <3>2, <3>3
    <3>5. Linked(steps)
      BY <3>3, <3>4 DEF Linked
    <3>6. FewHeads(steps)
      <4>1. HeadsOf(steps) = {}
        BY <3>2, <3>3 DEF HeadsOf
      <4>. QED BY <4>1, FS_EmptySet DEF FewHeads
    <3>7. \A b : Follows(Step(t).do, b) => Follows(steps[Len(steps)].do, b)
      BY <1>1, <3>3, <3>4 DEF Follows
    <3>8. Then(t, steps) /\ UNCHANGED local
      BY <2>1, <3>2 DEF Format, send
    <3>9. \A k \in 1..Len(steps) : steps[k].do = "send" => lines >= 1
      BY <1>2
    <3>10. TodoInv' /\ OnlyOf(t) /\ todo'[t] # <<>> /\ todo'[t][1] = steps[1]
      BY <1>1, <3>4, <3>5, <3>6, <3>7, <3>8, <3>9, StepReplaced DEF OnlyOf, ConsoleInv
    <3>11. Poised(t)'
      BY <3>3, <3>4, <3>10 DEF Poised, Step, Loose
    <3>12. Aside(t)
      BY <3>8, <3>10, <3>11, AsidePoised DEF ConsoleInv
    <3>. QED BY <1>1, <3>8, <3>10, <3>11, <3>12, LocalsKept DEF ConsoleInv
  <2>2. CASE ~Listened
    <3>1. Done(t) /\ Load(t, logBufferIndex)
      BY <2>2 DEF Format
    <3>2. TodoInv' /\ OnlyOf(t) /\ Ensues(t)
      BY <1>1, <3>1, DoneKeeps DEF ConsoleInv
    <3>3. \A what \in {"text", "format", "test", "count"} : ~About(t, what)'
      BY <1>1, <3>2 DEF Ensues, Follows, About, Step
    <3>4. local'[t] = logBufferIndex /\ logBufferIndex \in 0..(LOG_BUFFER_SIZE - 1)
      BY <3>1 DEF Load, ConsoleInv, LocalInv, ConsoleTypeOK
    <3>5. Loaded(t)'
      BY <1>1, <1>2, <3>3, <3>4 DEF Loaded
    <3>6. lines' >= lines /\ \E v \in Int : Load(t, v)
      BY <1>1, <1>2, <3>1, <3>4, ConsoleAssumption
    <3>7. Aside(t)
      BY <1>1, <3>2, <3>6, AsideEnsues DEF ConsoleInv
    <3>. QED BY <3>2, <3>5, <3>6, <3>7, LocalsFollow DEF ConsoleInv
  <2>. QED BY <2>1, <2>2
<1>4. ConsoleTypeOK'
  BY DEF ConsoleInv, ConsoleTypeOK, Format, ring, registry, sockets, viewers, Places
<1>. QED BY <1>3, <1>4 DEF ConsoleInv, Format, past

LEMMA ShowType ==
    ASSUME missing \in [Sockets -> SUBSET (1..lines)], NEW e, NEW s \in Sockets
    PROVE  Show(e, s) \in SUBSET (1..lines)
BY DEF Show

LEMMA SendKeeps ==
    ASSUME ConsoleInv, NEW t \in ConsoleTasks, Send(t) PROVE ConsoleInv' /\ Aside(t)
<1>1. /\ todo[t] # <<>> /\ Step(t).do = "send" /\ lines' = lines /\ Done(t)
      /\ Load(t, logBufferIndex)
  BY DEF Send, About
<1>2. TodoInv' /\ OnlyOf(t) /\ Ensues(t)
  BY <1>1, DoneKeeps DEF ConsoleInv
<1>3. lines >= 1 /\ lines \in Nat
  <2>1. todo[t] \in Seq(StepType) /\ 1 \in 1..Len(todo[t]) /\ Step(t) = todo[t][1]
    BY <1>1, EmptySeq DEF ConsoleInv, TodoInv, Step
  <2>. QED BY <1>1, <2>1 DEF ConsoleInv, TodoInv
<1>4. LocalInv' /\ Aside(t)
  <2>1. \A what \in {"text", "format", "test", "count"} : ~About(t, what)'
    BY <1>1, <1>2 DEF Ensues, Follows, About, Step
  <2>2. local'[t] = logBufferIndex /\ logBufferIndex \in 0..(LOG_BUFFER_SIZE - 1)
    BY <1>1 DEF Load, ConsoleInv, LocalInv, ConsoleTypeOK
  <2>3. Loaded(t)'
    BY <1>1, <1>3, <2>1, <2>2 DEF Loaded
  <2>4. lines' >= lines /\ \E v \in Int : Load(t, v)
    BY <1>1, <1>3, <2>2, ConsoleAssumption
  <2>5. Aside(t)
    BY <1>1, <1>2, <2>4, AsideEnsues DEF ConsoleInv
  <2>. QED BY <1>2, <2>3, <2>4, <2>5, LocalsFollow DEF ConsoleInv
<1>5. ConsoleTypeOK'
  <2>1. missing' \in [Sockets -> SUBSET (1..lines)]
    <3>1. missing \in [Sockets -> SUBSET (1..lines)]
      BY DEF ConsoleInv, ConsoleTypeOK
    <3>2. \A s \in Sockets : Show(Step(t).entry, s) \in SUBSET (1..lines)
      BY <3>1, ShowType
    <3>. QED BY <3>1, <3>2 DEF Send
  <2>. QED BY <1>1, <2>1 DEF ConsoleInv, ConsoleTypeOK, Send, ring, registry, sockets, Places
<1>. QED BY <1>1, <1>2, <1>4, <1>5 DEF ConsoleInv, Send, past

LEMMA AdvanceKeeps ==
    ASSUME ConsoleInv, NEW t \in ConsoleTasks, Advance(t) PROVE ConsoleInv' /\ Aside(t)
<1>1. /\ todo[t] # <<>> /\ Step(t).do = "advance" /\ lines' = lines /\ Done(t)
      /\ Load(t, logBufferCount) /\ About(t, "advance")
  BY DEF Advance, About
<1>2. TodoInv' /\ OnlyOf(t) /\ Ensues(t)
  BY <1>1, DoneKeeps DEF ConsoleInv
<1>3. lines >= 1 /\ lines \in Nat /\ local[t] \in 0..(LOG_BUFFER_SIZE - 1)
  BY <1>1 DEF ConsoleInv, LocalInv, Loaded, TodoInv
<1>4. LocalInv' /\ Aside(t)
  <2>1. \A what \in {"text", "format", "advance", "count"} : ~About(t, what)'
    BY <1>1, <1>2 DEF Ensues, Follows, About, Step
  <2>2. local'[t] = logBufferCount /\ logBufferCount \in Nat
    BY <1>1 DEF Load, ConsoleInv, LocalInv, ConsoleTypeOK
  <2>3. Loaded(t)'
    BY <1>1, <1>3, <2>1, <2>2 DEF Loaded
  <2>4. lines' >= lines /\ \E v \in Int : Load(t, v)
    BY <1>1, <1>3, <2>2, ConsoleAssumption
  <2>5. Aside(t)
    BY <1>1, <1>2, <2>4, AsideEnsues DEF ConsoleInv
  <2>. QED BY <1>2, <2>3, <2>4, <2>5, LocalsFollow DEF ConsoleInv
<1>5. logBufferIndex' \in 0..(LOG_BUFFER_SIZE - 1)
  <2>1. (local[t] + 1) % LOG_BUFFER_SIZE \in 0..(LOG_BUFFER_SIZE - 1)
    BY <1>3, ConsoleAssumption
  <2>. QED BY <2>1 DEF Advance, Advanced
<1>6. ConsoleTypeOK'
  BY <1>1, <1>5 DEF ConsoleInv, ConsoleTypeOK, Advance, registry, sockets, viewers, Places
<1>. QED BY <1>1, <1>2, <1>4, <1>6 DEF ConsoleInv, Advance, past

LEMMA TestCountKeeps ==
    ASSUME ConsoleInv, NEW t \in ConsoleTasks, TestCount(t) PROVE ConsoleInv' /\ Aside(t)
<1>1. /\ todo[t] # <<>> /\ Step(t).do = "test" /\ lines' = lines /\ Done(t)
      /\ Load(t, IF BelowLimit(local[t]) THEN logBufferCount ELSE AtLimit) /\ About(t, "test")
  BY DEF TestCount, About
<1>2. TodoInv' /\ OnlyOf(t) /\ Ensues(t)
  BY <1>1, DoneKeeps DEF ConsoleInv
<1>3. lines >= 1 /\ lines \in Nat
  BY <1>1 DEF ConsoleInv, LocalInv, Loaded, TodoInv
<1>4. LocalInv' /\ Aside(t)
  <2>1. \A what \in {"text", "format", "advance", "test"} : ~About(t, what)'
    BY <1>1, <1>2 DEF Ensues, Follows, About, Step
  <2>2. PICK v : v = IF BelowLimit(local[t]) THEN logBufferCount ELSE AtLimit
    OBVIOUS
  <2>3. v \in Nat \cup {AtLimit} /\ v \in Int
    BY <2>2 DEF ConsoleInv, ConsoleTypeOK, AtLimit
  <2>4. Load(t, v)
    BY <1>1, <2>2
  <2>5. local'[t] = v
    BY <2>4 DEF Load, ConsoleInv, LocalInv
  <2>6. Loaded(t)'
    BY <1>1, <1>3, <2>1, <2>3, <2>5 DEF Loaded, AtLimit
  <2>7. lines' >= lines /\ \E w \in Int : Load(t, w)
    BY <1>1, <1>3, <2>3, <2>4
  <2>8. Aside(t)
    BY <1>1, <1>2, <2>7, AsideEnsues DEF ConsoleInv
  <2>. QED BY <1>2, <2>6, <2>7, <2>8, LocalsFollow DEF ConsoleInv
<1>5. ConsoleTypeOK'
  BY DEF ConsoleInv, ConsoleTypeOK, TestCount, ring, registry, sockets, viewers, Places
<1>. QED BY <1>1, <1>2, <1>4, <1>5 DEF ConsoleInv, TestCount, past

LEMMA LastOfType ==
    ASSUME NEW S, NEW s \in Seq(S), NEW n \in Int PROVE LastOf(s, n) \in Seq(S)
<1>1. CASE n < 0
  BY <1>1 DEF LastOf
<1>2. CASE ~(n < 0)
  <2>. DEFINE m == Len(s) - Least(Len(s), n) + 1
  <2>1. m \in Int /\ m >= 1 /\ Len(s) \in Int /\ Len(s) \in Nat
    BY <1>2 DEF Least
  <2>2. \A i \in m..Len(s) : i \in 1..Len(s)
    BY <2>1
  <2>3. \A i \in m..Len(s) : s[i] \in S
    BY <2>2
  <2>. HIDE DEF m
  <2>4. SubSeq(s, m, Len(s)) \in Seq(S)
    BY <2>1, <2>3, SubSeqProperties
  <2>. QED BY <1>2, <2>4 DEF LastOf, m
<1>. QED BY <1>1, <1>2

LEMMA CountKeeps ==
    ASSUME ConsoleInv, NEW t \in ConsoleTasks, Count(t) PROVE ConsoleInv' /\ Aside(t)
<1>1. /\ todo[t] # <<>> /\ Step(t).do = "count" /\ lines' = lines /\ Done(t)
      /\ Load(t, 0) /\ About(t, "count")
  BY DEF Count, About
<1>2. TodoInv' /\ OnlyOf(t) /\ Poised(t)'
  <2>1. "count" \in Ends
    BY DEF Ends
  <2>. QED BY <1>1, <2>1, DonePoised DEF ConsoleInv
<1>3. lines >= 1 /\ lines \in Nat /\ local[t] \in Nat \cup {AtLimit}
  BY <1>1 DEF ConsoleInv, LocalInv, Loaded, TodoInv
<1>4. LocalInv'
  <2>1. \E v \in Int : Load(t, v)
    BY <1>1
  <2>. QED BY <1>1, <1>2, <2>1, LocalsKept DEF ConsoleInv
<1>5. logBufferCount' \in Nat
  BY <1>3 DEF Count, ConsoleInv, ConsoleTypeOK
<1>6. ConsoleTypeOK'
  BY <1>1, <1>5 DEF ConsoleInv, ConsoleTypeOK, Count, registry, sockets, viewers, Places
<1>7. orderly' \in Seq(1..lines)
  <2>1. orderly \in Seq(1..lines) /\ lines \in 1..lines
    BY <1>3 DEF ConsoleInv
  <2>2. Append(orderly, lines) \in Seq(1..lines)
    BY <2>1
  <2>3. LastOf(Append(orderly, lines), LOG_BUFFER_SIZE) \in Seq(1..lines)
    <3>1. LOG_BUFFER_SIZE \in Int
      BY ConsoleAssumption
    <3>. QED BY <2>2, <3>1, LastOfType
  <2>4. <<>> \in Seq(1..lines)
    OBVIOUS
  <2>. QED BY <2>3, <2>4 DEF Count
<1>9. Aside(t)
  BY <1>1, <1>2, AsidePoised DEF ConsoleInv
<1>. QED BY <1>9, <1>1, <1>2, <1>4, <1>6, <1>7 DEF ConsoleInv

-----------------------------------------------------------------------------
(* The handlers of the library's events, and what they have the web task   *)
(* do.                                                                     *)
LEMMA CalmCat ==
    ASSUME NEW a \in Seq(StepType), NEW b \in Seq(StepType), Calm(a), Calm(b)
    PROVE  a \o b \in Seq(StepType) /\ Calm(a \o b) /\ Len(a \o b) = Len(a) + Len(b)
<1>1. /\ a \o b \in Seq(StepType) /\ Len(a \o b) = Len(a) + Len(b)
      /\ Len(a) \in Nat /\ Len(b) \in Nat
      /\ \A k \in 1..(Len(a) + Len(b)) :
             (a \o b)[k] = IF k <= Len(a) THEN a[k] ELSE b[k - Len(a)]
  BY ConcatProperties
<1>2. ASSUME NEW k \in 1..Len(a \o b) PROVE (a \o b)[k].do \in Loose \ {"head", "send"}
  <2>1. CASE k <= Len(a)
    <3>1. k \in 1..Len(a) /\ (a \o b)[k] = a[k]
      BY <1>1, <2>1
    <3>. QED BY <3>1 DEF Calm
  <2>2. CASE ~(k <= Len(a))
    <3>1. k - Len(a) \in 1..Len(b) /\ (a \o b)[k] = b[k - Len(a)]
      BY <1>1, <2>2
    <3>. QED BY <3>1 DEF Calm
  <2>. QED BY <2>1, <2>2
<1>. QED BY <1>1, <1>2 DEF Calm

LEMMA OneCalm ==
    ASSUME NEW x \in StepType, x.do \in Loose \ {"head", "send"}
    PROVE  <<x>> \in Seq(StepType) /\ Calm(<<x>>) /\ Len(<<x>>) = 1
<1>1. <<x>> \in Seq(StepType) /\ Len(<<x>>) = 1 /\ <<x>>[1] = x
  OBVIOUS
<1>2. \A k \in 1..1 : k = 1
  OBVIOUS
<1>. QED BY <1>1, <1>2 DEF Calm

LEMMA CalmBrief ==
    ASSUME NEW q \in Seq(StepType), Calm(q)
    PROVE  Brief(q) /\ (q # <<>> => q[Len(q)].do \in Ends)
<1>1. PICK none : none = <<>>
  OBVIOUS
<1>2. none \in Line /\ none \o q = q
  BY <1>1, ConcatEmptySeq DEF Line
<1>. QED BY <1>2, LineThenCalm, LineThenCalmEnds

LEMMA DisconnectedBrief ==
    ASSUME NEW s \in Sockets, NEW steps \in DISCONNECTED(s)
    PROVE  Brief(steps) /\ steps # <<>> /\ steps[Len(steps)].do \in Ends
<1>1. PICK line \in Line : steps = line \o <<On("remove", s)>>
  BY DEF DISCONNECTED
<1>2. PICK others : others = <<On("remove", s)>>
  OBVIOUS
<1>3. On("remove", s) \in StepType /\ On("remove", s).do = "remove"
  BY StepKinds
<1>4. others \in Seq(StepType) /\ Calm(others) /\ others # <<>>
  BY <1>2, <1>3, OneCalm DEF Loose
<1>5. Brief(line \o others) /\ line \o others # <<>>
  BY <1>4, LineThenCalm
<1>6. (line \o others)[Len(line \o others)].do \in Ends
  BY <1>4, <1>5, LineThenCalmEnds
<1>. QED BY <1>1, <1>2, <1>5, <1>6

LEMMA NoticeKeeps ==
    ASSUME ConsoleInv, NEW t \in ConsoleTasks, NEW s \in Sockets, Notice(t, s)
    PROVE  ConsoleInv' /\ Aside(t)
<1>1. PICK steps \in DISCONNECTED(s) : todo' = [todo EXCEPT ![t] = steps \o @]
  BY DEF Notice
<1>2. todo' = [todo EXCEPT ![t] = steps \o todo[t]]
  BY <1>1
<1>3. Brief(steps)
  BY DisconnectedBrief
<1>4. todo[t] # <<>> => Step(t).do \in {"send", "resend"}
  BY DEF Notice, About
<1>5. lines' = lines /\ UNCHANGED local
  BY DEF Notice
<1>6. TodoInv' /\ OnlyOf(t) /\ Poised(t)'
  BY <1>2, <1>3, <1>4, <1>5, BriefPut DEF ConsoleInv
<1>7. LocalInv' /\ Aside(t)
  BY <1>5, <1>6, LocalsKept, AsidePoised DEF ConsoleInv
<1>8. ConsoleTypeOK'
  BY DEF ConsoleInv, ConsoleTypeOK, Notice, Close, ring, registry, viewers, Places
<1>. QED BY <1>6, <1>7, <1>8 DEF ConsoleInv, Notice, past

LEMMA ErrorEventKeeps ==
    ASSUME ConsoleInv, NEW s \in Sockets, ErrorEvent(s)
    PROVE  ConsoleInv' /\ Aside(Web)
<1>0. Web \in ConsoleTasks /\ todo[Web] = <<>>
  BY DEF ConsoleTasks, ErrorEvent
<1>1. PICK steps \in DISCONNECTED(s) : todo' = [todo EXCEPT ![Web] = steps]
  BY DEF ErrorEvent
<1>3. Brief(steps)
  BY DisconnectedBrief
<1>2. todo' = [todo EXCEPT ![Web] = steps \o todo[Web]]
  <2>1. steps \o todo[Web] = steps
    BY <1>0, <1>3, ConcatEmptySeq DEF Brief
  <2>. QED BY <1>1, <2>1
<1>5. lines' = lines /\ UNCHANGED local
  BY DEF ErrorEvent
<1>6. TodoInv' /\ OnlyOf(Web) /\ Poised(Web)'
  BY <1>0, <1>2, <1>3, <1>5, BriefPut DEF ConsoleInv
<1>7. LocalInv' /\ Aside(Web)
  BY <1>0, <1>5, <1>6, LocalsKept, AsidePoised DEF ConsoleInv
<1>8. ConsoleTypeOK'
  BY DEF ConsoleInv, ConsoleTypeOK, ErrorEvent, ring, registry, sockets, viewers, Places
<1>. QED BY <1>6, <1>7, <1>8 DEF ConsoleInv, ErrorEvent, past

LEMMA VisitsCalm ==
    ASSUME NEW s \in Sockets, NEW a \in Addresses
    PROVE  Visits(s, a) \in Seq(StepType) /\ Calm(Visits(s, a))
<1>. DEFINE x(i) == [do |-> "visit", place |-> i, socket |-> s, ip |-> a]
<1>1. \A i \in Places : x(i) \in StepType /\ x(i).do = "visit"
  BY DEF StepType
<1>. HIDE DEF x
<1>2. Visits(s, a) = [i \in 1..MAX_WEBSOCKET_CLIENTS |-> x(i)]
  BY DEF Visits, Places, x
<1>3. MAX_WEBSOCKET_CLIENTS \in Nat
  BY ConsoleAssumption
<1>4. Visits(s, a) \in Seq(StepType) /\ Len(Visits(s, a)) = MAX_WEBSOCKET_CLIENTS
  BY <1>1, <1>2, <1>3 DEF Places
<1>5. \A i \in Places : Visits(s, a)[i].do = "visit"
  BY <1>1, <1>2 DEF Places
<1>. QED BY <1>4, <1>5 DEF Calm, Loose, Places

LEMMA WelcomeCalm ==
    ASSUME NEW s \in Sockets, NEW a \in Addresses
    PROVE  Welcome(s, a) \in Seq(StepType) /\ Calm(Welcome(s, a)) /\ Welcome(s, a) # <<>>
<1>1. PICK first : first = <<[do |-> "add", socket |-> s, ip |-> a]>>
  OBVIOUS
<1>2. PICK middle : middle = Visits(s, a)
  OBVIOUS
<1>3. PICK last : last = <<On("replay", s)>>
  OBVIOUS
<1>4. first \in Seq(StepType) /\ Calm(first) /\ Len(first) = 1
  <2>1. PICK x : x = [do |-> "add", socket |-> s, ip |-> a]
    OBVIOUS
  <2>2. x \in StepType /\ x.do = "add"
    BY <2>1 DEF StepType
  <2>. QED BY <1>1, <2>1, <2>2, OneCalm DEF Loose
<1>5. middle \in Seq(StepType) /\ Calm(middle)
  BY <1>2, VisitsCalm
<1>6. last \in Seq(StepType) /\ Calm(last)
  <2>1. On("replay", s) \in StepType /\ On("replay", s).do = "replay"
    BY StepKinds
  <2>. QED BY <1>3, <2>1, OneCalm DEF Loose
<1>7. PICK front : front = first \o middle
  OBVIOUS
<1>8. /\ front \in Seq(StepType) /\ Calm(front) /\ Len(front) = 1 + Len(middle)
      /\ Len(middle) \in Nat /\ Len(last) \in Nat
  <2>1. /\ first \o middle \in Seq(StepType) /\ Calm(first \o middle)
        /\ Len(first \o middle) = Len(first) + Len(middle)
    BY <1>4, <1>5, CalmCat
  <2>2. Len(middle) \in Nat /\ Len(last) \in Nat
    BY <1>5, <1>6
  <2>. QED BY <1>4, <1>7, <2>1, <2>2
<1>9. /\ front \o last \in Seq(StepType) /\ Calm(front \o last)
      /\ Len(front \o last) = Len(front) + Len(last)
  BY <1>6, <1>8, CalmCat
<1>10. Welcome(s, a) = front \o last
  BY <1>1, <1>2, <1>3, <1>7 DEF Welcome
<1>11. Len(front \o last) # 0
  BY <1>8, <1>9
<1>. QED BY <1>9, <1>10, <1>11

LEMMA AcceptKeeps ==
    ASSUME ConsoleInv, NEW s \in Sockets, NEW a \in Addresses, Accept(s, a)
    PROVE  ConsoleInv' /\ Aside(Web)
<1>0. Web \in ConsoleTasks /\ todo[Web] = <<>>
  BY DEF ConsoleTasks, Accept
<1>. DEFINE after == IF Refused(a) THEN <<On("disconnect", s)>> ELSE Welcome(s, a)
<1>1. PICK line \in Line : todo' = [todo EXCEPT ![Web] = line \o after]
  BY DEF Accept
<1>2. PICK others : others = after
  OBVIOUS
<1>3. others \in Seq(StepType) /\ Calm(others)
  <2>1. PICK one : one = <<On("disconnect", s)>>
    OBVIOUS
  <2>2. one \in Seq(StepType) /\ Calm(one)
    <3>1. On("disconnect", s) \in StepType /\ On("disconnect", s).do = "disconnect"
      BY StepKinds
    <3>. QED BY <2>1, <3>1, OneCalm DEF Loose
  <2>. QED BY <1>2, <2>1, <2>2, WelcomeCalm
<1>4. PICK steps : steps = line \o others
  OBVIOUS
<1>5. Brief(steps)
  BY <1>3, <1>4, LineThenCalm
<1>6. todo' = [todo EXCEPT ![Web] = steps \o todo[Web]]
  <2>1. steps \o todo[Web] = steps
    BY <1>0, <1>5, ConcatEmptySeq DEF Brief
  <2>. QED BY <1>1, <1>2, <1>4, <2>1
<1>7. lines' = lines /\ UNCHANGED local
  BY DEF Accept
<1>8. TodoInv' /\ OnlyOf(Web) /\ Poised(Web)'
  BY <1>0, <1>5, <1>6, <1>7, BriefPut DEF ConsoleInv
<1>9. LocalInv' /\ Aside(Web)
  BY <1>0, <1>7, <1>8, LocalsKept, AsidePoised DEF ConsoleInv
<1>10. missing' \in [Sockets -> SUBSET (1..lines)]
  BY DEF ConsoleInv, ConsoleTypeOK, Accept
<1>11. ConsoleTypeOK'
  BY <1>7, <1>10 DEF ConsoleInv, ConsoleTypeOK, Accept, ring, registry, Places
<1>. QED BY <1>7, <1>8, <1>9, <1>11 DEF ConsoleInv, Accept, past

LEMMA LeaveKeeps ==
    ASSUME ConsoleInv, NEW s \in Sockets, Leave(s) PROVE ConsoleInv'
<1>1. lines' = lines /\ todo' = todo /\ local' = local
  BY DEF Leave
<1>2. TodoInv'
  <2>1. AheadSet' = AheadSet /\ Ahead' = Ahead
    BY <1>1 DEF AheadSet, AheadOf, HeadsOf, Ahead, ConsoleTasks
  <2>. QED BY <1>1, <2>1 DEF ConsoleInv, TodoInv, ConsoleTasks
<1>3. LocalInv'
  BY <1>1 DEF ConsoleInv, LocalInv, Loaded, About, Step, ConsoleTasks
<1>4. ConsoleTypeOK'
  BY <1>1 DEF ConsoleInv, ConsoleTypeOK, Leave, ring, registry, viewers, Places
<1>. QED BY <1>1, <1>2, <1>3, <1>4 DEF ConsoleInv, Leave, past

(* A line, perhaps, and other steps, in place of the step that is taken.   *)
LEMMA CalmReplaces ==
    ASSUME TodoInv, LocalInv, NEW t \in ConsoleTasks, todo[t] # <<>>, Step(t).do \in Ends,
           NEW line \in Line, NEW others \in Seq(StepType), Calm(others), Then(t, line \o others),
           lines' = lines,
           \/ UNCHANGED local
           \/ \E v \in Int : Load(t, v)
    PROVE  TodoInv' /\ LocalInv' /\ Aside(t)
<1>1. PICK steps : steps = line \o others
  OBVIOUS
<1>2. Brief(steps) /\ (steps # <<>> => steps[Len(steps)].do \in Ends) /\ Then(t, steps)
  BY <1>1, LineThenCalm, LineThenCalmEnds
<1>3. TodoInv' /\ OnlyOf(t) /\ Poised(t)'
  BY <1>2, BriefReplaces
<1>. QED BY <1>3, LocalsKept, AsidePoised

LEMMA NothingCalm ==
    ASSUME TodoInv, LocalInv, NEW t \in ConsoleTasks, todo[t] # <<>>, Step(t).do \in Ends,
           Done(t), lines' = lines,
           \/ UNCHANGED local
           \/ \E v \in Int : Load(t, v)
    PROVE  TodoInv' /\ LocalInv' /\ Aside(t)
<1>1. TodoInv' /\ OnlyOf(t) /\ Poised(t)'
  BY DonePoised
<1>. QED BY <1>1, LocalsKept, AsidePoised

LEMMA StepIsTyped ==
    ASSUME TodoInv, NEW t \in ConsoleTasks, todo[t] # <<>> PROVE Step(t) \in StepType
<1>1. todo[t] \in Seq(StepType) /\ Step(t) = todo[t][1]
  BY DEF TodoInv, Step
<1>. QED BY <1>1, EmptySeq

LEMMA VisitSlotKeeps ==
    ASSUME ConsoleInv, NEW t \in ConsoleTasks, VisitSlot(t) PROVE ConsoleInv' /\ Aside(t)
<1>1. /\ todo[t] # <<>> /\ Step(t).do = "visit" /\ Step(t).do \in Ends
      /\ lines' = lines /\ UNCHANGED local
  BY DEF VisitSlot, About, Ends, Loose
<1>2. Step(t).place \in Places
  BY <1>1, StepIsTyped, StepParts DEF ConsoleInv
<1>3. TodoInv' /\ LocalInv' /\ Aside(t)
  <2>. DEFINE i == Step(t).place
              old == <<AtPlace("disconnect", i), AtPlace("forget", i)>>
  <2>1. CASE Done(t)
    BY <1>1, <2>1, NothingCalm DEF ConsoleInv
  <2>2. CASE ~Done(t)
    <3>1. PICK line \in Line : Then(t, line \o old)
      BY <2>2 DEF VisitSlot
    <3>2. PICK others : others = old
      OBVIOUS
    <3>3. others \in Seq(StepType) /\ Calm(others)
      <4>1. /\ AtPlace("disconnect", i) \in StepType /\ AtPlace("disconnect", i).do = "disconnect"
            /\ AtPlace("forget", i) \in StepType /\ AtPlace("forget", i).do = "forget"
        BY <1>2, StepKinds
      <4>2. PICK x, y : x = AtPlace("disconnect", i) /\ y = AtPlace("forget", i)
        OBVIOUS
      <4>3. /\ x \in StepType /\ y \in StepType
            /\ x.do \in Loose \ {"head", "send"} /\ y.do \in Loose \ {"head", "send"}
        BY <4>1, <4>2 DEF Loose
      <4>4. others = <<x>> \o <<y>>
        BY <3>2, <4>2, <4>3
      <4>5. /\ <<x>> \in Seq(StepType) /\ <<y>> \in Seq(StepType)
            /\ Calm(<<x>>) /\ Calm(<<y>>)
        BY <4>3, OneCalm
      <4>. QED BY <4>4, <4>5, CalmCat
    <3>4. Then(t, line \o others)
      BY <3>1, <3>2
    <3>. QED BY <1>1, <3>3, <3>4, CalmReplaces DEF ConsoleInv
  <2>. QED BY <2>1, <2>2
<1>4. ConsoleTypeOK'
  BY <1>1 DEF ConsoleInv, ConsoleTypeOK, VisitSlot, ring, registry, sockets, viewers, Places
<1>. QED BY <1>1, <1>3, <1>4 DEF ConsoleInv, VisitSlot, past

LEMMA disconnectKeeps ==
    ASSUME ConsoleInv, NEW t \in ConsoleTasks, disconnect(t) PROVE ConsoleInv' /\ Aside(t)
<1>1. /\ todo[t] # <<>> /\ Step(t).do \in Ends /\ lines' = lines /\ UNCHANGED local
  BY DEF disconnect, About, Ends, Loose
<1>2. TodoInv' /\ LocalInv' /\ Aside(t)
  <2>1. CASE Subject(t) \in open
    <3>1. Subject(t) \in Sockets
      BY <2>1 DEF ConsoleInv, ConsoleTypeOK
    <3>2. PICK steps \in DISCONNECTED(Subject(t)) : Then(t, steps)
      BY <2>1 DEF disconnect
    <3>3. Brief(steps) /\ steps # <<>> /\ steps[Len(steps)].do \in Ends
      BY <3>1, DisconnectedBrief
    <3>4. TodoInv' /\ OnlyOf(t) /\ Poised(t)'
      BY <1>1, <3>2, <3>3, BriefReplaces DEF ConsoleInv
    <3>. QED BY <1>1, <3>4, LocalsKept, AsidePoised DEF ConsoleInv
  <2>2. CASE Subject(t) \notin open
    <3>1. Done(t)
      BY <2>2 DEF disconnect
    <3>. QED BY <1>1, <3>1, NothingCalm DEF ConsoleInv
  <2>. QED BY <2>1, <2>2
<1>3. ConsoleTypeOK'
  <2>1. gone' \subseteq open' /\ open' \subseteq Sockets
    BY DEF ConsoleInv, ConsoleTypeOK, disconnect, Close
  <2>. QED BY <1>1, <2>1 DEF ConsoleInv, ConsoleTypeOK, disconnect, ring, registry, viewers, Places
<1>. QED BY <1>1, <1>2, <1>3 DEF ConsoleInv, disconnect, past

LEMMA ToSetType == ASSUME NEW S, NEW q \in Seq(S) PROVE ToSet(q) \in SUBSET S
<1>1. DOMAIN q = 1..Len(q) /\ \A i \in 1..Len(q) : q[i] \in S
  OBVIOUS
<1>. QED BY <1>1 DEF ToSet

LEMMA ReplayKeeps ==
    ASSUME ConsoleInv, NEW t \in ConsoleTasks, Replay(t) PROVE ConsoleInv' /\ Aside(t)
<1>1. /\ todo[t] # <<>> /\ Step(t).do = "replay" /\ Step(t).do \in Ends
      /\ lines' = lines /\ UNCHANGED local
  BY DEF Replay, About, Ends, Loose
<1>2. Step(t).socket \in Sockets
  BY <1>1, StepIsTyped, StepParts DEF ConsoleInv
<1>. DEFINE n == Least(logBufferCount, REPLAY)
            x(i) == [do |-> "resend", socket |-> Step(t).socket,
                     index |-> (FirstIndex(n) + i - 1) % LOG_BUFFER_SIZE]
            latest == LastOf(orderly, Least(Len(orderly), REPLAY) - UnderWay)
<1>3. n \in Nat /\ logBufferIndex \in Int /\ LOG_BUFFER_SIZE \in Nat \ {0} /\ REPLAY \in Nat
  BY ConsoleAssumption DEF ConsoleInv, ConsoleTypeOK, Least
<1>4. TodoInv' /\ LocalInv' /\ Aside(t)
  <2>1. PICK others : others = [i \in 1..n |-> x(i)]
    OBVIOUS
  <2>2. \A i \in 1..n : x(i) \in StepType /\ x(i).do = "resend"
    <3>1. ASSUME NEW i \in 1..n PROVE (FirstIndex(n) + i - 1) % LOG_BUFFER_SIZE \in Int
      <4>1. FirstIndex(n) \in Int
        BY <1>3 DEF FirstIndex
      <4>. HIDE DEF n
      <4>. QED BY <1>3, <4>1
    <3>. QED BY <1>2, <3>1 DEF StepType
  <2>3. others \in Seq(StepType) /\ Calm(others)
    <3>. HIDE DEF x, n
    <3>1. others \in Seq(StepType) /\ Len(others) = n /\ \A i \in 1..n : others[i] = x(i)
      BY <1>3, <2>1, <2>2
    <3>. QED BY <2>2, <3>1 DEF Calm, Loose
  <2>4. Then(t, others)
    BY <2>1 DEF Replay
  <2>5. Brief(others) /\ (others # <<>> => others[Len(others)].do \in Ends)
    BY <2>3, CalmBrief
  <2>6. TodoInv' /\ OnlyOf(t) /\ Poised(t)'
    BY <1>1, <2>4, <2>5, BriefReplaces DEF ConsoleInv
  <2>. QED BY <1>1, <2>6, LocalsKept, AsidePoised DEF ConsoleInv
<1>5. missing' \in [Sockets -> SUBSET (1..lines)]
  <2>1. UnderWay \in Int /\ Len(orderly) \in Int
    BY DEF UnderWay, ConsoleInv
  <2>2. Least(Len(orderly), REPLAY) - UnderWay \in Int
    BY <1>3, <2>1 DEF Least
  <2>3. latest \in Seq(1..lines)
    BY <2>2, LastOfType DEF ConsoleInv
  <2>. HIDE DEF latest
  <2>4. ToSet(latest) \in SUBSET (1..lines)
    BY <2>3, ToSetType
  <2>5. missing \in [Sockets -> SUBSET (1..lines)]
    BY DEF ConsoleInv, ConsoleTypeOK
  <2>6. missing' = [missing EXCEPT ![Step(t).socket] = ToSet(latest)]
    BY DEF Replay, latest
  <2>. QED BY <2>4, <2>5, <2>6
<1>6. ConsoleTypeOK'
  BY <1>1, <1>5 DEF ConsoleInv, ConsoleTypeOK, Replay, ring, registry, sockets, Places
<1>. QED BY <1>1, <1>4, <1>6 DEF ConsoleInv, Replay, past

LEMMA ResendKeeps ==
    ASSUME ConsoleInv, NEW t \in ConsoleTasks, Resend(t) PROVE ConsoleInv' /\ Aside(t)
<1>1. /\ todo[t] # <<>> /\ Step(t).do \in Ends /\ lines' = lines /\ UNCHANGED local /\ Done(t)
  BY DEF Resend, About, Ends, Loose
<1>2. TodoInv' /\ LocalInv' /\ Aside(t)
  BY <1>1, NothingCalm DEF ConsoleInv
<1>3. missing' \in [Sockets -> SUBSET (1..lines)]
  <2>1. missing \in [Sockets -> SUBSET (1..lines)]
    BY DEF ConsoleInv, ConsoleTypeOK
  <2>. DEFINE s == Step(t).socket
              shown == Show(logBuffer[Step(t).index], s)
  <2>2. \/ missing' = missing
        \/ s \in open /\ missing' = [missing EXCEPT ![s] = shown]
    BY DEF Resend
  <2>3. s \in open => shown \in SUBSET (1..lines)
    BY <2>1, ShowType DEF ConsoleInv, ConsoleTypeOK
  <2>. HIDE DEF shown, s
  <2>. QED BY <2>1, <2>2, <2>3
<1>4. ConsoleTypeOK'
  BY <1>1, <1>3 DEF ConsoleInv, ConsoleTypeOK, Resend, ring, registry, sockets, Places
<1>. QED BY <1>1, <1>2, <1>4 DEF ConsoleInv, Resend, past

-----------------------------------------------------------------------------
(* The slots and the count of clients.  The load and the store of a count  *)
(* are apart; as long as no two tasks change the slots at once, at most    *)
(* one is between them, and the count it loaded is still the count.        *)
Taken == Cardinality({i \in Places : wsClients[i] # Free})

CountInv ==
    ~contended =>
        /\ \A t, u \in ConsoleTasks : Changing(t) /\ Changing(u) => t = u
        /\ (\A t \in ConsoleTasks : ~Changing(t)) => connectedClients = Taken
        /\ \A t \in ConsoleTasks :
              /\ About(t, "up") => local[t] = connectedClients /\ Taken = connectedClients + 1
              /\ About(t, "clear") => connectedClients = Taken /\ wsClients[Step(t).place] # Free
              /\ About(t, "down") => local[t] = connectedClients /\ Taken = connectedClients - 1

LEMMA PlacesCounted == IsFiniteSet(Places) /\ Cardinality(Places) = MAX_WEBSOCKET_CLIENTS
<1>1. MAX_WEBSOCKET_CLIENTS \in Nat /\ MAX_WEBSOCKET_CLIENTS >= 1
  BY ConsoleAssumption
<1>2. IsFiniteSet(1..MAX_WEBSOCKET_CLIENTS)
  BY <1>1, FS_Interval
<1>3. Cardinality(1..MAX_WEBSOCKET_CLIENTS) = MAX_WEBSOCKET_CLIENTS - 1 + 1
  BY <1>1, FS_Interval
<1>. QED BY <1>1, <1>2, <1>3 DEF Places

LEMMA TakenBound == Taken \in 0..MAX_WEBSOCKET_CLIENTS /\ Taken \in 0..255
<1>. DEFINE S == {i \in Places : wsClients[i] # Free}
<1>1. IsFiniteSet(Places) /\ Cardinality(Places) = MAX_WEBSOCKET_CLIENTS
  BY PlacesCounted
<1>2. S \subseteq Places
  OBVIOUS
<1>. HIDE DEF S
<1>3. Cardinality(S) <= Cardinality(Places) /\ Cardinality(S) \in Nat
  BY <1>1, <1>2, FS_Subset, FS_CardinalityType
<1>. QED BY <1>1, <1>3, ConsoleAssumption DEF Taken, S

LEMMA TakenMore ==
    ASSUME ConsoleTypeOK, NEW i \in Places, wsClients[i] = Free, NEW v, v # Free,
           wsClients' = [wsClients EXCEPT ![i] = v]
    PROVE  Taken' = Taken + 1
<1>. DEFINE S == {j \in Places : wsClients[j] # Free}
            T == {j \in Places : wsClients'[j] # Free}
<1>1. T = S \cup {i} /\ i \notin S
  BY DEF ConsoleTypeOK
<1>2. IsFiniteSet(S) /\ S \subseteq Places
  <2>1. IsFiniteSet(Places) /\ S \subseteq Places
    BY PlacesCounted
  <2>. QED BY <2>1, FS_Subset
<1>3. Taken' = Cardinality(T) /\ Taken = Cardinality(S)
  BY DEF Taken, Places
<1>. HIDE DEF S, T
<1>4. Cardinality(S \cup {i}) = Cardinality(S) + 1
  BY <1>1, <1>2, FS_AddElement
<1>. QED BY <1>1, <1>3, <1>4

LEMMA TakenLess ==
    ASSUME ConsoleTypeOK, NEW i \in Places, wsClients[i] # Free,
           wsClients' = [wsClients EXCEPT ![i] = Free]
    PROVE  Taken' = Taken - 1
<1>. DEFINE S == {j \in Places : wsClients[j] # Free}
            T == {j \in Places : wsClients'[j] # Free}
<1>1. T = S \ {i} /\ i \in S
  BY DEF ConsoleTypeOK
<1>2. IsFiniteSet(S)
  <2>1. IsFiniteSet(Places) /\ S \subseteq Places
    BY PlacesCounted
  <2>. QED BY <2>1, FS_Subset
<1>3. Taken' = Cardinality(T) /\ Taken = Cardinality(S)
  BY DEF Taken, Places
<1>. HIDE DEF S, T
<1>4. Cardinality(S \ {i}) = Cardinality(S) - 1
  BY <1>1, <1>2, FS_RemoveElement
<1>. QED BY <1>1, <1>3, <1>4

LEMMA SlotIsFree ==
    ASSUME ConsoleTypeOK, NEW i \in Places PROVE wsClients[i].id = 255 <=> wsClients[i] = Free
<1>1. wsClients[i] \in [id : Sockets, ip : Addresses] \cup {Free}
  BY DEF ConsoleTypeOK
<1>2. CASE wsClients[i] = Free
  BY <1>2 DEF Free
<1>3. CASE wsClients[i] # Free
  BY <1>1, <1>3, ConsoleAssumption
<1>. QED BY <1>2, <1>3

LEMMA NoneLeft ==
    ASSUME NEW t, todo[t] \in Seq(StepType), NEW K, ~(LeftOf(t, K) > 0)
    PROVE  \A k \in 1..Len(todo[t]) : todo[t][k].do \notin K
<1>. DEFINE S == {k \in DOMAIN todo[t] : todo[t][k].do \in K}
<1>1. DOMAIN todo[t] = 1..Len(todo[t]) /\ Len(todo[t]) \in Nat
  <2>1. PICK q : q = todo[t]
    OBVIOUS
  <2>2. DOMAIN q = 1..Len(q) /\ Len(q) \in Nat
    BY <2>1
  <2>. QED BY <2>1, <2>2
<1>2. IsFiniteSet(S)
  <2>1. IsFiniteSet(1..Len(todo[t])) /\ S \subseteq 1..Len(todo[t])
    BY <1>1, FS_Interval
  <2>. QED BY <2>1, FS_Subset
<1>3. LeftOf(t, K) = Cardinality(S)
  BY DEF LeftOf
<1>. HIDE DEF S
<1>4. Cardinality(S) \in Nat
  BY <1>2, FS_CardinalityType
<1>5. Cardinality(S) = 0
  BY <1>3, <1>4
<1>6. S = {}
  BY <1>2, <1>5, FS_EmptySet
<1>. QED BY <1>1, <1>6 DEF S

LEMMA AloneChanging ==
    ASSUME TodoInv, NEW t \in ConsoleTasks, Contend(t), ~contended',
           NEW u \in ConsoleTasks \ {t}
    PROVE  ~Changing(u)
<1>1. ~(LeftOf(u, RegistrySteps) > 0)
  BY DEF Contend
<1>2. todo[u] \in Seq(StepType)
  BY DEF TodoInv
<1>3. \A k \in 1..Len(todo[u]) : todo[u][k].do \notin RegistrySteps
  BY <1>1, <1>2, NoneLeft
<1>4. todo[u] # <<>> => 1 \in 1..Len(todo[u]) /\ Step(u) = todo[u][1]
  BY <1>2, EmptySeq DEF Step
<1>. QED BY <1>1, <1>3, <1>4 DEF Changing, About, RegistrySteps

LEMMA CountKept ==
    ASSUME CountInv, NEW t \in ConsoleTasks, Aside(t), ~Changing(t), UNCHANGED registry,
           ~contended' => ~contended
    PROVE  CountInv'
<1>. SUFFICES ASSUME ~contended' PROVE CountInv'
  BY DEF CountInv
<1>1. Taken' = Taken /\ connectedClients' = connectedClients /\ wsClients' = wsClients
  BY DEF registry, Taken, Places
<1>2. \A u \in ConsoleTasks \ {t} :
         /\ local'[u] = local[u] /\ Step(u)' = Step(u) /\ Changing(u)' = Changing(u)
         /\ \A what : About(u, what)' = About(u, what)
  BY DEF Aside, OnlyOf, Changing, About, Step
<1>3. ~Changing(t)' /\ ~Changing(t)
  BY DEF Aside
<1>4. \A what \in {"up", "clear", "down"} : ~About(t, what)'
  BY <1>3 DEF Changing
<1>. QED BY <1>1, <1>2, <1>3, <1>4 DEF CountInv, ConsoleTasks

(* What is put first is the change itself.                                 *)
LEMMA ChangeReplaces ==
    ASSUME TodoInv, LocalInv, NEW t \in ConsoleTasks, todo[t] # <<>>, Step(t).do \in Ends,
           NEW steps \in Seq(StepType), Linked(steps), steps # <<>>,
           \A k \in 1..Len(steps) : steps[k].do \in {"up", "clear", "down"},
           steps[Len(steps)].do \in Ends, Then(t, steps), lines' = lines,
           \/ UNCHANGED local
           \/ \E v \in Int : Load(t, v)
    PROVE  /\ TodoInv' /\ LocalInv' /\ OnlyOf(t)
           /\ todo'[t] # <<>> /\ todo'[t][1] = steps[1]
<1>1. FewHeads(steps)
  <2>1. HeadsOf(steps) = {}
    <3>1. DOMAIN steps = 1..Len(steps)
      OBVIOUS
    <3>. QED BY <3>1 DEF HeadsOf
  <2>. QED BY <2>1, FS_EmptySet DEF FewHeads
<1>2. \A b : Follows(Step(t).do, b) => Follows(steps[Len(steps)].do, b)
  BY EndsFollow
<1>3. \A k \in 1..Len(steps) : steps[k].do = "send" => lines >= 1
  OBVIOUS
<1>4. TodoInv' /\ OnlyOf(t) /\ todo'[t] # <<>> /\ todo'[t][1] = steps[1]
  BY <1>1, <1>2, <1>3, StepReplaced DEF OnlyOf
<1>5. steps[1].do \in {"up", "clear", "down"}
  BY EmptySeq
<1>6. Loaded(t)'
  <2>1. \A what \in {"text", "format", "advance", "test", "count"} : ~About(t, what)'
    BY <1>4, <1>5 DEF About, Step
  <2>. QED BY <2>1 DEF Loaded
<1>7. lines' >= lines
  BY DEF TodoInv
<1>8. LocalInv'
  BY <1>4, <1>6, <1>7, LocalsFollow
<1>. QED BY <1>4, <1>8

LEMMA addWebSocketClientKeeps ==
    ASSUME ConsoleInv, CountInv, NEW t \in ConsoleTasks, addWebSocketClient(t)
    PROVE  ConsoleInv' /\ CountInv'
<1>1. /\ todo[t] # <<>> /\ Step(t).do = "add" /\ Step(t).do \in Ends /\ lines' = lines
      /\ ~Changing(t) /\ Contend(t)
  BY DEF addWebSocketClient, About, Ends, Loose, Changing
<1>2. Step(t).socket \in Sockets /\ Step(t).ip \in Addresses
  BY <1>1, StepIsTyped, StepParts DEF ConsoleInv
<1>3. UNCHANGED <<lines, logBuffer, logBufferIndex, logBufferCount, connectedClients, open,
                  gone, address, missing, orderly>>
  BY DEF addWebSocketClient, ring, sockets, viewers, past
<1>4. CASE ~Claims(Free.id)
  <2>1. Done(t) /\ UNCHANGED <<wsClients, local>>
    BY <1>4 DEF addWebSocketClient
  <2>2. TodoInv' /\ LocalInv' /\ Aside(t)
    BY <1>1, <2>1, NothingCalm DEF ConsoleInv
  <2>3. CountInv'
    BY <1>1, <1>3, <2>1, <2>2, CountKept DEF registry, Contend
  <2>4. ConsoleTypeOK'
    BY <1>3, <2>1 DEF ConsoleInv, ConsoleTypeOK, Places
  <2>. QED BY <1>3, <2>2, <2>3, <2>4 DEF ConsoleInv
<1>5. CASE Claims(Free.id)
  <2>. DEFINE i == SlotOf(Free.id)
              v == [id |-> Step(t).socket, ip |-> Step(t).ip]
  <2>1. i \in Places /\ wsClients[i] = Free
    BY <1>5, SlotFound, SlotIsFree DEF ConsoleInv, Free
  <2>2. /\ wsClients' = [wsClients EXCEPT ![i] = v] /\ Load(t, connectedClients)
        /\ Then(t, <<Do("up")>>)
    BY <1>5 DEF addWebSocketClient
  <2>3. v # Free /\ v \in [id : Sockets, ip : Addresses]
    BY <1>2, ConsoleAssumption DEF Free
  <2>. HIDE DEF i, v
  <2>4. connectedClients \in Nat /\ ConsoleTypeOK
    BY DEF ConsoleInv, ConsoleTypeOK
  <2>5. PICK steps : steps = <<Do("up")>>
    OBVIOUS
  <2>6. Do("up") \in StepType /\ Do("up").do = "up"
    BY StepKinds
  <2>7. /\ steps \in Seq(StepType) /\ steps # <<>> /\ Len(steps) = 1 /\ steps[1].do = "up"
        /\ Then(t, steps)
    BY <2>2, <2>5, <2>6
  <2>8. Linked(steps) /\ steps[Len(steps)].do \in Ends
    BY <2>7 DEF Linked, Ends
  <2>9. \A k \in 1..Len(steps) : steps[k].do \in {"up", "clear", "down"}
    BY <2>7
  <2>10. \E w \in Nat : Load(t, w)
    BY <2>2, <2>4
  <2>11. /\ TodoInv' /\ LocalInv' /\ OnlyOf(t)
         /\ todo'[t] # <<>> /\ todo'[t][1] = steps[1]
    BY <1>1, <2>7, <2>8, <2>9, <2>10, ChangeReplaces DEF ConsoleInv
  <2>12. ConsoleTypeOK'
    <3>1. wsClients' \in [Places -> [id : Sockets, ip : Addresses] \cup {Free}]
      BY <2>1, <2>2, <2>3, <2>4 DEF ConsoleTypeOK
    <3>. QED BY <1>3, <2>4, <3>1 DEF ConsoleTypeOK, Places
  <2>13. CountInv'
    <3>. SUFFICES ASSUME ~contended' PROVE CountInv'
      BY DEF CountInv
    <3>0. ~contended
      BY <1>1 DEF Contend
    <3>1. ~contended /\ \A u \in ConsoleTasks \ {t} : ~Changing(u)
      BY <1>1, <3>0, AloneChanging DEF ConsoleInv
    <3>2. connectedClients = Taken
      BY <1>1, <3>1 DEF CountInv
    <3>3. Taken' = Taken + 1
      BY <2>1, <2>2, <2>3, <2>4, TakenMore
    <3>4. \A u \in ConsoleTasks \ {t} : ~Changing(u)'
      BY <2>11, <3>1 DEF OnlyOf, Changing, About, Step
    <3>5. /\ About(t, "up")' /\ ~About(t, "clear")' /\ ~About(t, "down")'
          /\ local'[t] = connectedClients
      BY <2>2, <2>7, <2>11 DEF About, Step, Load, ConsoleInv, LocalInv
    <3>6. Changing(t)'
      BY <3>5 DEF Changing
    <3>7. \A u \in ConsoleTasks \ {t} :
             ~About(u, "up")' /\ ~About(u, "clear")' /\ ~About(u, "down")'
      BY <3>4 DEF Changing
    <3>. QED BY <1>3, <3>2, <3>3, <3>4, <3>5, <3>6, <3>7 DEF CountInv, ConsoleTasks
  <2>. QED BY <1>3, <2>11, <2>12, <2>13 DEF ConsoleInv
<1>. QED BY <1>4, <1>5

LEMMA removeWebSocketClientKeeps ==
    ASSUME ConsoleInv, CountInv, NEW t \in ConsoleTasks, removeWebSocketClient(t)
    PROVE  ConsoleInv' /\ CountInv'
<1>1. /\ todo[t] # <<>> /\ Step(t).do \in Ends /\ lines' = lines
      /\ ~Changing(t) /\ Contend(t)
  BY DEF removeWebSocketClient, About, Ends, Loose, Changing
<1>2. UNCHANGED <<lines, logBuffer, logBufferIndex, logBufferCount, local, wsClients,
                  connectedClients, open, gone, address, missing, orderly>>
  BY DEF removeWebSocketClient, ring, registry, sockets, viewers, past
<1>3. ConsoleTypeOK'
  BY <1>2 DEF ConsoleInv, ConsoleTypeOK, Places
<1>4. CASE ~Known(Subject(t))
  <2>1. Done(t)
    BY <1>4 DEF removeWebSocketClient
  <2>2. TodoInv' /\ LocalInv' /\ Aside(t)
    BY <1>1, <1>2, <2>1, NothingCalm DEF ConsoleInv
  <2>3. CountInv'
    BY <1>1, <1>2, <2>2, CountKept DEF registry, Contend
  <2>. QED BY <1>2, <1>3, <2>2, <2>3 DEF ConsoleInv
<1>5. CASE Known(Subject(t))
  <2>. DEFINE i == SlotOf(Subject(t))
  <2>1. i \in Places /\ wsClients[i] # Free
    <3>1. i \in Places /\ wsClients[i].id = Subject(t)
      BY <1>5, SlotFound DEF Known
    <3>2. wsClients[i].id # 255
      BY <1>5, <3>1 DEF Known, Free
    <3>. QED BY <3>1, <3>2, SlotIsFree DEF ConsoleInv
  <2>2. Then(t, <<AtPlace("clear", i), Do("down")>>)
    BY <1>5 DEF removeWebSocketClient
  <2>. HIDE DEF i
  <2>3. PICK x, y : x = AtPlace("clear", i) /\ y = Do("down")
    OBVIOUS
  <2>4. x \in StepType /\ x.do = "clear" /\ x.place = i /\ y \in StepType /\ y.do = "down"
    BY <2>1, <2>3, StepKinds
  <2>5. PICK steps : steps = <<x, y>>
    OBVIOUS
  <2>6. /\ steps \in Seq(StepType) /\ steps # <<>> /\ Len(steps) = 2
        /\ steps[1] = x /\ steps[2] = y /\ Then(t, steps)
    BY <2>2, <2>3, <2>4, <2>5
  <2>7. Linked(steps) /\ steps[Len(steps)].do \in Ends
    BY <2>4, <2>6 DEF Linked, Ends, Follows
  <2>8. \A k \in 1..Len(steps) : steps[k].do \in {"up", "clear", "down"}
    BY <2>4, <2>6
  <2>9. /\ TodoInv' /\ LocalInv' /\ OnlyOf(t)
        /\ todo'[t] # <<>> /\ todo'[t][1] = steps[1]
    BY <1>1, <1>2, <2>6, <2>7, <2>8, ChangeReplaces DEF ConsoleInv
  <2>10. CountInv'
    <3>. SUFFICES ASSUME ~contended' PROVE CountInv'
      BY DEF CountInv
    <3>0. ~contended
      BY <1>1 DEF Contend
    <3>1. ~contended /\ \A u \in ConsoleTasks \ {t} : ~Changing(u)
      BY <1>1, <3>0, AloneChanging DEF ConsoleInv
    <3>2. connectedClients = Taken
      BY <1>1, <3>1 DEF CountInv
    <3>3. Taken' = Taken
      BY <1>2 DEF Taken, Places
    <3>4. \A u \in ConsoleTasks \ {t} : ~Changing(u)'
      BY <2>9, <3>1 DEF OnlyOf, Changing, About, Step
    <3>5. /\ About(t, "clear")' /\ ~About(t, "up")' /\ ~About(t, "down")'
          /\ wsClients'[(Step(t)').place] # Free
      BY <1>2, <2>1, <2>4, <2>6, <2>9 DEF About, Step
    <3>6. Changing(t)'
      BY <3>5 DEF Changing
    <3>7. \A u \in ConsoleTasks \ {t} :
             ~About(u, "up")' /\ ~About(u, "clear")' /\ ~About(u, "down")'
      BY <3>4 DEF Changing
    <3>. QED BY <1>2, <3>2, <3>3, <3>4, <3>5, <3>6, <3>7 DEF CountInv, ConsoleTasks
  <2>. QED BY <1>2, <1>3, <2>9, <2>10 DEF ConsoleInv
<1>. QED BY <1>4, <1>5

LEMMA ClearSlotKeeps ==
    ASSUME ConsoleInv, CountInv, NEW t \in ConsoleTasks, ClearSlot(t)
    PROVE  ConsoleInv' /\ CountInv'
<1>1. /\ todo[t] # <<>> /\ Step(t).do = "clear" /\ lines' = lines /\ Done(t)
      /\ Changing(t) /\ About(t, "clear") /\ Load(t, connectedClients)
  BY DEF ClearSlot, About, Changing
<1>2. UNCHANGED <<lines, logBuffer, logBufferIndex, logBufferCount, connectedClients, open,
                  gone, address, missing, orderly, contended>>
  BY DEF ClearSlot, ring, sockets, viewers, past, tally
<1>3. Step(t).place \in Places
  BY <1>1, StepIsTyped, StepParts DEF ConsoleInv
<1>. DEFINE i == Step(t).place
<1>4. wsClients' = [wsClients EXCEPT ![i] = Free] /\ ConsoleTypeOK /\ connectedClients \in Nat
  BY DEF ClearSlot, ConsoleInv, ConsoleTypeOK
<1>5. TodoInv' /\ OnlyOf(t) /\ Ensues(t)
  BY <1>1, DoneKeeps DEF ConsoleInv
<1>6. todo'[t] # <<>> /\ todo'[t][1].do = "down"
  <2>1. PICK q : q = todo[t]
    OBVIOUS
  <2>2. q \in Seq(StepType) /\ Linked(q) /\ q # <<>> /\ q[1].do = "clear"
    BY <1>1, <2>1 DEF ConsoleInv, TodoInv, Step
  <2>3. Len(q) # 1 /\ Len(q) \in Nat /\ Len(q) # 0
    BY <2>2, EmptySeq DEF Linked
  <2>4. Len(Tail(q)) = Len(q) - 1 /\ Tail(q) \in Seq(StepType)
    BY <2>2, HeadTailProperties
  <2>5. Tail(q) # <<>>
    <3>1. PICK r : r = Tail(q)
      OBVIOUS
    <3>2. r \in Seq(StepType) /\ Len(r) # 0
      BY <2>3, <2>4, <3>1
    <3>. QED BY <3>1, <3>2, EmptySeq
  <2>6. todo'[t] = Tail(q)
    <3>1. <<>> \o Tail(q) = Tail(q)
      BY <2>4, ConcatEmptySeq
    <3>. QED BY <1>1, <2>1, <3>1 DEF Done, Then, ConsoleInv, TodoInv
  <2>. QED BY <1>1, <1>5, <2>5, <2>6 DEF Ensues, Follows
<1>7. LocalInv'
  <2>1. \A what \in {"text", "format", "advance", "test", "count"} : ~About(t, what)'
    BY <1>6 DEF About, Step
  <2>2. Loaded(t)'
    BY <2>1 DEF Loaded
  <2>3. lines' >= lines /\ \E v \in Int : Load(t, v)
    BY <1>1, <1>4 DEF ConsoleInv, TodoInv
  <2>. QED BY <1>5, <2>2, <2>3, LocalsFollow DEF ConsoleInv
<1>8. ConsoleTypeOK'
  <2>1. wsClients' \in [Places -> [id : Sockets, ip : Addresses] \cup {Free}]
    BY <1>3, <1>4 DEF ConsoleTypeOK
  <2>. QED BY <1>2, <1>4, <2>1 DEF ConsoleTypeOK, Places
<1>9. CountInv'
  <2>. SUFFICES ASSUME ~contended' PROVE CountInv'
    BY DEF CountInv
  <2>1. ~contended
    BY <1>2
  <2>2. /\ \A u \in ConsoleTasks \ {t} : ~Changing(u)
        /\ connectedClients = Taken /\ wsClients[i] # Free
    BY <1>1, <2>1 DEF CountInv
  <2>3. Taken' = Taken - 1
    BY <1>3, <1>4, <2>2, TakenLess
  <2>4. \A u \in ConsoleTasks \ {t} : ~Changing(u)'
    BY <1>5, <2>2 DEF OnlyOf, Changing, About, Step
  <2>5. /\ About(t, "down")' /\ ~About(t, "up")' /\ ~About(t, "clear")'
        /\ local'[t] = connectedClients
    BY <1>1, <1>6 DEF About, Step, Load, ConsoleInv, LocalInv
  <2>6. Changing(t)'
    BY <2>5 DEF Changing
  <2>7. \A u \in ConsoleTasks \ {t} :
           ~About(u, "up")' /\ ~About(u, "clear")' /\ ~About(u, "down")'
    BY <2>4 DEF Changing
  <2>. QED BY <1>2, <2>2, <2>3, <2>4, <2>5, <2>6, <2>7 DEF CountInv, ConsoleTasks
<1>. QED BY <1>2, <1>5, <1>7, <1>8, <1>9 DEF ConsoleInv

LEMMA CountClientsKeeps ==
    ASSUME ConsoleInv, CountInv, NEW t \in ConsoleTasks, CountClients(t)
    PROVE  ConsoleInv' /\ CountInv'
<1>1. /\ todo[t] # <<>> /\ Step(t).do \in Ends /\ lines' = lines /\ Changing(t) /\ Load(t, 0)
      /\ (About(t, "up") \/ About(t, "down"))
      /\ connectedClients' = (local[t] + (IF About(t, "up") THEN 1 ELSE -1)) % 256
  BY DEF CountClients, About, Ends, Changing
<1>2. UNCHANGED <<lines, logBuffer, logBufferIndex, logBufferCount, wsClients, open, gone,
                  address, missing, orderly, contended>>
  BY DEF CountClients, ring, sockets, viewers, past, tally
<1>3. local[t] \in Int
  BY DEF ConsoleInv, LocalInv
<1>4. PICK line \in Line : Then(t, line)
  BY DEF CountClients
<1>5. Brief(line) /\ (line # <<>> => line[Len(line)].do \in Ends)
  BY CallbackBrief DEF Ends
<1>6. TodoInv' /\ OnlyOf(t) /\ Poised(t)'
  BY <1>1, <1>4, <1>5, BriefReplaces DEF ConsoleInv
<1>7. \E v \in Int : Load(t, v)
  BY <1>1
<1>8. LocalInv' /\ Aside(t)
  BY <1>1, <1>6, <1>7, LocalsKept, AsidePoised DEF ConsoleInv
<1>9. connectedClients' \in 0..255
  <2>1. PICK n : n = local[t] + (IF About(t, "up") THEN 1 ELSE -1)
    OBVIOUS
  <2>2. n \in Int
    BY <1>3, <2>1
  <2>3. n % 256 \in 0..255
    BY <2>2
  <2>. QED BY <1>1, <2>1, <2>3
<1>10. ConsoleTypeOK'
  BY <1>2, <1>9 DEF ConsoleInv, ConsoleTypeOK, Places
<1>11. CountInv'
  <2>. SUFFICES ASSUME ~contended' PROVE CountInv'
    BY DEF CountInv
  <2>1. ~contended
    BY <1>2
  <2>2. \A u \in ConsoleTasks \ {t} : ~Changing(u)
    BY <1>1, <2>1 DEF CountInv
  <2>3. Taken' = Taken
    BY <1>2 DEF Taken, Places
  <2>4. connectedClients' = Taken
    <3>1. PICK n : n = Taken
      OBVIOUS
    <3>2. n \in 0..255
      BY <3>1, TakenBound
    <3>3. CASE About(t, "up")
      <4>1. n = local[t] + 1
        BY <2>1, <3>1, <3>3 DEF CountInv
      <4>2. n % 256 = n
        BY <3>2
      <4>. QED BY <1>1, <3>1, <3>3, <4>1, <4>2
    <3>4. CASE ~About(t, "up")
      <4>1. n = local[t] + (-1)
        BY <1>1, <1>3, <2>1, <3>1, <3>2, <3>4 DEF CountInv
      <4>2. n % 256 = n
        BY <3>2
      <4>. QED BY <1>1, <3>1, <3>4, <4>1, <4>2
    <3>. QED BY <3>3, <3>4
  <2>5. \A u \in ConsoleTasks : ~Changing(u)'
    BY <1>8, <2>2 DEF Aside, OnlyOf, Changing, About, Step
  <2>6. \A u \in ConsoleTasks :
           ~About(u, "up")' /\ ~About(u, "clear")' /\ ~About(u, "down")'
    BY <2>5 DEF Changing
  <2>. QED BY <2>3, <2>4, <2>5, <2>6 DEF CountInv, ConsoleTasks
<1>. QED BY <1>2, <1>6, <1>8, <1>10, <1>11 DEF ConsoleInv

-----------------------------------------------------------------------------
(* The console as a whole.                                                 *)
LEMMA ConsoleInvInit == ConsoleInit => ConsoleInv /\ CountInv
<1>. SUFFICES ASSUME ConsoleInit PROVE ConsoleInv /\ CountInv
  OBVIOUS
<1>. USE DEF ConsoleInit
<1>1. \A t \in ConsoleTasks : todo[t] = <<>>
  OBVIOUS
<1>2. AheadSet = {}
  <2>1. \A t \in ConsoleTasks : HeadsOf(todo[t]) = {}
    BY <1>1 DEF HeadsOf
  <2>. QED BY <2>1 DEF AheadSet, AheadOf
<1>3. Ahead = 0 /\ IsFiniteSet(AheadSet)
  BY <1>2, AheadIs, FS_EmptySet
<1>4. TodoInv
  <2>1. todo \in [ConsoleTasks -> Seq(StepType)]
    OBVIOUS
  <2>2. \A t \in ConsoleTasks :
           Linked(todo[t]) /\ \A k \in 1..Len(todo[t]) : todo[t][k].do = "send" => lines >= 1
    BY <1>1 DEF Linked
  <2>3. lines + Ahead <= MaxLines
    BY <1>3, ConsoleAssumption
  <2>. QED BY <1>3, <2>1, <2>2, <2>3 DEF TodoInv
<1>5. \A t \in ConsoleTasks : \A what : ~About(t, what)
  BY <1>1 DEF About
<1>6. LocalInv
  BY <1>5 DEF LocalInv, Loaded
<1>7. ConsoleTypeOK
  <2>1. LOG_BUFFER_SIZE \in Nat \ {0} /\ MaxLines \in Nat
    BY ConsoleAssumption
  <2>2. Empty \in [head : 0..lines, text : 0..lines]
    BY DEF Empty
  <2>. QED BY <2>1, <2>2 DEF ConsoleTypeOK
<1>8. orderly \in Seq(1..lines)
  OBVIOUS
<1>9. CountInv
  <2>1. {i \in Places : wsClients[i] # Free} = {}
    OBVIOUS
  <2>2. Taken = 0
    BY <2>1, FS_EmptySet DEF Taken
  <2>. QED BY <1>5, <2>2 DEF CountInv, Changing
<1>. QED BY <1>4, <1>6, <1>7, <1>8, <1>9 DEF ConsoleInv

LEMMA StaysAside ==
    ASSUME CountInv, NEW t \in ConsoleTasks, Aside(t), UNCHANGED <<registry, contended>>,
           \/ todo[t] = <<>>
           \/ Step(t).do \notin {"up", "clear", "down"}
    PROVE  CountInv'
<1>1. ~Changing(t)
  BY DEF Changing, About
<1>. QED BY <1>1, CountKept

LEMMA ConsoleInvStep == ConsoleInv /\ CountInv /\ [ConsoleNext]_consoleVars => ConsoleInv' /\ CountInv'
<1>. SUFFICES ASSUME ConsoleInv, CountInv, [ConsoleNext]_consoleVars PROVE ConsoleInv' /\ CountInv'
  OBVIOUS
<1>1. ASSUME NEW t \in ConsoleTasks, Log(t) PROVE ConsoleInv' /\ CountInv'
  <2>1. ConsoleInv' /\ Aside(t)
    BY <1>1, LogKeeps
  <2>. QED BY <1>1, <2>1, StaysAside DEF Log, tally
<1>2. ASSUME NEW t \in ConsoleTasks, logCallback(t) PROVE ConsoleInv' /\ CountInv'
  <2>1. ConsoleInv' /\ Aside(t)
    BY <1>2, StoreHeadKeeps, StoreTextKeeps, FormatKeeps, SendKeeps, AdvanceKeeps, TestCountKeeps,
       CountKeeps
       DEF logCallback
  <2>2. UNCHANGED <<registry, contended>> /\ Step(t).do \notin {"up", "clear", "down"}
    BY <1>2 DEF logCallback, StoreHead, StoreText, Format, Send, Advance, TestCount, Count, About, tally
  <2>. QED BY <2>1, <2>2, StaysAside
<1>3. ASSUME NEW t \in ConsoleTasks, Registering(t) PROVE ConsoleInv' /\ CountInv'
  BY <1>3, addWebSocketClientKeeps, removeWebSocketClientKeeps, ClearSlotKeeps, CountClientsKeeps
     DEF Registering
<1>4. ASSUME NEW t \in ConsoleTasks, Connecting(t) PROVE ConsoleInv' /\ CountInv'
  <2>1. ConsoleInv' /\ Aside(t)
    BY <1>4, VisitSlotKeeps, disconnectKeeps, ReplayKeeps, ResendKeeps DEF Connecting
  <2>2. UNCHANGED <<registry, contended>> /\ Step(t).do \notin {"up", "clear", "down"}
    BY <1>4 DEF Connecting, VisitSlot, disconnect, Replay, Resend, About, tally
  <2>. QED BY <2>1, <2>2, StaysAside
<1>5. ASSUME NEW t \in ConsoleTasks, NEW s \in Sockets, Notice(t, s)
      PROVE  ConsoleInv' /\ CountInv'
  <2>1. ConsoleInv' /\ Aside(t)
    BY <1>5, NoticeKeeps
  <2>2. UNCHANGED <<registry, contended>>
    BY <1>5 DEF Notice, tally
  <2>3. todo[t] = <<>> \/ Step(t).do \notin {"up", "clear", "down"}
    BY <1>5 DEF Notice, About
  <2>. QED BY <2>1, <2>2, <2>3, StaysAside
<1>6. ASSUME NEW s \in Sockets, Leave(s) PROVE ConsoleInv' /\ CountInv'
  <2>1. ConsoleInv'
    BY <1>6, LeaveKeeps
  <2>2. UNCHANGED <<todo, local, registry, contended>>
    BY <1>6 DEF Leave
  <2>3. Taken' = Taken
    BY <2>2 DEF Taken, registry, Places
  <2>. QED BY <2>1, <2>2, <2>3 DEF CountInv, Changing, About, Step, registry, ConsoleTasks
<1>7. ASSUME NEW s \in Sockets, ErrorEvent(s) PROVE ConsoleInv' /\ CountInv'
  <2>1. ConsoleInv' /\ Aside(Web)
    BY <1>7, ErrorEventKeeps
  <2>2. UNCHANGED <<registry, contended>> /\ todo[Web] = <<>> /\ Web \in ConsoleTasks
    BY <1>7 DEF ErrorEvent, ConsoleTasks
  <2>. QED BY <2>1, <2>2, StaysAside
<1>8. ASSUME NEW s \in Sockets, NEW a \in Addresses, Accept(s, a) PROVE ConsoleInv' /\ CountInv'
  <2>1. ConsoleInv' /\ Aside(Web)
    BY <1>8, AcceptKeeps
  <2>2. UNCHANGED <<registry, contended>> /\ todo[Web] = <<>> /\ Web \in ConsoleTasks
    BY <1>8 DEF Accept, ConsoleTasks
  <2>. QED BY <2>1, <2>2, StaysAside
<1>9. ASSUME UNCHANGED consoleVars PROVE ConsoleInv' /\ CountInv'
  <2>1. UNCHANGED <<lines, logBuffer, logBufferIndex, logBufferCount, todo, local, wsClients,
                    connectedClients, open, gone, missing, orderly, contended>>
    BY <1>9 DEF consoleVars, ring, registry, sockets, viewers, past, tally
  <2>2. AheadSet' = AheadSet /\ Ahead' = Ahead
    BY <2>1 DEF AheadSet, AheadOf, HeadsOf, Ahead, ConsoleTasks
  <2>3. TodoInv' /\ LocalInv'
    BY <2>1, <2>2 DEF ConsoleInv, TodoInv, LocalInv, Loaded, About, Step, ConsoleTasks
  <2>4. ConsoleTypeOK' /\ orderly' \in Seq(1..lines')
    BY <2>1 DEF ConsoleInv, ConsoleTypeOK, Places
  <2>5. Taken' = Taken
    BY <2>1 DEF Taken, Places
  <2>. QED BY <2>1, <2>3, <2>4, <2>5
           DEF ConsoleInv, CountInv, Changing, About, Step, ConsoleTasks
<1>. QED BY <1>1, <1>2, <1>3, <1>4, <1>5, <1>6, <1>7, <1>8, <1>9 DEF ConsoleNext

LEMMA CountedOf == ConsoleInv /\ CountInv => ClientsCounted
<1>. SUFFICES ASSUME ConsoleInv, CountInv, ~contended,
                     \A t \in ConsoleTasks : LeftOf(t, {"up", "down"}) = 0
              PROVE  connectedClients = Taken
  BY DEF ClientsCounted, Taken
<1>1. ASSUME NEW t \in ConsoleTasks PROVE ~Changing(t)
  <2>1. PICK q : q = todo[t]
    OBVIOUS
  <2>2. q \in Seq(StepType) /\ Linked(q)
    BY <2>1 DEF ConsoleInv, TodoInv
  <2>3. \A k \in 1..Len(q) : q[k].do \notin {"up", "down"}
    BY <2>1, <2>2, NoneLeft
  <2>. SUFFICES ASSUME q # <<>>, q[1].do = "clear" PROVE FALSE
    <3>1. q # <<>> => 1 \in 1..Len(q) /\ Step(t) = q[1]
      BY <2>1, <2>2, EmptySeq DEF Step
    <3>. QED BY <2>1, <2>3, <3>1 DEF Changing, About
  <2>4. PICK n \in Nat : n = Len(q) /\ n # 0 /\ n # 1
    BY <2>2, EmptySeq DEF Linked
  <2>5. 1 \in 1..(Len(q) - 1) /\ 2 \in 1..Len(q)
    <3>1. 1 \in 1..(n - 1) /\ 2 \in 1..n
      BY <2>4
    <3>. QED BY <2>4, <3>1
  <2>6. Follows(q[1].do, q[2].do)
    BY <2>2, <2>5 DEF Linked
  <2>. QED BY <2>3, <2>5, <2>6 DEF Follows
<1>. QED BY <1>1 DEF CountInv

-----------------------------------------------------------------------------
(* Two clients of one address: the web task still has to visit the slot of *)
(* one for the other, or to disconnect one of them.  It alone adds a       *)
(* client, and has every slot to visit after it.                           *)
StepsOf(q) == {q[k] : k \in 1..Len(q)}
Addless(q) == \A x \in StepsOf(q) : x.do # "add"

VisitOf(i, s, a) == [do |-> "visit", place |-> i, socket |-> s, ip |-> a]
Welcomed(q) ==
    \A k \in 1..Len(q) : q[k].do = "add" =>
        \A i \in Places : \E l \in 1..Len(q) : l > k /\ q[l] = VisitOf(i, q[k].socket, q[k].ip)

Due == StepsOf(todo[Web])
Dropping(i, j, r, s, a) ==
    {VisitOf(i, s, a), VisitOf(j, r, a), AtPlace("disconnect", i), AtPlace("disconnect", j),
     On("disconnect", r), On("disconnect", s)}
Together(i, j, r, s, a) ==
    /\ r # s /\ r \in open /\ s \in open /\ address[r] = a /\ address[s] = a
    /\ wsClients[i] = [id |-> r, ip |-> a] /\ wsClients[j] = [id |-> s, ip |-> a]

WelcomeInv ==
    /\ \A t \in ConsoleTasks \ {Web} : Addless(todo[t])
    /\ Welcomed(todo[Web])
PairInv ==
    \A i, j \in Places, r, s \in Sockets, a \in Addresses :
        Together(i, j, r, s, a) => \E x \in Dropping(i, j, r, s, a) : x \in Due

LEMMA StepsOfCat ==
    ASSUME NEW a \in Seq(StepType), NEW b \in Seq(StepType)
    PROVE  /\ a \o b \in Seq(StepType)
           /\ StepsOf(a \o b) = StepsOf(a) \cup StepsOf(b)
<1>1. /\ a \o b \in Seq(StepType) /\ Len(a \o b) = Len(a) + Len(b)
      /\ Len(a) \in Nat /\ Len(b) \in Nat
      /\ \A k \in 1..(Len(a) + Len(b)) :
             (a \o b)[k] = IF k <= Len(a) THEN a[k] ELSE b[k - Len(a)]
  BY ConcatProperties
<1>2. ASSUME NEW x \in StepsOf(a \o b) PROVE x \in StepsOf(a) \cup StepsOf(b)
  <2>1. PICK k \in 1..(Len(a) + Len(b)) : x = (a \o b)[k]
    BY <1>1, <1>2 DEF StepsOf
  <2>2. CASE k <= Len(a)
    <3>1. k \in 1..Len(a) /\ x = a[k]
      BY <1>1, <2>1, <2>2
    <3>. QED BY <3>1 DEF StepsOf
  <2>3. CASE ~(k <= Len(a))
    <3>1. k - Len(a) \in 1..Len(b) /\ x = b[k - Len(a)]
      BY <1>1, <2>1, <2>3
    <3>. QED BY <3>1 DEF StepsOf
  <2>. QED BY <2>2, <2>3
<1>3. ASSUME NEW x \in StepsOf(a) PROVE x \in StepsOf(a \o b)
  <2>1. PICK k \in 1..Len(a) : x = a[k]
    BY <1>3 DEF StepsOf
  <2>2. k \in 1..Len(a \o b) /\ (a \o b)[k] = a[k]
    BY <1>1, <2>1
  <2>. QED BY <2>1, <2>2 DEF StepsOf
<1>4. ASSUME NEW x \in StepsOf(b) PROVE x \in StepsOf(a \o b)
  <2>1. PICK k \in 1..Len(b) : x = b[k]
    BY <1>4 DEF StepsOf
  <2>2. k + Len(a) \in 1..Len(a \o b) /\ (a \o b)[k + Len(a)] = b[k]
    BY <1>1, <2>1
  <2>. QED BY <2>1, <2>2 DEF StepsOf
<1>. QED BY <1>1, <1>2, <1>3, <1>4

LEMMA StepsOfTail ==
    ASSUME NEW q \in Seq(StepType), q # <<>>
    PROVE  /\ Tail(q) \in Seq(StepType)
           /\ StepsOf(q) = {Head(q)} \cup StepsOf(Tail(q))
           /\ Welcomed(q) => Welcomed(Tail(q))
<1>1. /\ Tail(q) \in Seq(StepType) /\ Len(Tail(q)) = Len(q) - 1
      /\ \A k \in 1..Len(Tail(q)) : Tail(q)[k] = q[k + 1]
      /\ Len(q) \in Nat \ {0} /\ Head(q) = q[1]
  BY HeadTailProperties
<1>2. ASSUME NEW x \in StepsOf(q) PROVE x = Head(q) \/ x \in StepsOf(Tail(q))
  <2>1. PICK k \in 1..Len(q) : x = q[k]
    BY <1>2 DEF StepsOf
  <2>2. CASE k # 1
    <3>1. k - 1 \in 1..Len(Tail(q)) /\ (k - 1) + 1 = k
      BY <1>1, <2>1, <2>2
    <3>2. x = Tail(q)[k - 1]
      BY <1>1, <2>1, <3>1
    <3>. QED BY <3>1, <3>2 DEF StepsOf
  <2>. QED BY <1>1, <2>1, <2>2
<1>3. \A k \in 1..Len(Tail(q)) : k + 1 \in 1..Len(q)
  BY <1>1
<1>4. Head(q) \in StepsOf(q) /\ StepsOf(Tail(q)) \subseteq StepsOf(q)
  BY <1>1, <1>3 DEF StepsOf
<1>5. ASSUME Welcomed(q) PROVE Welcomed(Tail(q))
  <2>1. ASSUME NEW k \in 1..Len(Tail(q)), Tail(q)[k].do = "add", NEW i \in Places
        PROVE  \E l \in 1..Len(Tail(q)) :
                   l > k /\ Tail(q)[l] = VisitOf(i, Tail(q)[k].socket, Tail(q)[k].ip)
    <3>1. PICK l \in 1..Len(q) : l > k + 1 /\ q[l] = VisitOf(i, q[k + 1].socket, q[k + 1].ip)
      BY <1>1, <1>3, <1>5, <2>1 DEF Welcomed
    <3>2. l - 1 \in 1..Len(Tail(q)) /\ l - 1 > k /\ (l - 1) + 1 = l
      BY <1>1, <2>1, <3>1
    <3>3. Tail(q)[l - 1] = q[l] /\ Tail(q)[k] = q[k + 1]
      BY <1>1, <2>1, <3>2
    <3>. QED BY <3>1, <3>2, <3>3
  <2>. QED BY <2>1 DEF Welcomed
<1>. QED BY <1>1, <1>2, <1>4, <1>5

LEMMA WelcomedCat ==
    ASSUME NEW a \in Seq(StepType), NEW b \in Seq(StepType), Addless(a), Welcomed(b)
    PROVE  Welcomed(a \o b)
<1>1. /\ a \o b \in Seq(StepType) /\ Len(a \o b) = Len(a) + Len(b)
      /\ Len(a) \in Nat /\ Len(b) \in Nat
      /\ \A k \in 1..(Len(a) + Len(b)) :
             (a \o b)[k] = IF k <= Len(a) THEN a[k] ELSE b[k - Len(a)]
  BY ConcatProperties
<1>. SUFFICES ASSUME NEW k \in 1..Len(a \o b), (a \o b)[k].do = "add", NEW i \in Places
              PROVE  \E l \in 1..Len(a \o b) :
                  l > k /\ (a \o b)[l] = VisitOf(i, (a \o b)[k].socket, (a \o b)[k].ip)
  BY DEF Welcomed
<1>2. ~(k <= Len(a))
  <2>. SUFFICES ASSUME k <= Len(a) PROVE FALSE
    OBVIOUS
  <2>1. k \in 1..Len(a) /\ (a \o b)[k] = a[k]
    BY <1>1
  <2>. QED BY <2>1 DEF Addless, StepsOf
<1>3. k - Len(a) \in 1..Len(b) /\ (a \o b)[k] = b[k - Len(a)]
  BY <1>1, <1>2
<1>4. PICK l \in 1..Len(b) :
          l > k - Len(a) /\ b[l] = VisitOf(i, (a \o b)[k].socket, (a \o b)[k].ip)
  BY <1>3 DEF Welcomed
<1>5. l + Len(a) \in 1..Len(a \o b) /\ l + Len(a) > k /\ (a \o b)[l + Len(a)] = b[l]
  BY <1>1, <1>3, <1>4
<1>. QED BY <1>4, <1>5

LEMMA AddlessWelcomed == ASSUME NEW q \in Seq(StepType), Addless(q) PROVE Welcomed(q)
BY DEF Addless, StepsOf, Welcomed

(* Steps are put in place of the first of a task, or in front of it.       *)
PutFirst(t, steps) ==
    \/ todo[t] # <<>> /\ Then(t, steps)
    \/ todo' = [todo EXCEPT ![t] = steps \o todo[t]]
LEMMA WelcomeKept ==
    ASSUME TodoInv, WelcomeInv, NEW t \in ConsoleTasks,
           NEW steps \in Seq(StepType), Addless(steps), PutFirst(t, steps)
    PROVE  /\ WelcomeInv'
           /\ \A x \in Due :
                 \/ x \in Due'
                 \/ t = Web /\ todo[t] # <<>> /\ x = Step(Web) /\ Then(t, steps)
           /\ t = Web => StepsOf(steps) \subseteq Due'
<1>1. todo \in [ConsoleTasks -> Seq(StepType)]
  BY DEF TodoInv
<1>2. PICK rest : /\ todo' = [todo EXCEPT ![t] = steps \o rest]
                  /\ \/ todo[t] # <<>> /\ rest = Tail(todo[t]) /\ Then(t, steps)
                     \/ rest = todo[t]
  BY DEF PutFirst, Then
<1>3. /\ rest \in Seq(StepType)
      /\ Welcomed(todo[t]) => Welcomed(rest)
      /\ Addless(todo[t]) => Addless(rest)
      /\ \/ StepsOf(todo[t]) = StepsOf(rest)
         \/ /\ todo[t] # <<>> /\ StepsOf(todo[t]) = {Step(t)} \cup StepsOf(rest) /\ Then(t, steps)
  BY <1>1, <1>2, StepsOfTail DEF Step, Addless
<1>4. /\ StepsOf(steps \o rest) = StepsOf(steps) \cup StepsOf(rest)
      /\ Welcomed(todo[t]) => Welcomed(steps \o rest)
      /\ Addless(todo[t]) => Addless(steps \o rest)
  <2>1. StepsOf(steps \o rest) = StepsOf(steps) \cup StepsOf(rest)
    BY <1>3, StepsOfCat
  <2>. QED BY <1>3, <2>1, WelcomedCat DEF Addless
<1>5. todo'[t] = steps \o rest /\ \A u \in ConsoleTasks \ {t} : todo'[u] = todo[u]
  BY <1>1, <1>2
<1>6. Web \in ConsoleTasks
  BY DEF ConsoleTasks
<1>7. WelcomeInv'
  <2>1. (\A u \in ConsoleTasks \ {Web} : Addless(todo'[u])) /\ Welcomed(todo'[Web])
    BY <1>4, <1>5, <1>6 DEF WelcomeInv
  <2>. QED BY <2>1 DEF WelcomeInv, ConsoleTasks, Addless, StepsOf, Welcomed, Places, VisitOf
<1>8. Due' = StepsOf(todo'[Web])
  BY DEF Due, StepsOf
<1>. QED BY <1>3, <1>4, <1>5, <1>6, <1>7, <1>8 DEF Due

(* No client is added or comes; no step that drops one is taken.           *)
FewerClients ==
    /\ open' \subseteq open /\ address' = address
    /\ \A i \in Places : wsClients'[i] \in {wsClients[i], Free}
LEMMA FewerTogether ==
    ASSUME ConsoleTypeOK, FewerClients, NEW i \in Places, NEW j \in Places,
           NEW r \in Sockets, NEW s \in Sockets, NEW a \in Addresses,
           Together(i, j, r, s, a)'
    PROVE  Together(i, j, r, s, a)
<1>1. \A x : Free # [id |-> x, ip |-> a]
  BY DEF Free
<1>. QED BY <1>1 DEF FewerClients, Together

LEMMA PairKept ==
    ASSUME ConsoleTypeOK, PairInv, FewerClients,
           \A x \in Due : x.do \in {"visit", "disconnect"} => x \in Due'
    PROVE  PairInv'
<1>1. ASSUME NEW i \in Places, NEW j \in Places, NEW r \in Sockets, NEW s \in Sockets,
             NEW a \in Addresses, Together(i, j, r, s, a)'
      PROVE  \E x \in Dropping(i, j, r, s, a) : x \in Due'
  <2>1. PICK x \in Dropping(i, j, r, s, a) : x \in Due
    BY <1>1, FewerTogether DEF PairInv
  <2>2. x.do \in {"visit", "disconnect"}
    BY <2>1 DEF Dropping, VisitOf, AtPlace, On
  <2>. QED BY <2>1, <2>2
<1>. QED BY <1>1 DEF PairInv, Places, Dropping, VisitOf, AtPlace, On

OneInv == WelcomeInv /\ PairInv /\ address \in [Sockets -> Addresses]
LEMMA MildStep ==
    ASSUME ConsoleInv, OneInv, FewerClients, NEW t \in ConsoleTasks,
           NEW steps \in Seq(StepType), Addless(steps), PutFirst(t, steps),
           todo[t] # <<>> /\ Then(t, steps) => Step(t).do \notin {"visit", "disconnect"}
    PROVE  OneInv'
<1>1. /\ WelcomeInv'
      /\ \A x \in Due :
            \/ x \in Due'
            \/ todo[t] # <<>> /\ x = Step(t) /\ Then(t, steps)
  BY WelcomeKept DEF ConsoleInv, OneInv
<1>2. \A x \in Due : x.do \in {"visit", "disconnect"} => x \in Due'
  BY <1>1
<1>. QED BY <1>1, <1>2, PairKept DEF ConsoleInv, OneInv, FewerClients

-----------------------------------------------------------------------------
(* No line and no report of the library adds a client.                     *)
LEMMA AddlessCat ==
    ASSUME NEW a \in Seq(StepType), NEW b \in Seq(StepType), Addless(a), Addless(b)
    PROVE  a \o b \in Seq(StepType) /\ Addless(a \o b)
BY StepsOfCat DEF Addless

LEMMA OneAddless ==
    ASSUME NEW x \in StepType, x.do # "add"
    PROVE  <<x>> \in Seq(StepType) /\ Addless(<<x>>) /\ x \in StepsOf(<<x>>)
<1>1. <<x>> \in Seq(StepType) /\ Len(<<x>>) = 1 /\ <<x>>[1] = x
  OBVIOUS
<1>2. \A k \in 1..1 : k = 1
  OBVIOUS
<1>3. 1 \in 1..1
  OBVIOUS
<1>. QED BY <1>1, <1>2, <1>3 DEF Addless, StepsOf

LEMMA TwoAddless ==
    ASSUME NEW x \in StepType, NEW y \in StepType, x.do # "add", y.do # "add"
    PROVE  <<x, y>> \in Seq(StepType) /\ Addless(<<x, y>>) /\ x \in StepsOf(<<x, y>>)
<1>1. /\ <<x, y>> \in Seq(StepType) /\ Len(<<x, y>>) = 2
      /\ <<x, y>>[1] = x /\ <<x, y>>[2] = y
  OBVIOUS
<1>2. \A k \in 1..2 : k = 1 \/ k = 2
  OBVIOUS
<1>3. 1 \in 1..2
  OBVIOUS
<1>. QED BY <1>1, <1>2, <1>3 DEF Addless, StepsOf

LEMMA LineAddless ==
    ASSUME NEW line \in Line PROVE line \in Seq(StepType) /\ Addless(line)
<1>1. CASE line = <<>>
  BY <1>1 DEF Addless, StepsOf
<1>2. CASE line # <<>>
  <2>1. line = Callback
    BY <1>2 DEF Line
  <2>2. /\ Len(line) = 6 /\ line \in Seq(StepType)
        /\ line[1].do = "head" /\ line[2].do = "text" /\ line[3].do = "format"
        /\ line[4].do = "advance" /\ line[5].do = "test" /\ line[6].do = "count"
    <3>1. \A what \in {"head", "text", "format", "advance", "test", "count"} :
             Do(what) \in StepType /\ Do(what).do = what
      BY StepKinds
    <3>. QED BY <2>1, <3>1 DEF Callback
  <2>. QED BY <2>2 DEF Addless, StepsOf
<1>. QED BY <1>1, <1>2

LEMMA DisconnectedAddless ==
    ASSUME NEW s \in Sockets, NEW steps \in DISCONNECTED(s)
    PROVE  steps \in Seq(StepType) /\ Addless(steps)
<1>1. PICK line \in Line : steps = line \o <<On("remove", s)>>
  BY DEF DISCONNECTED
<1>2. PICK x : x = On("remove", s)
  OBVIOUS
<1>3. x \in StepType /\ x.do = "remove"
  BY <1>2, StepKinds
<1>4. <<x>> \in Seq(StepType) /\ Addless(<<x>>)
  BY <1>3, OneAddless
<1>. QED BY <1>1, <1>2, <1>4, LineAddless, AddlessCat

LEMMA NothingAddless == <<>> \in Seq(StepType) /\ Addless(<<>>)
BY DEF Addless, StepsOf

LEMMA InFront ==
    ASSUME ConsoleInv, NEW t \in ConsoleTasks, todo[t] = <<>>, NEW steps \in Seq(StepType),
           todo' = [todo EXCEPT ![t] = steps]
    PROVE  PutFirst(t, steps)
<1>1. steps \o todo[t] = steps
  BY ConcatEmptySeq
<1>. QED BY <1>1 DEF PutFirst

LEMMA LogPairs ==
    ASSUME ConsoleInv, OneInv, NEW t \in ConsoleTasks, Log(t) PROVE OneInv'
<1>1. PICK line \in Line : todo' = [todo EXCEPT ![t] = line]
  BY DEF Log
<1>2. PutFirst(t, line) /\ todo[t] = <<>>
  BY <1>1, LineAddless, InFront DEF Log
<1>3. FewerClients
  BY DEF Log, FewerClients, registry, sockets
<1>. QED BY <1>2, <1>3, LineAddless, MildStep

LEMMA CallbackPairs ==
    ASSUME ConsoleInv, OneInv, NEW t \in ConsoleTasks, logCallback(t) PROVE OneInv'
<1>1. /\ todo[t] # <<>> /\ Step(t).do \notin {"visit", "disconnect"}
      /\ UNCHANGED <<registry, sockets>>
  BY DEF logCallback, StoreHead, StoreText, Format, Send, Advance, TestCount, Count, About
<1>2. FewerClients
  BY <1>1 DEF FewerClients, registry, sockets
<1>3. CASE Done(t)
  BY <1>1, <1>2, <1>3, NothingAddless, MildStep DEF Done, PutFirst
<1>4. CASE Format(t) /\ Listened
  <2>1. PICK x : x = [do |-> "send", entry |-> logBuffer[logBufferIndex]]
    OBVIOUS
  <2>2. logBuffer[logBufferIndex] \in [head : 0..lines, text : 0..lines] /\ lines \in Nat
    BY DEF ConsoleInv, ConsoleTypeOK, TodoInv
  <2>3. logBuffer[logBufferIndex] \in [head : Nat, text : Nat]
    BY <2>2
  <2>4. x \in StepType /\ x.do = "send"
    BY <2>1, <2>3 DEF StepType
  <2>5. <<x>> \in Seq(StepType) /\ Addless(<<x>>)
    BY <2>4, OneAddless
  <2>6. PutFirst(t, <<x>>)
    BY <1>1, <1>4, <2>1 DEF Format, PutFirst
  <2>. QED BY <1>1, <1>2, <2>5, <2>6, MildStep
<1>. QED BY <1>3, <1>4 DEF logCallback, StoreHead, StoreText, Format, Send, Advance, TestCount, Count

LEMMA NoticePairs ==
    ASSUME ConsoleInv, OneInv, NEW t \in ConsoleTasks, NEW s \in Sockets, Notice(t, s)
    PROVE  OneInv'
<1>1. PICK steps \in DISCONNECTED(s) : todo' = [todo EXCEPT ![t] = steps \o @]
  BY DEF Notice
<1>2. PutFirst(t, steps) /\ steps \in Seq(StepType) /\ Addless(steps)
  BY <1>1, DisconnectedAddless DEF PutFirst
<1>3. FewerClients
  BY DEF Notice, Close, FewerClients, registry
<1>4. todo[t] # <<>> => Step(t).do \notin {"visit", "disconnect"}
  BY DEF Notice, About
<1>. QED BY <1>2, <1>3, <1>4, MildStep

LEMMA ErrorEventPairs ==
    ASSUME ConsoleInv, OneInv, NEW s \in Sockets, ErrorEvent(s) PROVE OneInv'
<1>1. PICK steps \in DISCONNECTED(s) : todo' = [todo EXCEPT ![Web] = steps]
  BY DEF ErrorEvent
<1>2. Web \in ConsoleTasks /\ todo[Web] = <<>>
  BY DEF ConsoleTasks, ErrorEvent
<1>3. PutFirst(Web, steps) /\ steps \in Seq(StepType) /\ Addless(steps)
  BY <1>1, <1>2, DisconnectedAddless, InFront
<1>4. FewerClients
  BY DEF ErrorEvent, FewerClients, registry, sockets
<1>. QED BY <1>2, <1>3, <1>4, MildStep

LEMMA LeavePairs ==
    ASSUME ConsoleInv, OneInv, NEW s \in Sockets, Leave(s) PROVE OneInv'
<1>1. UNCHANGED <<todo, open, address, registry>>
  BY DEF Leave
<1>2. FewerClients /\ Due' = Due
  BY <1>1 DEF FewerClients, registry, Due, StepsOf
<1>3. WelcomeInv'
  BY <1>1 DEF OneInv, WelcomeInv, ConsoleTasks, Addless, StepsOf, Welcomed, Places, VisitOf
<1>. QED BY <1>2, <1>3, PairKept DEF OneInv, ConsoleInv, FewerClients

LEMMA MildRegistering ==
    ASSUME ConsoleInv, OneInv, NEW t \in ConsoleTasks,
           removeWebSocketClient(t) \/ ClearSlot(t) \/ CountClients(t)
    PROVE  OneInv'
<1>1. /\ todo[t] # <<>> /\ Step(t).do \notin {"visit", "disconnect"}
      /\ UNCHANGED sockets
  BY DEF removeWebSocketClient, ClearSlot, CountClients, About
<1>2. Step(t).do = "clear" => Step(t).place \in Places
  BY <1>1, StepIsTyped, StepParts DEF ConsoleInv
<1>3. FewerClients
  <2>1. \/ UNCHANGED wsClients
        \/ ClearSlot(t)
    BY DEF removeWebSocketClient, CountClients, registry
  <2>. QED BY <1>1, <1>2, <2>1 DEF FewerClients, sockets, ClearSlot, About, ConsoleInv, ConsoleTypeOK
<1>4. CASE Done(t)
  BY <1>1, <1>3, <1>4, NothingAddless, MildStep DEF Done, PutFirst
<1>5. CASE removeWebSocketClient(t) /\ ~Done(t)
  <2>1. Known(Subject(t)) /\ Then(t, <<AtPlace("clear", SlotOf(Subject(t))), Do("down")>>)
    BY <1>5 DEF removeWebSocketClient
  <2>2. PICK x, y : x = AtPlace("clear", SlotOf(Subject(t))) /\ y = Do("down")
    OBVIOUS
  <2>3. x \in StepType /\ y \in StepType /\ x.do = "clear" /\ y.do = "down"
    <3>1. SlotOf(Subject(t)) \in Places
      BY <2>1, SlotFound DEF Known
    <3>. QED BY <2>2, <3>1, StepKinds
  <2>4. PICK steps : steps = <<x, y>>
    OBVIOUS
  <2>6. steps \in Seq(StepType) /\ Addless(steps)
    BY <2>3, <2>4, TwoAddless
  <2>7. PutFirst(t, steps)
    BY <1>1, <2>1, <2>2, <2>4 DEF PutFirst
  <2>. QED BY <1>1, <1>3, <2>6, <2>7, MildStep
<1>6. CASE CountClients(t)
  <2>1. PICK line \in Line : Then(t, line)
    BY <1>6 DEF CountClients
  <2>. QED BY <1>1, <1>3, <2>1, LineAddless, MildStep DEF PutFirst
<1>. QED BY <1>4, <1>5, <1>6 DEF ClearSlot

LEMMA MildConnecting ==
    ASSUME ConsoleInv, OneInv, NEW t \in ConsoleTasks, Replay(t) \/ Resend(t) PROVE OneInv'
<1>1. /\ todo[t] # <<>> /\ Step(t).do \in {"replay", "resend"}
      /\ UNCHANGED <<registry, sockets>>
  BY DEF Replay, Resend, About
<1>2. FewerClients
  BY <1>1 DEF FewerClients, registry, sockets
<1>3. CASE Resend(t)
  <2>1. Done(t)
    BY <1>3 DEF Resend
  <2>. QED BY <1>1, <1>2, <2>1, NothingAddless, MildStep DEF Done, PutFirst
<1>4. CASE Replay(t)
  <2>. DEFINE n == Least(logBufferCount, REPLAY)
              x(i) == [do |-> "resend", socket |-> Step(t).socket,
                       index |-> (FirstIndex(n) + i - 1) % LOG_BUFFER_SIZE]
  <2>1. PICK others : others = [i \in 1..n |-> x(i)]
    OBVIOUS
  <2>2. n \in Nat /\ logBufferIndex \in Int /\ LOG_BUFFER_SIZE \in Nat \ {0}
    BY ConsoleAssumption DEF ConsoleInv, ConsoleTypeOK, Least
  <2>3. Step(t).do = "replay" /\ Step(t).socket \in Sockets
    BY <1>1, <1>4, StepIsTyped, StepParts DEF ConsoleInv, Replay, About
  <2>4. \A i \in 1..n : x(i) \in StepType /\ x(i).do = "resend"
    <3>1. ASSUME NEW i \in 1..n PROVE (FirstIndex(n) + i - 1) % LOG_BUFFER_SIZE \in Int
      <4>1. FirstIndex(n) \in Int
        BY <2>2 DEF FirstIndex
      <4>. HIDE DEF n
      <4>. QED BY <2>2, <4>1
    <3>. QED BY <2>3, <3>1 DEF StepType
  <2>5. Then(t, others)
    BY <1>4, <2>1 DEF Replay
  <2>6. others \in Seq(StepType) /\ Addless(others)
    <3>. HIDE DEF x, n
    <3>1. others \in Seq(StepType) /\ Len(others) = n /\ \A i \in 1..n : others[i] = x(i)
      BY <2>1, <2>2, <2>4
    <3>. QED BY <2>4, <3>1 DEF Addless, StepsOf
  <2>. QED BY <1>1, <1>2, <2>5, <2>6, MildStep DEF PutFirst
<1>. QED BY <1>3, <1>4

-----------------------------------------------------------------------------
(* The steps that add a client or drop one.                                *)
LEMMA AddPairs ==
    ASSUME ConsoleInv, OneInv, NEW t \in ConsoleTasks, addWebSocketClient(t) PROVE OneInv'
<1>1. /\ todo[t] # <<>> /\ Step(t).do = "add" /\ UNCHANGED sockets
  BY DEF addWebSocketClient, About
<1>2. CASE ~Claims(Free.id)
  <2>1. Done(t) /\ FewerClients
    BY <1>1, <1>2 DEF addWebSocketClient, FewerClients, registry, sockets
  <2>. QED BY <1>1, <2>1, NothingAddless, MildStep DEF Done, PutFirst
<1>3. CASE Claims(Free.id)
  <2>1. PICK p : p = SlotOf(Free.id)
    OBVIOUS
  <2>2. PICK x, s0, a0 : x = Step(t) /\ s0 = x.socket /\ a0 = x.ip
    OBVIOUS
  <2>3. p \in Places /\ s0 \in Sockets /\ a0 \in Addresses
    BY <1>1, <1>3, <2>1, <2>2, SlotFound, StepIsTyped, StepParts DEF ConsoleInv
  <2>4. wsClients' = [wsClients EXCEPT ![p] = [id |-> s0, ip |-> a0]] /\ Then(t, <<Do("up")>>)
    BY <1>3, <2>1, <2>2 DEF addWebSocketClient
  <2>5. PICK steps : steps = <<Do("up")>>
    OBVIOUS
  <2>6. steps \in Seq(StepType) /\ Addless(steps)
    <3>1. Do("up") \in StepType /\ Do("up").do = "up"
      BY StepKinds
    <3>. QED BY <2>5, <3>1, OneAddless
  <2>7. /\ WelcomeInv'
        /\ \A y \in Due : y \in Due' \/ y = Step(t)
    BY <1>1, <2>4, <2>5, <2>6, WelcomeKept DEF ConsoleInv, OneInv, PutFirst
  <2>8. \A i \in Places : VisitOf(i, s0, a0) \in Due'
    <3>1. /\ todo[t] \in Seq(StepType) /\ Step(t) = todo[t][1] /\ 1 \in 1..Len(todo[t])
      BY <1>1, EmptySeq DEF ConsoleInv, TodoInv, Step
    <3>2. t = Web
      BY <1>1, <3>1 DEF OneInv, WelcomeInv, Addless, StepsOf
    <3>3. \A i \in Places : VisitOf(i, s0, a0) \in Due
      BY <1>1, <2>2, <3>1, <3>2 DEF OneInv, WelcomeInv, Welcomed, Due, StepsOf
    <3>4. \A i \in Places : VisitOf(i, s0, a0) # Step(t)
      BY <1>1 DEF VisitOf
    <3>. QED BY <2>7, <3>3, <3>4
  <2>9. ASSUME NEW i \in Places, NEW j \in Places, NEW r \in Sockets, NEW s \in Sockets,
               NEW a \in Addresses, Together(i, j, r, s, a)'
        PROVE  \E y \in Dropping(i, j, r, s, a) : y \in Due'
    <3>1. CASE i = p
      <4>1. wsClients'[i] = [id |-> s0, ip |-> a0] /\ wsClients'[i] = [id |-> r, ip |-> a]
        BY <2>3, <2>4, <2>9, <3>1 DEF Together, ConsoleInv, ConsoleTypeOK
      <4>2. r = s0 /\ a = a0
        BY <4>1
      <4>. QED BY <2>8, <4>2 DEF Dropping
    <3>2. CASE j = p
      <4>1. wsClients'[j] = [id |-> s0, ip |-> a0] /\ wsClients'[j] = [id |-> s, ip |-> a]
        BY <2>3, <2>4, <2>9, <3>2 DEF Together, ConsoleInv, ConsoleTypeOK
      <4>2. s = s0 /\ a = a0
        BY <4>1
      <4>. QED BY <2>8, <4>2 DEF Dropping
    <3>3. CASE i # p /\ j # p
      <4>1. Together(i, j, r, s, a)
        BY <1>1, <2>4, <2>9, <3>3 DEF Together, sockets, ConsoleInv, ConsoleTypeOK
      <4>2. PICK y \in Dropping(i, j, r, s, a) : y \in Due
        BY <4>1 DEF OneInv, PairInv
      <4>3. y.do \in {"visit", "disconnect"}
        BY <4>2 DEF Dropping, VisitOf, AtPlace, On
      <4>. QED BY <1>1, <2>7, <4>2, <4>3
    <3>. QED BY <3>1, <3>2, <3>3
  <2>10. PairInv'
    BY <2>9 DEF PairInv, Places, Dropping, VisitOf, AtPlace, On
  <2>. QED BY <1>1, <2>7, <2>10 DEF OneInv, sockets
<1>. QED BY <1>2, <1>3

LEMMA VisitPairs ==
    ASSUME ConsoleInv, OneInv, NEW t \in ConsoleTasks, VisitSlot(t) PROVE OneInv'
<1>1. /\ todo[t] # <<>> /\ Step(t).do = "visit" /\ UNCHANGED <<registry, sockets>>
  BY DEF VisitSlot, About
<1>2. FewerClients
  BY <1>1 DEF FewerClients, registry, sockets
<1>3. PICK p : p = Step(t).place
  OBVIOUS
<1>4. p \in Places
  BY <1>1, <1>3, StepIsTyped, StepParts DEF ConsoleInv
<1>5. PICK x, y : x = AtPlace("disconnect", p) /\ y = AtPlace("forget", p)
  OBVIOUS
<1>6. x \in StepType /\ y \in StepType /\ x.do = "disconnect" /\ y.do = "forget"
  BY <1>4, <1>5, StepKinds
<1>7. PICK steps \in Seq(StepType) :
          /\ Addless(steps) /\ Then(t, steps)
          /\ Duplicate(p, Step(t).socket, Step(t).ip) => x \in StepsOf(steps)
  <2>1. CASE ~Duplicate(p, Step(t).socket, Step(t).ip)
    BY <1>3, <2>1, NothingAddless DEF VisitSlot, Done
  <2>2. CASE Duplicate(p, Step(t).socket, Step(t).ip)
    <3>1. PICK line \in Line : Then(t, line \o <<x, y>>)
      BY <1>3, <1>5, <2>2 DEF VisitSlot
    <3>2. PICK old : old = <<x, y>>
      OBVIOUS
    <3>3. old \in Seq(StepType) /\ Addless(old) /\ x \in StepsOf(old)
      BY <1>6, <3>2, TwoAddless
    <3>4. /\ line \o old \in Seq(StepType) /\ Addless(line \o old)
          /\ x \in StepsOf(line \o old)
      BY <3>3, LineAddless, AddlessCat, StepsOfCat
    <3>. QED BY <3>1, <3>2, <3>4
  <2>. QED BY <2>1, <2>2
<1>8. /\ WelcomeInv'
      /\ \A z \in Due : z \in Due' \/ (t = Web /\ z = Step(Web))
      /\ t = Web => StepsOf(steps) \subseteq Due'
  BY <1>1, <1>7, WelcomeKept DEF ConsoleInv, OneInv, PutFirst
<1>9. ASSUME NEW i \in Places, NEW j \in Places, NEW r \in Sockets, NEW s \in Sockets,
             NEW a \in Addresses, Together(i, j, r, s, a)'
      PROVE  \E z \in Dropping(i, j, r, s, a) : z \in Due'
  <2>1. Together(i, j, r, s, a)
    BY <1>2, <1>9, FewerTogether DEF ConsoleInv
  <2>2. PICK z \in Dropping(i, j, r, s, a) : z \in Due
    BY <2>1 DEF OneInv, PairInv
  <2>3. CASE t = Web /\ z = Step(Web)
    <3>1. z.do = "visit" /\ z = Step(t)
      BY <1>1, <2>3
    <3>2. \/ z = VisitOf(i, s, a)
          \/ z = VisitOf(j, r, a)
      BY <2>2, <3>1 DEF Dropping, AtPlace, On
    <3>3. p \in {i, j} /\ Duplicate(p, Step(t).socket, Step(t).ip)
      <4>0. \A u : Free # [id |-> u, ip |-> a]
        BY DEF Free
      <4>1. wsClients[i] # Free /\ wsClients[j] # Free
        BY <2>1, <4>0 DEF Together
      <4>2. CASE z = VisitOf(i, s, a)
        <5>1. p = i /\ Step(t).socket = s /\ Step(t).ip = a
          BY <1>3, <3>1, <4>2 DEF VisitOf
        <5>. QED BY <2>1, <4>1, <5>1 DEF Together, Duplicate
      <4>3. CASE z = VisitOf(j, r, a)
        <5>1. p = j /\ Step(t).socket = r /\ Step(t).ip = a
          BY <1>3, <3>1, <4>3 DEF VisitOf
        <5>. QED BY <2>1, <4>1, <5>1 DEF Together, Duplicate
      <4>. QED BY <3>2, <4>2, <4>3
    <3>4. x \in Due'
      BY <1>7, <1>8, <2>3, <3>3
    <3>. QED BY <1>5, <3>3, <3>4 DEF Dropping
  <2>. QED BY <1>8, <2>2, <2>3
<1>10. PairInv'
  BY <1>9 DEF PairInv, Places, Dropping, VisitOf, AtPlace, On
<1>. QED BY <1>1, <1>8, <1>10 DEF OneInv, sockets

LEMMA disconnectPairs ==
    ASSUME ConsoleInv, OneInv, NEW t \in ConsoleTasks, disconnect(t) PROVE OneInv'
<1>1. /\ todo[t] # <<>> /\ Step(t).do = "disconnect" /\ UNCHANGED <<registry, address>>
  BY DEF disconnect, About
<1>2. FewerClients /\ Subject(t) \notin open'
  BY <1>1 DEF disconnect, Close, FewerClients, registry
<1>3. PICK steps \in Seq(StepType) : Addless(steps) /\ Then(t, steps)
  <2>1. CASE Subject(t) \notin open
    BY <2>1, NothingAddless DEF disconnect, Done
  <2>2. CASE Subject(t) \in open
    <3>1. PICK steps \in DISCONNECTED(Subject(t)) : Then(t, steps)
      BY <2>2 DEF disconnect
    <3>2. Subject(t) \in Sockets
      BY <2>2 DEF ConsoleInv, ConsoleTypeOK
    <3>. QED BY <3>1, <3>2, DisconnectedAddless
  <2>. QED BY <2>1, <2>2
<1>4. /\ WelcomeInv'
      /\ \A z \in Due : z \in Due' \/ (t = Web /\ z = Step(Web))
  BY <1>1, <1>3, WelcomeKept DEF ConsoleInv, OneInv, PutFirst
<1>5. ASSUME NEW i \in Places, NEW j \in Places, NEW r \in Sockets, NEW s \in Sockets,
             NEW a \in Addresses, Together(i, j, r, s, a)'
      PROVE  \E z \in Dropping(i, j, r, s, a) : z \in Due'
  <2>1. Together(i, j, r, s, a)
    BY <1>2, <1>5, FewerTogether DEF ConsoleInv
  <2>2. PICK z \in Dropping(i, j, r, s, a) : z \in Due
    BY <2>1 DEF OneInv, PairInv
  <2>3. r \in open' /\ s \in open'
    BY <1>5 DEF Together
  <2>4. ~(z = Step(t))
    <3>. SUFFICES ASSUME z = Step(t) PROVE FALSE
      OBVIOUS
    <3>1. \/ z \in {AtPlace("disconnect", i), AtPlace("disconnect", j)}
          \/ z \in {On("disconnect", r), On("disconnect", s)}
      BY <1>1, <2>2 DEF Dropping, VisitOf
    <3>2. Subject(t) \in {r, s}
      BY <2>1, <3>1 DEF Subject, AtPlace, On, Together
    <3>. QED BY <1>2, <2>3, <3>2
  <2>. QED BY <1>4, <2>2, <2>4
<1>6. PairInv'
  BY <1>5 DEF PairInv, Places, Dropping, VisitOf, AtPlace, On
<1>. QED BY <1>1, <1>4, <1>6 DEF OneInv

LEMMA WelcomeShape ==
    ASSUME NEW s \in Sockets, NEW a \in Addresses
    PROVE  \E m \in Nat :
              /\ Places = 1..m
              /\ Welcome(s, a) \in Seq(StepType) /\ Len(Welcome(s, a)) = m + 2
              /\ Welcome(s, a)[1] = [do |-> "add", socket |-> s, ip |-> a]
              /\ \A i \in 1..m : Welcome(s, a)[i + 1] = VisitOf(i, s, a)
              /\ Welcome(s, a)[m + 2] = On("replay", s)
<1>1. PICK x, y : x = [do |-> "add", socket |-> s, ip |-> a] /\ y = On("replay", s)
  OBVIOUS
<1>2. PICK middle : middle = Visits(s, a)
  OBVIOUS
<1>3. Welcome(s, a) = (<<x>> \o middle) \o <<y>>
  BY <1>1, <1>2 DEF Welcome
<1>4. x \in StepType /\ x.do = "add" /\ x.socket = s /\ x.ip = a
  BY <1>1 DEF StepType
<1>5. y \in StepType /\ y.do = "replay"
  BY <1>1, StepKinds
<1>6. PICK m \in Nat : m = MAX_WEBSOCKET_CLIENTS /\ Places = 1..m
  BY ConsoleAssumption DEF Places
<1>7. /\ middle \in Seq(StepType) /\ Len(middle) = m
      /\ \A i \in 1..m : middle[i] = VisitOf(i, s, a)
  BY <1>2, <1>6, VisitsCalm DEF Visits, VisitOf
<1>8. /\ <<x>> \in Seq(StepType) /\ Len(<<x>>) = 1 /\ <<x>>[1] = x
      /\ <<y>> \in Seq(StepType) /\ Len(<<y>>) = 1 /\ <<y>>[1] = y
  BY <1>4, <1>5
<1>9. PICK front : front = <<x>> \o middle
  OBVIOUS
<1>10. /\ front \in Seq(StepType) /\ Len(front) = 1 + m
       /\ front[1] = x
       /\ \A i \in 1..m : front[i + 1] = VisitOf(i, s, a)
  <2>1. /\ front \in Seq(StepType) /\ Len(front) = 1 + m
        /\ \A k \in 1..(1 + m) : front[k] = IF k <= 1 THEN <<x>>[k] ELSE middle[k - 1]
    BY <1>7, <1>8, <1>9, ConcatProperties
  <2>2. front[1] = x
    BY <1>8, <2>1
  <2>3. ASSUME NEW i \in 1..m PROVE front[i + 1] = VisitOf(i, s, a)
    <3>1. i + 1 \in 1..(1 + m) /\ ~(i + 1 <= 1) /\ (i + 1) - 1 = i
      OBVIOUS
    <3>. QED BY <1>7, <2>1, <3>1
  <2>. QED BY <2>1, <2>2, <2>3
<1>11. PICK q : q = front \o <<y>>
  OBVIOUS
<1>12. /\ q \in Seq(StepType) /\ Len(q) = m + 2
       /\ \A k \in 1..(1 + m) : q[k] = front[k]
       /\ q[m + 2] = y
  <2>1. /\ q \in Seq(StepType) /\ Len(q) = (1 + m) + 1
        /\ \A k \in 1..((1 + m) + 1) : q[k] = IF k <= 1 + m THEN front[k] ELSE <<y>>[k - (1 + m)]
    BY <1>8, <1>10, <1>11, ConcatProperties
  <2>2. m + 2 \in 1..((1 + m) + 1) /\ ~(m + 2 <= 1 + m) /\ (m + 2) - (1 + m) = 1
    OBVIOUS
  <2>. QED BY <1>8, <2>1, <2>2
<1>13. 1 \in 1..(1 + m) /\ \A i \in 1..m : i + 1 \in 1..(1 + m)
  OBVIOUS
<1>. QED BY <1>1, <1>3, <1>6, <1>9, <1>10, <1>11, <1>12, <1>13

LEMMA WelcomeWelcomes ==
    ASSUME NEW s \in Sockets, NEW a \in Addresses
    PROVE  /\ Welcome(s, a) \in Seq(StepType) /\ Welcomed(Welcome(s, a))
           /\ \A i \in Places : VisitOf(i, s, a) \in StepsOf(Welcome(s, a))
<1>1. PICK q : q = Welcome(s, a)
  OBVIOUS
<1>2. PICK m \in Nat :
         /\ Places = 1..m /\ q \in Seq(StepType) /\ Len(q) = m + 2
         /\ q[1] = [do |-> "add", socket |-> s, ip |-> a] /\ q[m + 2] = On("replay", s)
         /\ \A i \in 1..m : q[i + 1] = VisitOf(i, s, a)
  BY <1>1, WelcomeShape
<1>3. \A i \in Places : i + 1 \in 1..Len(q) /\ i + 1 > 1 /\ q[i + 1] = VisitOf(i, s, a)
  BY <1>2
<1>4. ASSUME NEW k \in 1..Len(q), q[k].do = "add"
      PROVE  k = 1 /\ q[k].socket = s /\ q[k].ip = a
  <2>1. k = 1 \/ k = m + 2 \/ k - 1 \in 1..m
    BY <1>2
  <2>2. k # m + 2
    BY <1>2, <1>4 DEF On
  <2>3. ASSUME k - 1 \in 1..m PROVE FALSE
    <3>1. q[k] = VisitOf(k - 1, s, a)
      BY <1>2, <1>3, <2>3
    <3>. QED BY <1>4, <3>1 DEF VisitOf
  <2>. QED BY <1>2, <2>1, <2>2, <2>3
<1>5. Welcomed(q)
  BY <1>3, <1>4 DEF Welcomed
<1>6. \A i \in Places : VisitOf(i, s, a) \in StepsOf(q)
  BY <1>3 DEF StepsOf
<1>. QED BY <1>1, <1>2, <1>5, <1>6

LEMMA AcceptPairs ==
    ASSUME ConsoleInv, OneInv, NEW s0 \in Sockets, NEW a0 \in Addresses, Accept(s0, a0)
    PROVE  OneInv'
<1>1. /\ Web \in ConsoleTasks /\ todo[Web] = <<>> /\ UNCHANGED registry
      /\ open' = open \cup {s0} /\ address' = [address EXCEPT ![s0] = a0]
  BY DEF ConsoleTasks, Accept
<1>. DEFINE after == IF Refused(a0) THEN <<On("disconnect", s0)>> ELSE Welcome(s0, a0)
<1>0. PICK line \in Line : todo' = [todo EXCEPT ![Web] = line \o after]
  BY DEF Accept
<1>2. PICK others : others = after
  OBVIOUS
<1>3. /\ others \in Seq(StepType) /\ Welcomed(others)
      /\ \/ On("disconnect", s0) \in StepsOf(others)
         \/ \A i \in Places : VisitOf(i, s0, a0) \in StepsOf(others)
  <2>1. CASE Refused(a0)
    <3>1. On("disconnect", s0) \in StepType /\ On("disconnect", s0).do = "disconnect"
      BY StepKinds
    <3>2. PICK x : x = On("disconnect", s0)
      OBVIOUS
    <3>3. <<x>> \in Seq(StepType) /\ Addless(<<x>>) /\ x \in StepsOf(<<x>>)
      BY <3>1, <3>2, OneAddless
    <3>. QED BY <1>2, <2>1, <3>2, <3>3, AddlessWelcomed
  <2>2. CASE ~Refused(a0)
    BY <1>2, <2>2, WelcomeWelcomes
  <2>. QED BY <2>1, <2>2
<1>4. /\ todo'[Web] = line \o others
      /\ \A u \in ConsoleTasks \ {Web} : todo'[u] = todo[u]
  BY <1>0, <1>1, <1>2 DEF ConsoleInv, TodoInv
<1>5. Welcomed(line \o others) /\ StepsOf(others) \subseteq StepsOf(line \o others)
  BY <1>3, LineAddless, WelcomedCat, StepsOfCat
<1>6. WelcomeInv'
  <2>1. (\A u \in ConsoleTasks \ {Web} : Addless(todo'[u])) /\ Welcomed(todo'[Web])
    BY <1>4, <1>5 DEF OneInv, WelcomeInv
  <2>. QED BY <2>1 DEF WelcomeInv, ConsoleTasks, Addless, StepsOf, Welcomed, Places, VisitOf
<1>7. StepsOf(others) \subseteq Due'
  BY <1>4, <1>5 DEF Due, StepsOf
<1>8. Due = {}
  BY <1>1 DEF Due, StepsOf
<1>9. ASSUME NEW i \in Places, NEW j \in Places, NEW r \in Sockets, NEW s \in Sockets,
             NEW a \in Addresses, Together(i, j, r, s, a)'
      PROVE  \E z \in Dropping(i, j, r, s, a) : z \in Due'
  <2>1. CASE s0 \notin {r, s}
    <3>1. Together(i, j, r, s, a)
      BY <1>1, <1>9, <2>1 DEF Together, registry
    <3>. QED BY <1>8, <3>1 DEF OneInv, PairInv
  <2>2. CASE s0 = r
    <3>1. a = a0
      BY <1>1, <1>9, <2>2 DEF Together, OneInv
    <3>2. \/ On("disconnect", r) \in Due'
          \/ VisitOf(j, r, a0) \in Due'
      BY <1>3, <1>7, <2>2
    <3>. QED BY <3>1, <3>2 DEF Dropping
  <2>3. CASE s0 = s
    <3>2. \/ On("disconnect", s) \in Due'
          \/ VisitOf(i, s, a0) \in Due'
      BY <1>3, <1>7, <2>3
    <3>1. a = a0
      BY <1>1, <1>9, <2>3 DEF Together, OneInv
    <3>. QED BY <3>1, <3>2 DEF Dropping
  <2>. QED BY <2>1, <2>2, <2>3
<1>10. PairInv'
  BY <1>9 DEF PairInv, Places, Dropping, VisitOf, AtPlace, On
<1>. QED BY <1>1, <1>6, <1>10 DEF OneInv

LEMMA OneInvInit == ConsoleInit => OneInv
<1>. SUFFICES ASSUME ConsoleInit PROVE OneInv
  OBVIOUS
<1>1. \A t \in ConsoleTasks : todo[t] = <<>>
  BY DEF ConsoleInit
<1>2. Web \in ConsoleTasks
  BY DEF ConsoleTasks
<1>3. WelcomeInv
  BY <1>1, <1>2 DEF WelcomeInv, Addless, StepsOf, Welcomed
<1>4. open = {} /\ address \in [Sockets -> Addresses]
  BY ConsoleAssumption DEF ConsoleInit
<1>. QED BY <1>3, <1>4 DEF OneInv, PairInv, Together

LEMMA OneInvStep == ConsoleInv /\ OneInv /\ [ConsoleNext]_consoleVars => OneInv'
<1>. SUFFICES ASSUME ConsoleInv, OneInv, [ConsoleNext]_consoleVars PROVE OneInv'
  OBVIOUS
<1>1. ASSUME NEW t \in ConsoleTasks, Registering(t) PROVE OneInv'
  BY <1>1, AddPairs, MildRegistering DEF Registering
<1>2. ASSUME NEW t \in ConsoleTasks, Connecting(t) PROVE OneInv'
  BY <1>2, VisitPairs, disconnectPairs, MildConnecting DEF Connecting
<1>3. ASSUME UNCHANGED consoleVars PROVE OneInv'
  <2>1. UNCHANGED <<todo, open, address, wsClients>>
    BY <1>3 DEF consoleVars, sockets, registry
  <2>2. WelcomeInv'
    BY <2>1 DEF OneInv, WelcomeInv, ConsoleTasks, Addless, StepsOf, Welcomed, Places, VisitOf
  <2>3. FewerClients /\ Due' = Due
    BY <2>1 DEF FewerClients, Due, StepsOf
  <2>. QED BY <2>1, <2>2, <2>3, PairKept DEF OneInv, ConsoleInv
<1>. QED BY <1>1, <1>2, <1>3, LogPairs, CallbackPairs, NoticePairs, LeavePairs,
            ErrorEventPairs, AcceptPairs DEF ConsoleNext

LEMMA OneOf == ConsoleInv /\ OneInv => OneConsolePerAddress
<1>. SUFFICES ASSUME ConsoleInv, OneInv, todo[Web] = <<>>, NEW a \in Addresses
              PROVE  Cardinality({s \in open : address[s] = a /\ Holds(s, a)}) <= 1
  BY DEF OneConsolePerAddress
<1>. DEFINE S == {s \in open : address[s] = a /\ Holds(s, a)}
<1>1. Due = {}
  BY DEF Due, StepsOf
<1>2. ASSUME NEW r \in S, NEW s \in S PROVE r = s
  <2>1. PICK i, j \in Places : wsClients[i] = [id |-> r, ip |-> a] /\ wsClients[j] = [id |-> s, ip |-> a]
    BY DEF Holds
  <2>2. r \in Sockets /\ s \in Sockets
    BY DEF ConsoleInv, ConsoleTypeOK
  <2>3. r # s => Together(i, j, r, s, a)
    BY <2>1 DEF Together
  <2>. QED BY <1>1, <2>2, <2>3 DEF OneInv, PairInv
<1>. HIDE DEF S
<1>3. CASE S = {}
  <2>1. Cardinality(S) = 0
    BY <1>3, FS_EmptySet
  <2>. QED BY <2>1 DEF S
<1>4. CASE S # {}
  <2>1. PICK s \in S : TRUE
    BY <1>4
  <2>2. S = {s}
    BY <1>2, <2>1
  <2>3. Cardinality(S) = 1
    BY <2>2, FS_Singleton
  <2>. QED BY <2>3 DEF S
<1>. QED BY <1>3, <1>4

-----------------------------------------------------------------------------
(* Callbacks that are under way: the steps of one come one right after the *)
(* other, and only a task that sends may have begun another before it.  So *)
(* a task has begun as many as it has messages to send, and one more if it *)
(* is about to take a step within one.                                     *)
Within == {"text", "format", "advance", "test", "count"}
Next1 == [head |-> "text", text |-> "format", format |-> "advance", send |-> "advance",
          advance |-> "test", test |-> "count"]
KindsOf(q, K) == {k \in DOMAIN q : q[k].do \in K}
HowMany(q, K) == Cardinality(KindsOf(q, K))
Mid(q) == IF q # <<>> /\ q[1].do \in Within THEN 1 ELSE 0

Leads(q) ==
    \A k \in 1..Len(q) :
        q[k].do \in DOMAIN Next1 => k < Len(q) /\ q[k + 1].do = Next1[q[k].do]
Balanced(q) == HowMany(q, {"count"}) = HowMany(q, {"head"}) + HowMany(q, {"send"}) + Mid(q)
CallInv == \A t \in ConsoleTasks : Leads(todo[t]) /\ Balanced(todo[t])

(* Steps that are not of a callback; and whole callbacks among such steps. *)
Silent(q) == \A k \in 1..Len(q) : q[k].do \notin Within \cup {"head", "send"}
Plain(q) ==
    /\ q \in Seq(StepType) /\ Leads(q)
    /\ HowMany(q, {"count"}) = HowMany(q, {"head"}) /\ HowMany(q, {"send"}) = 0
    /\ Mid(q) = 0

LEMMA KindsFinite ==
    ASSUME NEW q \in Seq(StepType), NEW K
    PROVE  IsFiniteSet(KindsOf(q, K)) /\ HowMany(q, K) \in Nat
<1>1. IsFiniteSet(1..Len(q)) /\ KindsOf(q, K) \subseteq 1..Len(q)
  <2>1. Len(q) \in Nat /\ DOMAIN q = 1..Len(q)
    OBVIOUS
  <2>. QED BY <2>1, FS_Interval DEF KindsOf
<1>. QED BY <1>1, FS_Subset, FS_CardinalityType DEF HowMany

LEMMA KindsShift ==
    ASSUME NEW q \in Seq(StepType), NEW K, NEW n \in Nat
    PROVE  LET T == {k + n : k \in KindsOf(q, K)}
           IN  IsFiniteSet(T) /\ Cardinality(T) = HowMany(q, K)
<1>. DEFINE S == KindsOf(q, K)
            T == {k + n : k \in S}
            f == [k \in S |-> k + n]
<1>1. S \subseteq Nat
  <2>1. DOMAIN q = 1..Len(q)
    OBVIOUS
  <2>. QED BY <2>1 DEF KindsOf
<1>. HIDE DEF S
<1>2. f \in [S -> T] /\ \A a, b \in S : f[a] = f[b] => a = b
  BY <1>1
<1>3. \A x \in T : \E a \in S : f[a] = x
  OBVIOUS
<1>4. f \in Bijection(S, T)
  BY <1>2, <1>3 DEF Bijection, Injection, Surjection, IsInjective
<1>5. ExistsBijection(S, T)
  BY <1>4 DEF ExistsBijection
<1>6. IsFiniteSet(S)
  BY KindsFinite DEF S
<1>. QED BY <1>5, <1>6, FS_Bijection DEF S, HowMany

LEMMA KindsCat ==
    ASSUME NEW a \in Seq(StepType), NEW b \in Seq(StepType), NEW K
    PROVE  HowMany(a \o b, K) = HowMany(a, K) + HowMany(b, K)
<1>. DEFINE n == Len(a)
            T == {k + n : k \in KindsOf(b, K)}
<1>1. /\ Len(a \o b) = n + Len(b) /\ n \in Nat /\ Len(b) \in Nat
      /\ \A i \in 1 .. n + Len(b) : (a \o b)[i] = IF i <= n THEN a[i] ELSE b[i - n]
      /\ a \o b \in Seq(StepType)
  BY ConcatProperties
<1>2. DOMAIN (a \o b) = 1..(n + Len(b)) /\ DOMAIN a = 1..n /\ DOMAIN b = 1..Len(b)
  BY <1>1
<1>3. ASSUME NEW k \in KindsOf(a \o b, K) PROVE k \in KindsOf(a, K) \cup T
  <2>1. k \in 1..(n + Len(b)) /\ (a \o b)[k].do \in K
    BY <1>2 DEF KindsOf
  <2>2. CASE k <= n
    BY <1>1, <1>2, <2>1, <2>2 DEF KindsOf
  <2>3. CASE k > n
    <3>1. k - n \in 1..Len(b) /\ b[k - n].do \in K /\ k = (k - n) + n
      BY <1>1, <2>1, <2>3
    <3>2. k - n \in KindsOf(b, K)
      BY <1>2, <3>1 DEF KindsOf
    <3>. QED BY <3>1, <3>2
  <2>. QED BY <1>1, <2>1, <2>2, <2>3
<1>4. ASSUME NEW k \in KindsOf(a, K) PROVE k \in KindsOf(a \o b, K) /\ k <= n
  BY <1>1, <1>2 DEF KindsOf
<1>5. ASSUME NEW k \in KindsOf(b, K) PROVE k + n \in KindsOf(a \o b, K) /\ k + n > n
  <2>1. k \in 1..Len(b) /\ b[k].do \in K
    BY <1>2 DEF KindsOf
  <2>2. k + n \in 1..(n + Len(b)) /\ ~(k + n <= n) /\ (k + n) - n = k
    BY <1>1, <2>1
  <2>. QED BY <1>1, <1>2, <2>1, <2>2 DEF KindsOf
<1>6. KindsOf(a \o b, K) = KindsOf(a, K) \cup T
  BY <1>3, <1>4, <1>5
<1>7. KindsOf(a, K) \cap T = {}
  <2>1. KindsOf(b, K) \subseteq Nat /\ KindsOf(a, K) \subseteq Nat
    BY <1>2 DEF KindsOf
  <2>. QED BY <1>1, <1>4, <1>5, <2>1
<1>8. IsFiniteSet(T) /\ Cardinality(T) = HowMany(b, K)
  BY <1>1, KindsShift
<1>9. Cardinality(KindsOf(a, K) \cup T) = HowMany(a, K) + Cardinality(T)
  <2>1. IsFiniteSet(KindsOf(a, K))
    BY KindsFinite
  <2>. HIDE DEF T
  <2>. QED BY <1>7, <1>8, <2>1, CountJoin DEF HowMany
<1>. QED BY <1>6, <1>8, <1>9 DEF HowMany

LEMMA NoKinds ==
    ASSUME NEW q \in Seq(StepType), NEW K
    PROVE  /\ (\A k \in 1..Len(q) : q[k].do \notin K) => HowMany(q, K) = 0
           /\ HowMany(q, K) = 0 => \A k \in 1..Len(q) : q[k].do \notin K
<1>1. DOMAIN q = 1..Len(q)
  OBVIOUS
<1>2. KindsOf(q, K) = {} <=> \A k \in 1..Len(q) : q[k].do \notin K
  BY <1>1 DEF KindsOf
<1>. QED BY <1>2, KindsFinite, FS_EmptySet DEF HowMany

LEMMA KindsTail ==
    ASSUME NEW q \in Seq(StepType), q # <<>>, NEW K
    PROVE  /\ HowMany(Tail(q), K) \in Nat /\ HowMany(q, K) \in Nat
           /\ HowMany(q, K) = HowMany(Tail(q), K) + (IF q[1].do \in K THEN 1 ELSE 0)
<1>1. Tail(q) \in Seq(StepType) /\ <<q[1]>> \in Seq(StepType) /\ q = <<q[1]>> \o Tail(q)
  BY HeadTailProperties
<1>2. HowMany(q, K) = HowMany(<<q[1]>>, K) + HowMany(Tail(q), K)
  <2>1. PICK a \in Seq(StepType), b \in Seq(StepType) : a = <<q[1]>> /\ b = Tail(q)
    BY <1>1
  <2>2. HowMany(a \o b, K) = HowMany(a, K) + HowMany(b, K)
    BY KindsCat
  <2>. QED BY <1>1, <2>1, <2>2
<1>0. HowMany(Tail(q), K) \in Nat /\ HowMany(q, K) \in Nat
  BY <1>1, KindsFinite
<1>3. CASE q[1].do \in K
  <2>1. KindsOf(<<q[1]>>, K) = {1}
    BY <1>3 DEF KindsOf
  <2>2. HowMany(<<q[1]>>, K) = 1
    BY <2>1, FS_Singleton DEF HowMany
  <2>. QED BY <1>0, <1>2, <1>3, <2>2
<1>4. CASE q[1].do \notin K
  <2>1. KindsOf(<<q[1]>>, K) = {}
    BY <1>4 DEF KindsOf
  <2>2. HowMany(<<q[1]>>, K) = 0
    BY <2>1, FS_EmptySet DEF HowMany
  <2>. QED BY <1>0, <1>2, <1>4, <2>2
<1>. QED BY <1>3, <1>4

LEMMA LeadsTail ==
    ASSUME NEW q \in Seq(StepType), q # <<>>, Leads(q)
    PROVE  /\ Tail(q) \in Seq(StepType) /\ Leads(Tail(q))
           /\ q[1].do \in DOMAIN Next1 => Tail(q) # <<>> /\ Tail(q)[1].do = Next1[q[1].do]
<1>1. /\ Tail(q) \in Seq(StepType) /\ Len(Tail(q)) = Len(q) - 1
      /\ \A k \in 1..Len(Tail(q)) : Tail(q)[k] = q[k + 1]
      /\ Len(q) \in Nat \ {0}
  BY HeadTailProperties
<1>2. ASSUME NEW k \in 1..Len(Tail(q)), Tail(q)[k].do \in DOMAIN Next1
      PROVE  k < Len(Tail(q)) /\ Tail(q)[k + 1].do = Next1[Tail(q)[k].do]
  <2>1. k + 1 \in 1..Len(q) /\ Tail(q)[k] = q[k + 1]
    BY <1>1, <1>2
  <2>2. k + 1 < Len(q) /\ q[(k + 1) + 1].do = Next1[q[k + 1].do]
    BY <1>2, <2>1 DEF Leads
  <2>3. k < Len(Tail(q)) /\ k + 1 \in 1..Len(Tail(q))
    BY <1>1, <2>2
  <2>4. Tail(q)[k + 1] = q[(k + 1) + 1]
    BY <1>1, <2>3
  <2>. QED BY <2>1, <2>2, <2>3, <2>4
<1>3. ASSUME q[1].do \in DOMAIN Next1
      PROVE  Tail(q) # <<>> /\ Tail(q)[1].do = Next1[q[1].do]
  <2>1. 1 \in 1..Len(q)
    BY <1>1
  <2>2. 1 < Len(q) /\ q[1 + 1].do = Next1[q[1].do]
    BY <1>3, <2>1 DEF Leads
  <2>3. 1 \in 1..Len(Tail(q))
    BY <1>1, <2>2
  <2>4. Tail(q)[1] = q[1 + 1]
    BY <1>1, <2>3
  <2>5. PICK p \in Seq(StepType) : p = Tail(q)
    BY <1>1
  <2>6. Len(p) # 0
    BY <2>3, <2>5
  <2>7. p # <<>>
    BY <2>6, EmptySeq
  <2>. QED BY <2>2, <2>4, <2>5, <2>7
<1>. QED BY <1>1, <1>2, <1>3 DEF Leads

LEMMA LeadsCat ==
    ASSUME NEW a \in Seq(StepType), NEW b \in Seq(StepType), Leads(a), Leads(b)
    PROVE  a \o b \in Seq(StepType) /\ Leads(a \o b)
<1>1. /\ a \o b \in Seq(StepType) /\ Len(a \o b) = Len(a) + Len(b)
      /\ Len(a) \in Nat /\ Len(b) \in Nat
      /\ \A k \in 1..(Len(a) + Len(b)) :
             (a \o b)[k] = IF k <= Len(a) THEN a[k] ELSE b[k - Len(a)]
  BY ConcatProperties
<1>2. ASSUME NEW k \in 1..Len(a \o b), (a \o b)[k].do \in DOMAIN Next1
      PROVE  k < Len(a \o b) /\ (a \o b)[k + 1].do = Next1[(a \o b)[k].do]
  <2>1. CASE k <= Len(a)
    <3>1. k \in 1..Len(a) /\ (a \o b)[k] = a[k]
      BY <1>1, <2>1
    <3>2. k < Len(a) /\ a[k + 1].do = Next1[a[k].do]
      BY <1>2, <3>1 DEF Leads
    <3>3. k < Len(a \o b) /\ (a \o b)[k + 1] = a[k + 1]
      BY <1>1, <3>2
    <3>. QED BY <3>1, <3>2, <3>3
  <2>2. CASE ~(k <= Len(a))
    <3>1. k - Len(a) \in 1..Len(b) /\ (a \o b)[k] = b[k - Len(a)]
      BY <1>1, <2>2
    <3>2. k - Len(a) < Len(b) /\ b[(k - Len(a)) + 1].do = Next1[b[k - Len(a)].do]
      BY <1>2, <3>1 DEF Leads
    <3>3. /\ k < Len(a \o b) /\ k + 1 \in 1..(Len(a) + Len(b)) /\ ~(k + 1 <= Len(a))
          /\ (k + 1) - Len(a) = (k - Len(a)) + 1
      BY <1>1, <2>2, <3>2
    <3>4. (a \o b)[k + 1] = b[(k - Len(a)) + 1]
      BY <1>1, <3>3
    <3>. QED BY <3>1, <3>2, <3>3, <3>4
  <2>. QED BY <2>1, <2>2
<1>. QED BY <1>1, <1>2 DEF Leads

LEMMA SilentPlain == ASSUME NEW q \in Seq(StepType), Silent(q) PROVE Plain(q)
<1>1. Leads(q)
  BY DEF Silent, Leads, Next1, Within
<1>2. HowMany(q, {"count"}) = 0 /\ HowMany(q, {"head"}) = 0 /\ HowMany(q, {"send"}) = 0
  BY NoKinds DEF Silent, Within
<1>3. Mid(q) = 0
  <2>1. q # <<>> => 1 \in 1..Len(q)
    BY EmptySeq
  <2>. QED BY <2>1 DEF Mid, Silent
<1>. QED BY <1>1, <1>2, <1>3 DEF Plain

LEMMA PlainCat ==
    ASSUME NEW a, NEW b, Plain(a), Plain(b) PROVE Plain(a \o b)
<1>0. a \in Seq(StepType) /\ b \in Seq(StepType)
  BY DEF Plain
<1>1. a \o b \in Seq(StepType) /\ Leads(a \o b)
  BY <1>0, LeadsCat DEF Plain
<1>2. \A K : HowMany(a \o b, K) = HowMany(a, K) + HowMany(b, K)
  BY <1>0, KindsCat
<1>3. /\ HowMany(a \o b, {"count"}) = HowMany(a \o b, {"head"})
      /\ HowMany(a \o b, {"send"}) = 0
  <2>1. /\ HowMany(a \o b, {"count"}) = HowMany(a, {"count"}) + HowMany(b, {"count"})
        /\ HowMany(a \o b, {"head"}) = HowMany(a, {"head"}) + HowMany(b, {"head"})
        /\ HowMany(a \o b, {"send"}) = HowMany(a, {"send"}) + HowMany(b, {"send"})
    BY <1>2
  <2>. QED BY <2>1 DEF Plain
<1>4. Mid(a \o b) = 0
  <2>1. CASE a = <<>>
    BY <1>0, <2>1, ConcatEmptySeq DEF Plain
  <2>2. CASE a # <<>>
    <3>1. (a \o b)[1] = a[1]
      <4>1. Len(a) >= 1 /\ Len(a) \in Nat /\ Len(b) \in Nat
        BY <1>0, <2>2, EmptySeq
      <4>. QED BY <1>0, <4>1, ConcatProperties
    <3>. QED BY <2>2, <3>1 DEF Plain, Mid
  <2>. QED BY <2>1, <2>2
<1>. QED BY <1>1, <1>3, <1>4 DEF Plain

LEMMA LinePlain == ASSUME NEW line \in Line PROVE Plain(line)
<1>1. CASE line = <<>>
  <2>1. line \in Seq(StepType) /\ \A k \in 1..Len(line) : FALSE
    BY <1>1
  <2>. QED BY <2>1, SilentPlain DEF Silent
<1>2. CASE line # <<>>
  <2>1. line = Callback
    BY <1>2 DEF Line
  <2>2. /\ Len(line) = 6 /\ line \in Seq(StepType) /\ DOMAIN line = 1..6
        /\ line[1].do = "head" /\ line[2].do = "text" /\ line[3].do = "format"
        /\ line[4].do = "advance" /\ line[5].do = "test" /\ line[6].do = "count"
    <3>1. \A what \in {"head", "text", "format", "advance", "test", "count"} :
             Do(what) \in StepType /\ Do(what).do = what
      BY StepKinds
    <3>. QED BY <2>1, <3>1 DEF Callback
  <2>3. KindsOf(line, {"count"}) = {6} /\ KindsOf(line, {"head"}) = {1} /\ KindsOf(line, {"send"}) = {}
    BY <2>2 DEF KindsOf
  <2>4. /\ HowMany(line, {"count"}) = 1 /\ HowMany(line, {"head"}) = 1
        /\ HowMany(line, {"send"}) = 0
    <3>1. Cardinality({6}) = 1 /\ Cardinality({1}) = 1
      BY FS_Singleton
    <3>2. \A x : x = {} => Cardinality(x) = 0
      BY FS_EmptySet
    <3>. QED BY <2>3, <3>1, <3>2 DEF HowMany
  <2>5. Leads(line)
    <3>1. \A k \in 1..6 : k = 1 \/ k = 2 \/ k = 3 \/ k = 4 \/ k = 5 \/ k = 6
      OBVIOUS
    <3>2. /\ 1 + 1 = 2 /\ 2 + 1 = 3 /\ 3 + 1 = 4 /\ 4 + 1 = 5 /\ 5 + 1 = 6
          /\ 1 < 6 /\ 2 < 6 /\ 3 < 6 /\ 4 < 6 /\ 5 < 6
      OBVIOUS
    <3>3. "count" \notin DOMAIN Next1
      BY DEF Next1
    <3>. QED BY <2>2, <3>1, <3>2, <3>3 DEF Leads, Next1
  <2>6. Mid(line) = 0
    BY <2>2 DEF Mid, Within
  <2>. QED BY <2>2, <2>4, <2>5, <2>6 DEF Plain
<1>. QED BY <1>1, <1>2

LEMMA BegunIs ==
    ASSUME TodoInv, CallInv, NEW t \in ConsoleTasks
    PROVE  /\ Begun(t) = HowMany(todo[t], {"send"}) + Mid(todo[t])
           /\ Begun(t) \in Nat /\ Mid(todo[t]) \in {0, 1}
           /\ Begun(t) = 0 => (\A x \in StepsOf(todo[t]) : x.do # "send")
           /\ \A what \in Within : About(t, what) => Mid(todo[t]) = 1
           /\ About(t, "send") => HowMany(todo[t], {"send"}) >= 1
<1>1. PICK q \in Seq(StepType) : q = todo[t]
  BY DEF TodoInv
<1>2. LeftOf(t, {"count"}) = HowMany(q, {"count"}) /\ LeftOf(t, {"head"}) = HowMany(q, {"head"})
  BY <1>1 DEF LeftOf, HowMany, KindsOf
<1>3. HowMany(q, {"count"}) = HowMany(q, {"head"}) + HowMany(q, {"send"}) + Mid(q)
  BY <1>1 DEF CallInv, Balanced
<1>4. /\ HowMany(q, {"count"}) \in Nat /\ HowMany(q, {"head"}) \in Nat
      /\ HowMany(q, {"send"}) \in Nat /\ Mid(q) \in {0, 1}
  BY KindsFinite DEF Mid
<1>5. Begun(t) = HowMany(q, {"send"}) + Mid(q)
  BY <1>2, <1>3, <1>4 DEF Begun
<1>6. HowMany(q, {"send"}) = 0 => \A x \in StepsOf(q) : x.do # "send"
  BY NoKinds DEF StepsOf
<1>7. q # <<>> => 1 \in 1..Len(q) /\ Step(t) = q[1]
  BY <1>1, EmptySeq DEF Step
<1>8. \A what \in Within : About(t, what) => Mid(q) = 1
  BY <1>1, <1>7 DEF About, Mid
<1>9. About(t, "send") => HowMany(q, {"send"}) # 0
  BY <1>1, <1>7, NoKinds DEF About
<1>. QED BY <1>1, <1>4, <1>5, <1>6, <1>8, <1>9

LEMMA BegunNow ==
    ASSUME TodoInv', CallInv', NEW t \in ConsoleTasks
    PROVE  Begun(t)' = HowMany(todo'[t], {"send"}) + Mid(todo'[t])
<1>1. PICK q \in Seq(StepType) : q = todo'[t]
  BY DEF TodoInv, ConsoleTasks
<1>2. Begun(t)' = HowMany(q, {"count"}) - HowMany(q, {"head"})
  BY <1>1 DEF Begun, LeftOf, HowMany, KindsOf
<1>3. HowMany(q, {"count"}) = HowMany(q, {"head"}) + HowMany(q, {"send"}) + Mid(q)
  <2>1. Balanced(todo'[t])
    BY DEF CallInv, ConsoleTasks, Balanced, HowMany, KindsOf, Mid
  <2>. QED BY <1>1, <2>1 DEF Balanced
<1>4. /\ HowMany(q, {"count"}) \in Nat /\ HowMany(q, {"head"}) \in Nat
      /\ HowMany(q, {"send"}) \in Nat /\ Mid(q) \in {0, 1}
  BY KindsFinite DEF Mid
<1>. QED BY <1>1, <1>2, <1>3, <1>4

(* The sequence of one task changes.                                       *)
LEMMA CallTurn ==
    ASSUME TodoInv, CallInv, NEW t \in ConsoleTasks, NEW q \in Seq(StepType),
           Leads(q), Balanced(q), todo' = [todo EXCEPT ![t] = q]
    PROVE  CallInv' /\ OnlyOf(t) /\ todo'[t] = q /\ \A u \in ConsoleTasks \ {t} : Begun(u)' = Begun(u)
<1>1. /\ todo'[t] = q /\ \A u \in ConsoleTasks \ {t} : todo'[u] = todo[u]
  BY DEF TodoInv
<1>2. \A u \in ConsoleTasks : Leads(todo'[u]) /\ Balanced(todo'[u])
  BY <1>1 DEF CallInv
<1>3. CallInv'
  BY <1>2 DEF CallInv, ConsoleTasks, Leads, Balanced, HowMany, KindsOf, Mid
<1>. QED BY <1>1, <1>3 DEF OnlyOf, Begun, LeftOf

(* A step that is not of a callback, or the report of a client that is     *)
(* gone.                                                                   *)
Calling == {"head", "text", "format", "send", "advance", "test", "count"}
OuterTodo(t) ==
    /\ CallInv' /\ OnlyOf(t)
    /\ \A u \in ConsoleTasks : Begun(u)' = Begun(u)
    /\ \A what \in Within : ~About(t, what) /\ ~About(t, what)'
    /\ \A x : x.do = "send" => (x \in StepsOf(todo'[t]) <=> x \in StepsOf(todo[t]))

LEMMA MidZero ==
    ASSUME NEW q, Mid(q) = 0, q # <<>> PROVE q[1].do \notin Within
BY DEF Mid

LEMMA OuterPut ==
    ASSUME TodoInv, CallInv, NEW t \in ConsoleTasks, NEW steps, Plain(steps),
           \/ todo[t] # <<>> /\ Then(t, steps) /\ Step(t).do \notin Calling
           \/ /\ todo' = [todo EXCEPT ![t] = steps \o todo[t]]
              /\ todo[t] # <<>> => Step(t).do \in {"send", "resend"}
    PROVE  OuterTodo(t)
<1>1. PICK q \in Seq(StepType) : q = todo[t]
  BY DEF TodoInv
<1>2. Linked(q) /\ Leads(q) /\ Balanced(q)
  BY <1>1 DEF TodoInv, CallInv
<1>3. Mid(q) = 0 /\ (q # <<>> => q[1].do \notin Within)
  BY <1>1 DEF Mid, Step, Within, Calling
<1>4. PICK rest \in Seq(StepType) :
          /\ todo' = [todo EXCEPT ![t] = steps \o rest]
          /\ Leads(rest) /\ Mid(rest) = 0
          /\ \A K \in {{"count"}, {"head"}, {"send"}} : HowMany(rest, K) = HowMany(q, K)
          /\ \A x : x.do = "send" => (x \in StepsOf(rest) <=> x \in StepsOf(q))
  <2>1. CASE todo[t] # <<>> /\ Then(t, steps) /\ Step(t).do \notin Calling
    <3>1. PICK rest : rest = Tail(q)
      OBVIOUS
    <3>2. q # <<>> /\ q[1].do \notin Calling
      BY <1>1, <2>1 DEF Step
    <3>3. rest \in Seq(StepType) /\ Leads(rest)
      BY <1>2, <3>1, <3>2, LeadsTail
    <3>4. Mid(rest) = 0
      <4>1. rest # <<>> => Follows(q[1].do, rest[1].do)
        BY <1>2, <3>1, <3>2, LinkedTail
      <4>. QED BY <3>2, <4>1 DEF Mid, Follows, Within, Calling
    <3>5. \A K \in {{"count"}, {"head"}, {"send"}} : HowMany(rest, K) = HowMany(q, K)
      <4>1. ASSUME NEW K \in {{"count"}, {"head"}, {"send"}} PROVE HowMany(rest, K) = HowMany(q, K)
        <5>1. q[1].do \notin K
          BY <3>2 DEF Calling
        <5>. QED BY <3>1, <3>2, <5>1, KindsTail
      <4>. QED BY <4>1
    <3>6. \A x : x.do = "send" => (x \in StepsOf(rest) <=> x \in StepsOf(q))
      <4>1. StepsOf(q) = {Head(q)} \cup StepsOf(rest) /\ Head(q) = q[1]
        BY <3>1, <3>2, StepsOfTail
      <4>. QED BY <3>2, <4>1 DEF Calling
    <3>7. todo' = [todo EXCEPT ![t] = steps \o rest]
      BY <1>1, <2>1, <3>1 DEF Then
    <3>. QED BY <3>3, <3>4, <3>5, <3>6, <3>7
  <2>2. CASE todo' = [todo EXCEPT ![t] = steps \o todo[t]]
    BY <1>1, <1>2, <1>3, <2>2
  <2>. QED BY <2>1, <2>2
<1>5. PICK p : p = steps \o rest
  OBVIOUS
<1>6. steps \in Seq(StepType)
  BY DEF Plain
<1>7. \A K : HowMany(p, K) = HowMany(steps, K) + HowMany(rest, K)
  BY <1>5, <1>6, KindsCat
<1>8. /\ HowMany(rest, {"count"}) \in Nat /\ HowMany(rest, {"head"}) \in Nat
      /\ HowMany(rest, {"send"}) \in Nat /\ HowMany(steps, {"head"}) \in Nat
  BY <1>6, KindsFinite
<1>9. p \in Seq(StepType) /\ Leads(p)
  BY <1>4, <1>5, <1>6, LeadsCat DEF Plain
<1>10. Mid(p) = 0
  <2>1. CASE steps = <<>>
    BY <1>4, <1>5, <2>1, ConcatEmptySeq
  <2>2. CASE steps # <<>>
    <3>1. p[1] = steps[1]
      <4>1. Len(steps) >= 1 /\ Len(steps) \in Nat /\ Len(rest) \in Nat
        BY <1>6, <2>2, EmptySeq
      <4>. QED BY <1>5, <1>6, <4>1, ConcatProperties
    <3>. QED BY <2>2, <3>1 DEF Plain, Mid
  <2>. QED BY <2>1, <2>2
<1>11. /\ HowMany(p, {"count"}) = HowMany(steps, {"head"}) + HowMany(rest, {"count"})
       /\ HowMany(p, {"head"}) = HowMany(steps, {"head"}) + HowMany(rest, {"head"})
       /\ HowMany(p, {"send"}) = HowMany(rest, {"send"})
  <2>1. /\ HowMany(p, {"count"}) = HowMany(steps, {"count"}) + HowMany(rest, {"count"})
        /\ HowMany(p, {"head"}) = HowMany(steps, {"head"}) + HowMany(rest, {"head"})
        /\ HowMany(p, {"send"}) = HowMany(steps, {"send"}) + HowMany(rest, {"send"})
    BY <1>7
  <2>. QED BY <1>8, <2>1 DEF Plain
<1>12. /\ HowMany(q, {"count"}) = HowMany(rest, {"count"})
       /\ HowMany(q, {"head"}) = HowMany(rest, {"head"})
       /\ HowMany(q, {"send"}) = HowMany(rest, {"send"})
  BY <1>4
<1>13. Balanced(p)
  <2>1. HowMany(rest, {"count"}) = HowMany(rest, {"head"}) + HowMany(rest, {"send"})
    BY <1>2, <1>3, <1>8, <1>12 DEF Balanced
  <2>. QED BY <1>8, <1>10, <1>11, <2>1 DEF Balanced
<1>14. /\ CallInv' /\ OnlyOf(t) /\ todo'[t] = p
       /\ \A u \in ConsoleTasks \ {t} : Begun(u)' = Begun(u)
  BY <1>4, <1>5, <1>9, <1>13, CallTurn
<1>15. Begun(t)' = Begun(t)
  <2>1. /\ Begun(t) = HowMany(q, {"count"}) - HowMany(q, {"head"})
        /\ Begun(t)' = HowMany(p, {"count"}) - HowMany(p, {"head"})
    BY <1>1, <1>14 DEF Begun, LeftOf, HowMany, KindsOf
  <2>. QED BY <1>8, <1>11, <1>12, <2>1
<1>16. \A what \in Within : ~About(t, what) /\ ~About(t, what)'
  <2>1. p # <<>> => p[1].do \notin Within
    BY <1>10, MidZero
  <2>2. \A what \in Within : ~About(t, what)'
    BY <1>14, <2>1 DEF About, Step
  <2>. QED BY <1>1, <1>3, <2>2 DEF About, Step
<1>17. \A x : x.do = "send" => (x \in StepsOf(p) <=> x \in StepsOf(q))
  <2>1. StepsOf(p) = StepsOf(steps) \cup StepsOf(rest)
    BY <1>5, <1>6, StepsOfCat
  <2>2. \A x \in StepsOf(steps) : x.do # "send"
    BY <1>6, NoKinds DEF Plain, StepsOf
  <2>. QED BY <1>4, <2>1, <2>2
<1>. QED BY <1>1, <1>14, <1>15, <1>16, <1>17 DEF OuterTodo

-----------------------------------------------------------------------------
(* The ring.  While no callbacks overlap, the task within one wrote into   *)
(* the slot the index names, and the slots behind it hold the lines that   *)
(* came in order; after it moved the index on, they hold its line too.     *)
AsOne(x) == [head |-> x, text |-> x]
Back(d) == (logBufferIndex - d + LOG_BUFFER_SIZE) % LOG_BUFFER_SIZE
Placed(q, m) == \A d \in 1..m : logBuffer[Back(d)] = AsOne(q[Len(q) - d + 1])
Counting(t) == About(t, "test") \/ About(t, "count")
Moved == \E t \in ConsoleTasks : Counting(t)

AloneInv ==
    /\ ~overlap => \A t, u \in Inside : t = u /\ Begun(t) = 1
    /\ overlap => orderly = <<>> /\ ~unbroken
InSlot(t) ==
    /\ About(t, "text") => local[t] = lines /\ logBuffer[logBufferIndex].head = lines
    /\ (\/ About(t, "format")
        \/ About(t, "advance")
        \/ \E x \in StepsOf(todo[t]) : x.do = "send") => logBuffer[logBufferIndex] = AsOne(lines)
    /\ \A x \in StepsOf(todo[t]) : x.do = "send" => x.entry = AsOne(lines)
    /\ About(t, "advance") => local[t] = logBufferIndex
Behind(t) ==
    /\ Begun(t) # 0 /\ ~Counting(t) => Placed(orderly, Least(Len(orderly), LOG_BUFFER_SIZE - 1))
    /\ Counting(t) => Placed(Append(orderly, lines), Least(Len(orderly) + 1, LOG_BUFFER_SIZE))
    /\ About(t, "test") => local[t] = logBufferCount
    /\ About(t, "count") =>
          local[t] = IF BelowLimit(logBufferCount) THEN logBufferCount ELSE AtLimit
GrowthInv ==
    unbroken =>
        /\ logBufferCount = Len(orderly)
        /\ logBufferCount < LOG_BUFFER_SIZE =>
              logBufferIndex = IF Moved THEN (logBufferCount + 1) % LOG_BUFFER_SIZE
                                        ELSE logBufferCount
RingInv ==
    /\ Len(orderly) <= logBufferCount /\ Len(orderly) <= LOG_BUFFER_SIZE
    /\ ~overlap => /\ Inside = {} => Placed(orderly, Len(orderly))
                   /\ \A t \in ConsoleTasks : InSlot(t) /\ Behind(t)
    /\ GrowthInv
HealInv == CallInv /\ AloneInv /\ RingInv

(* A task that is within no callback.                                      *)
Idle(t) ==
    /\ Begun(t) = 0 /\ \A what \in Within : ~About(t, what)
    /\ \A x \in StepsOf(todo[t]) : x.do # "send"

LEMMA IdleFollows == ASSUME NEW t, Idle(t) PROVE InSlot(t) /\ Behind(t)
BY DEF Idle, InSlot, Behind, Within, Counting

LEMMA IdleIs ==
    ASSUME TodoInv, CallInv, NEW t \in ConsoleTasks, t \notin Inside PROVE Idle(t)
<1>1. /\ Begun(t) = HowMany(todo[t], {"send"}) + Mid(todo[t]) /\ Begun(t) \in Nat
      /\ Begun(t) = 0 => (\A x \in StepsOf(todo[t]) : x.do # "send")
      /\ \A what \in Within : About(t, what) => Mid(todo[t]) = 1
  BY BegunIs
<1>2. Begun(t) = 0
  BY <1>1 DEF Inside
<1>3. HowMany(todo[t], {"send"}) \in Nat
  BY KindsFinite DEF TodoInv
<1>4. Mid(todo[t]) \in {0, 1} /\ Mid(todo[t]) # 1
  BY <1>1, <1>2, <1>3 DEF Mid
<1>. QED BY <1>1, <1>2, <1>4 DEF Idle

LEMMA SoleIs ==
    ASSUME TodoInv, CallInv, AloneInv, ~overlap, NEW t \in ConsoleTasks,
           NEW what \in Within \cup {"send"}, About(t, what)
    PROVE  /\ Inside = {t} /\ Begun(t) = 1 /\ \A u \in ConsoleTasks \ {t} : Idle(u)
           /\ what \in Within => \A x \in StepsOf(todo[t]) : x.do # "send"
<1>1. /\ Begun(t) = HowMany(todo[t], {"send"}) + Mid(todo[t]) /\ Begun(t) \in Nat
      /\ what \in Within => Mid(todo[t]) = 1
      /\ what = "send" => HowMany(todo[t], {"send"}) >= 1
  BY BegunIs
<1>2. PICK q \in Seq(StepType) : q = todo[t]
  BY DEF TodoInv
<1>3. HowMany(q, {"send"}) \in Nat /\ Mid(q) \in {0, 1}
  BY KindsFinite DEF Mid
<1>4. Begun(t) > 0
  BY <1>1, <1>2, <1>3
<1>5. t \in Inside
  BY <1>4 DEF Inside
<1>6. Inside = {t} /\ Begun(t) = 1
  BY <1>5 DEF AloneInv
<1>7. \A u \in ConsoleTasks \ {t} : Idle(u)
  BY <1>6, IdleIs
<1>8. ASSUME what \in Within PROVE \A x \in StepsOf(q) : x.do # "send"
  <2>1. HowMany(q, {"send"}) = 0
    BY <1>1, <1>2, <1>3, <1>6, <1>8
  <2>. QED BY <2>1, NoKinds DEF StepsOf
<1>. QED BY <1>2, <1>6, <1>7, <1>8

LEMMA IdleKept ==
    ASSUME NEW t \in ConsoleTasks, OnlyOf(t), NEW u \in ConsoleTasks \ {t}, Idle(u)
    PROVE  Idle(u)'
BY DEF OnlyOf, Idle, Begun, LeftOf, About, Step, StepsOf, Within

(* What the slots hold, when neither they nor the index change.            *)
LEMMA PlacedSame ==
    ASSUME logBuffer' = logBuffer, logBufferIndex' = logBufferIndex, NEW q, NEW m
    PROVE  Placed(q, m)' <=> Placed(q, m)
BY DEF Placed, Back

LEMMA OuterHeals ==
    ASSUME HealInv, NEW t \in ConsoleTasks, OuterTodo(t), UNCHANGED <<lines, ring, past>>,
           \A u \in ConsoleTasks \ {t} : local'[u] = local[u]
    PROVE  HealInv' /\ Inside' = Inside /\ (Moved' <=> Moved) /\ UnderWay' = UnderWay
<1>1. /\ CallInv' /\ OnlyOf(t) /\ \A u \in ConsoleTasks : Begun(u)' = Begun(u)
      /\ \A what \in Within : ~About(t, what) /\ ~About(t, what)'
      /\ \A x : x.do = "send" => (x \in StepsOf(todo'[t]) <=> x \in StepsOf(todo[t]))
  BY DEF OuterTodo
<1>2. Inside' = Inside /\ UnderWay' = UnderWay
  BY <1>1 DEF Inside, UnderWay, ConsoleTasks
<1>3. \A u \in ConsoleTasks, what \in Within : About(u, what)' <=> About(u, what)
  BY <1>1 DEF OnlyOf, About, Step
<1>4. Moved' <=> Moved
  BY <1>3 DEF Moved, Counting, ConsoleTasks, Within
<1>5. /\ lines' = lines /\ logBuffer' = logBuffer /\ logBufferIndex' = logBufferIndex
      /\ logBufferCount' = logBufferCount /\ orderly' = orderly /\ overlap' = overlap
      /\ unbroken' = unbroken
  BY DEF ring, past
<1>6. AloneInv'
  BY <1>1, <1>2, <1>5 DEF HealInv, AloneInv, Inside
<1>7. \A q, m : Placed(q, m)' <=> Placed(q, m)
  BY <1>5, PlacedSame
<1>8. ASSUME ~overlap, NEW u \in ConsoleTasks PROVE InSlot(u)'
  <2>1. InSlot(u)
    BY <1>8 DEF HealInv, RingInv
  <2>2. \A x : x.do = "send" => (x \in StepsOf(todo'[u]) <=> x \in StepsOf(todo[u]))
    BY <1>1 DEF OnlyOf
  <2>3. \A what \in Within : About(u, what)' => local'[u] = local[u]
    BY <1>1
  <2>4. StepsOf(todo[u])' = StepsOf(todo'[u])
    BY DEF StepsOf
  <2>. QED BY <1>3, <1>5, <2>1, <2>2, <2>3, <2>4 DEF InSlot, Within
<1>9. ASSUME ~overlap, NEW u \in ConsoleTasks PROVE Behind(u)'
  <2>1. Behind(u)
    BY <1>9 DEF HealInv, RingInv
  <2>2. Counting(u)' => local'[u] = local[u]
    BY <1>1 DEF Counting, Within
  <2>3. /\ About(u, "count")' <=> About(u, "count")
        /\ About(u, "test")' <=> About(u, "test")
    BY <1>3 DEF Within
  <2>4. Begun(u)' = Begun(u)
    BY <1>1
  <2>5. /\ Placed(orderly, Least(Len(orderly), LOG_BUFFER_SIZE - 1))' <=>
               Placed(orderly, Least(Len(orderly), LOG_BUFFER_SIZE - 1))
        /\ Placed(Append(orderly, lines), Least(Len(orderly) + 1, LOG_BUFFER_SIZE))' <=>
               Placed(Append(orderly, lines), Least(Len(orderly) + 1, LOG_BUFFER_SIZE))
    BY <1>5 DEF Placed, Back, Least
  <2>. QED BY <1>5, <2>1, <2>2, <2>3, <2>4, <2>5 DEF Behind, Counting, BelowLimit
<1>10. ASSUME ~overlap, Inside' = {} PROVE Placed(orderly, Len(orderly))'
  BY <1>2, <1>5, <1>10 DEF HealInv, RingInv, Placed, Back
<1>11. GrowthInv'
  BY <1>4, <1>5 DEF HealInv, RingInv, GrowthInv
<1>12. RingInv'
  BY <1>5, <1>8, <1>9, <1>10, <1>11 DEF HealInv, RingInv, ConsoleTasks
<1>. QED BY <1>1, <1>2, <1>4, <1>6, <1>12 DEF HealInv

-----------------------------------------------------------------------------
(* Slots behind the index, and behind where it goes next.                  *)
LEMMA RemainderOf ==
    ASSUME NEW b \in Nat \ {0}, NEW r \in 0..(b - 1)
    PROVE  r % b = r /\ (r + b) % b = r
BY SMTT(30)

LEMMA BackIs ==
    ASSUME logBufferIndex \in 0..(LOG_BUFFER_SIZE - 1), NEW d \in 1..LOG_BUFFER_SIZE
    PROVE  /\ Back(d) = IF d <= logBufferIndex THEN logBufferIndex - d
                                               ELSE logBufferIndex - d + LOG_BUFFER_SIZE
           /\ Back(d) \in 0..(LOG_BUFFER_SIZE - 1)
           /\ d # LOG_BUFFER_SIZE => Back(d) # logBufferIndex
<1>0. LOG_BUFFER_SIZE \in Nat \ {0}
  BY ConsoleAssumption
<1>1. CASE d <= logBufferIndex
  <2>1. PICK r \in 0..(LOG_BUFFER_SIZE - 1) : r = logBufferIndex - d
    BY <1>0, <1>1
  <2>2. (r + LOG_BUFFER_SIZE) % LOG_BUFFER_SIZE = r
    BY <1>0, RemainderOf
  <2>3. Back(d) = r
    BY <2>1, <2>2 DEF Back
  <2>. QED BY <1>0, <1>1, <2>1, <2>3
<1>2. CASE ~(d <= logBufferIndex)
  <2>1. PICK r \in 0..(LOG_BUFFER_SIZE - 1) : r = logBufferIndex - d + LOG_BUFFER_SIZE
    BY <1>0, <1>2
  <2>2. r % LOG_BUFFER_SIZE = r
    BY <1>0, RemainderOf
  <2>3. Back(d) = r
    BY <2>1, <2>2 DEF Back
  <2>. QED BY <1>0, <1>2, <2>1, <2>3
<1>. QED BY <1>1, <1>2

LEMMA NextIs ==
    ASSUME NEW n \in 0..(LOG_BUFFER_SIZE - 1)
    PROVE  (n + 1) % LOG_BUFFER_SIZE = IF n + 1 = LOG_BUFFER_SIZE THEN 0 ELSE n + 1
<1>0. LOG_BUFFER_SIZE \in Nat \ {0}
  BY ConsoleAssumption
<1>1. CASE n + 1 = LOG_BUFFER_SIZE
  <2>1. (0 + LOG_BUFFER_SIZE) % LOG_BUFFER_SIZE = 0
    BY <1>0, RemainderOf
  <2>. QED BY <1>0, <1>1, <2>1
<1>2. CASE n + 1 # LOG_BUFFER_SIZE
  <2>1. PICK r \in 0..(LOG_BUFFER_SIZE - 1) : r = n + 1
    BY <1>0, <1>2
  <2>2. r % LOG_BUFFER_SIZE = r
    BY <1>0, RemainderOf
  <2>. QED BY <1>2, <2>1, <2>2
<1>. QED BY <1>1, <1>2

LEMMA BackMoved ==
    ASSUME logBufferIndex \in 0..(LOG_BUFFER_SIZE - 1),
           logBufferIndex' = (logBufferIndex + 1) % LOG_BUFFER_SIZE,
           NEW d \in 1..LOG_BUFFER_SIZE
    PROVE  /\ d = 1 => Back(d)' = logBufferIndex
           /\ d # 1 => Back(d)' = Back(d - 1)
<1>0. LOG_BUFFER_SIZE \in Nat \ {0}
  BY ConsoleAssumption
<1>1. logBufferIndex' = IF logBufferIndex + 1 = LOG_BUFFER_SIZE THEN 0 ELSE logBufferIndex + 1
  BY NextIs
<1>2. logBufferIndex' \in 0..(LOG_BUFFER_SIZE - 1)
  BY <1>0, <1>1
<1>3. Back(d)' = IF d <= logBufferIndex' THEN logBufferIndex' - d
                                         ELSE logBufferIndex' - d + LOG_BUFFER_SIZE
  <2>1. PICK i \in 0..(LOG_BUFFER_SIZE - 1) : i = logBufferIndex'
    BY <1>2
  <2>2. (i - d + LOG_BUFFER_SIZE) % LOG_BUFFER_SIZE =
            IF d <= i THEN i - d ELSE i - d + LOG_BUFFER_SIZE
    <3>1. CASE d <= i
      <4>1. PICK r \in 0..(LOG_BUFFER_SIZE - 1) : r = i - d
        BY <1>0, <3>1
      <4>. QED BY <1>0, <3>1, <4>1, RemainderOf
    <3>2. CASE ~(d <= i)
      <4>1. PICK r \in 0..(LOG_BUFFER_SIZE - 1) : r = i - d + LOG_BUFFER_SIZE
        BY <1>0, <3>2
      <4>. QED BY <1>0, <3>2, <4>1, RemainderOf
    <3>. QED BY <3>1, <3>2
  <2>. QED BY <2>1, <2>2 DEF Back
<1>4. CASE d = 1
  BY <1>0, <1>1, <1>3, <1>4
<1>5. CASE d # 1
  <2>1. d - 1 \in 1..LOG_BUFFER_SIZE
    BY <1>0, <1>5
  <2>2. Back(d - 1) = IF d - 1 <= logBufferIndex THEN logBufferIndex - (d - 1)
                          ELSE logBufferIndex - (d - 1) + LOG_BUFFER_SIZE
    BY <2>1, BackIs
  <2>. QED BY <1>0, <1>1, <1>3, <1>5, <2>1, <2>2
<1>. QED BY <1>4, <1>5

(* The next step of a callback.                                            *)
LEMMA CallMoves ==
    ASSUME TodoInv, CallInv, NEW t \in ConsoleTasks, todo[t] # <<>>, Done(t),
           Step(t).do \in Calling,
           Step(t).do = "count" => Poised(t)'
    PROVE  /\ CallInv' /\ OnlyOf(t) /\ StepsOf(todo[t]) = {Step(t)} \cup StepsOf(todo'[t])
           /\ \A u \in ConsoleTasks \ {t} : Begun(u)' = Begun(u)
           /\ Begun(t)' = Begun(t) + (IF Step(t).do = "head" THEN 1 ELSE 0)
                                   - (IF Step(t).do = "count" THEN 1 ELSE 0)
           /\ \A what : Step(t).do \in DOMAIN Next1 /\ what = Next1[Step(t).do] => About(t, what)'
<1>1. PICK q \in Seq(StepType) : q = todo[t]
  BY DEF TodoInv
<1>2. PICK p : p = Tail(q)
  OBVIOUS
<1>3. Leads(q) /\ Balanced(q) /\ q # <<>> /\ Step(t) = q[1]
  BY <1>1 DEF CallInv, Step
<1>4. /\ p \in Seq(StepType) /\ Leads(p)
      /\ q[1].do \in DOMAIN Next1 => p # <<>> /\ p[1].do = Next1[q[1].do]
  BY <1>2, <1>3, LeadsTail
<1>5. todo' = [todo EXCEPT ![t] = p]
  <2>1. <<>> \o p = p
    BY <1>4, ConcatEmptySeq
  <2>2. todo' = [todo EXCEPT ![t] = <<>> \o Tail(todo[t])]
    BY DEF Done, Then
  <2>. QED BY <1>1, <1>2, <2>1, <2>2
<1>6. todo'[t] = p
  BY <1>5 DEF TodoInv
<1>7. Mid(p) = IF q[1].do \in DOMAIN Next1 THEN 1 ELSE 0
  <2>1. CASE q[1].do \in DOMAIN Next1
    <3>1. p # <<>> /\ p[1].do \in Within
      BY <1>4, <2>1 DEF Next1, Within
    <3>. QED BY <2>1, <3>1 DEF Mid
  <2>2. CASE q[1].do \notin DOMAIN Next1
    <3>1. q[1].do = "count"
      BY <1>3, <2>2 DEF Calling, Next1
    <3>2. p # <<>> => p[1].do \in Loose
      BY <1>3, <1>6, <3>1 DEF Poised, Step
    <3>3. p = <<>> \/ p[1].do \notin Within
      BY <3>2 DEF Loose, Within
    <3>. QED BY <2>2, <3>3 DEF Mid
  <2>. QED BY <2>1, <2>2
<1>8. \A K : /\ HowMany(p, K) \in Nat /\ HowMany(q, K) \in Nat
             /\ HowMany(q, K) = HowMany(p, K) + (IF q[1].do \in K THEN 1 ELSE 0)
  BY <1>2, <1>3, KindsTail
<1>9. PICK c, h, e \in Nat : c = HowMany(p, {"count"}) /\ h = HowMany(p, {"head"})
                             /\ e = HowMany(p, {"send"})
  BY <1>8
<1>10. /\ HowMany(q, {"count"}) = c + (IF q[1].do = "count" THEN 1 ELSE 0)
       /\ HowMany(q, {"head"}) = h + (IF q[1].do = "head" THEN 1 ELSE 0)
       /\ HowMany(q, {"send"}) = e + (IF q[1].do = "send" THEN 1 ELSE 0)
  BY <1>8, <1>9
<1>11. Mid(q) = IF q[1].do \in Within THEN 1 ELSE 0
  BY <1>3 DEF Mid
<1>12. Balanced(p)
  <2>1. c = h + e + Mid(p)
    <3>1. q[1].do \in Calling
      BY <1>3
    <3>. QED BY <1>3, <1>7, <1>10, <1>11, <3>1 DEF Balanced, Calling, Next1, Within
  <2>. QED BY <1>9, <2>1 DEF Balanced
<1>13. /\ CallInv' /\ OnlyOf(t)
       /\ \A u \in ConsoleTasks \ {t} : Begun(u)' = Begun(u)
  BY <1>4, <1>5, <1>12, CallTurn
<1>14. Begun(t) = HowMany(q, {"count"}) - HowMany(q, {"head"}) /\ Begun(t)' = c - h
  BY <1>1, <1>6, <1>9 DEF Begun, LeftOf, HowMany, KindsOf
<1>15. Begun(t)' = Begun(t) + (IF Step(t).do = "head" THEN 1 ELSE 0)
                            - (IF Step(t).do = "count" THEN 1 ELSE 0)
  BY <1>3, <1>10, <1>14
<1>16. StepsOf(todo[t]) = {Step(t)} \cup StepsOf(todo'[t])
  BY <1>1, <1>2, <1>3, <1>6, StepsOfTail
<1>17. \A what : Step(t).do \in DOMAIN Next1 /\ what = Next1[Step(t).do] => About(t, what)'
  BY <1>3, <1>4, <1>6 DEF About, Step
<1>. QED BY <1>13, <1>15, <1>16, <1>17

(* The heart of each step: what it leaves if no other callback is begun.   *)
LEMMA HeadHeals ==
    ASSUME ConsoleInv, HealInv, NEW t \in ConsoleTasks, StoreHead(t)
    PROVE  /\ HealInv'
           /\ Inside = {} =>
                 /\ Inside' = {t}
                 /\ \A u \in ConsoleTasks, what \in {"advance", "test", "count"} :
                       ~About(u, what) /\ ~About(u, what)'
<1>1. /\ todo[t] # <<>> /\ Step(t).do = "head" /\ Done(t) /\ Load(t, lines')
      /\ logBuffer' = [logBuffer EXCEPT ![logBufferIndex].head = lines']
      /\ logBufferIndex' = logBufferIndex /\ logBufferCount' = logBufferCount
  BY DEF StoreHead, About
<1>2. /\ CallInv' /\ OnlyOf(t) /\ StepsOf(todo[t]) = {Step(t)} \cup StepsOf(todo'[t])
      /\ \A u \in ConsoleTasks \ {t} : Begun(u)' = Begun(u)
      /\ Begun(t)' = Begun(t) + 1 /\ About(t, "text")'
  <2>1. /\ CallInv' /\ OnlyOf(t) /\ StepsOf(todo[t]) = {Step(t)} \cup StepsOf(todo'[t])
        /\ \A u \in ConsoleTasks \ {t} : Begun(u)' = Begun(u)
        /\ Begun(t)' = Begun(t) + 1 - 0
        /\ \A what : Step(t).do \in DOMAIN Next1 /\ what = Next1[Step(t).do] => About(t, what)'
    <3>1. Step(t).do \in Calling /\ Step(t).do # "count"
      BY <1>1 DEF Calling
    <3>. QED BY <1>1, <3>1, CallMoves DEF ConsoleInv, HealInv
  <2>2. Begun(t) \in Nat
    BY BegunIs DEF ConsoleInv, HealInv
  <2>. QED BY <1>1, <2>1, <2>2 DEF Next1
<1>3. CASE Inside # {}
  <2>1. orderly' = <<>> /\ overlap' = TRUE /\ unbroken' = FALSE
    BY <1>3 DEF StoreHead
  <2>2. AloneInv'
    BY <2>1 DEF AloneInv
  <2>3. Len(orderly') <= logBufferCount' /\ Len(orderly') <= LOG_BUFFER_SIZE
    BY <1>1, <2>1, ConsoleAssumption DEF ConsoleInv, ConsoleTypeOK
  <2>4. RingInv'
    BY <2>1, <2>3 DEF RingInv, GrowthInv
  <2>. QED BY <1>2, <1>3, <2>2, <2>4 DEF HealInv
<1>4. CASE Inside = {}
  <2>1. orderly' = orderly /\ overlap' = overlap /\ unbroken' = unbroken
    BY <1>4 DEF StoreHead, past
  <2>2. \A u \in ConsoleTasks : Idle(u)
    BY <1>4, IdleIs DEF ConsoleInv, HealInv
  <2>3. \A u \in ConsoleTasks \ {t} : Idle(u)'
    BY <1>2, <2>2, IdleKept
  <2>4. Begun(t) = 0 /\ Begun(t)' = 1
    BY <1>2, <2>2 DEF Idle
  <2>5. Inside' = {t}
    BY <2>3, <2>4 DEF Inside, Idle, ConsoleTasks
  <2>6. AloneInv'
    BY <2>1, <2>4, <2>5 DEF AloneInv, HealInv
  <2>13. \A u \in ConsoleTasks, what \in {"advance", "test", "count"} : ~About(u, what) /\ ~About(u, what)'
    <3>1. \A u \in ConsoleTasks, what \in Within : ~About(u, what)
      BY <2>2 DEF Idle
    <3>2. \A u \in ConsoleTasks \ {t}, what \in Within : ~About(u, what)'
      BY <2>3 DEF Idle
    <3>3. \A what \in {"advance", "test", "count"} : ~About(t, what)'
      BY <1>2 DEF About
    <3>. QED BY <3>1, <3>2, <3>3 DEF Within
  <2>7. ~Moved /\ ~Moved'
    BY <2>13 DEF Moved, Counting, ConsoleTasks
  <2>8. GrowthInv' /\ Len(orderly') <= logBufferCount' /\ Len(orderly') <= LOG_BUFFER_SIZE
    BY <1>1, <2>1, <2>7 DEF HealInv, RingInv, GrowthInv
  <2>9. ASSUME ~overlap PROVE InSlot(t)'
    <3>1. local'[t] = lines'
      BY <1>1 DEF Load, ConsoleInv, LocalInv
    <3>2. logBuffer'[logBufferIndex'].head = lines'
      BY <1>1 DEF ConsoleInv, ConsoleTypeOK
    <3>3. \A x \in StepsOf(todo'[t]) : x.do # "send"
      BY <1>2, <2>2 DEF Idle
    <3>4. StepsOf(todo[t])' = StepsOf(todo'[t])
      BY DEF StepsOf
    <3>. QED BY <1>2, <3>1, <3>2, <3>3, <3>4 DEF InSlot, About
  <2>10. ASSUME ~overlap PROVE Behind(t)'
    <3>1. ~Counting(t)'
      BY <1>2 DEF About, Counting
    <3>2. Placed(orderly, Len(orderly)) /\ Len(orderly) \in Nat /\ LOG_BUFFER_SIZE \in Nat \ {0}
      BY <1>4, <2>10, ConsoleAssumption DEF HealInv, RingInv, ConsoleInv
    <3>3. ASSUME NEW d \in 1..Least(Len(orderly), LOG_BUFFER_SIZE - 1)
          PROVE  logBuffer'[Back(d)'] = AsOne(orderly[Len(orderly) - d + 1])
      <4>1. d \in 1..Len(orderly) /\ d \in 1..LOG_BUFFER_SIZE /\ d # LOG_BUFFER_SIZE
        BY <3>2 DEF Least
      <4>2. Back(d) # logBufferIndex /\ Back(d)' = Back(d)
        <5>1. Back(d) # logBufferIndex
          BY <4>1, BackIs DEF ConsoleInv, ConsoleTypeOK
        <5>. QED BY <1>1, <5>1 DEF Back
      <4>3. logBuffer'[Back(d)] = logBuffer[Back(d)]
        BY <1>1, <4>1, <4>2, BackIs DEF ConsoleInv, ConsoleTypeOK
      <4>. QED BY <3>2, <4>1, <4>2, <4>3 DEF Placed
    <3>4. Placed(orderly, Least(Len(orderly), LOG_BUFFER_SIZE - 1))'
      BY <2>1, <3>3 DEF Placed, Least, AsOne
    <3>. QED BY <3>1, <3>4 DEF Behind, Counting
  <2>11. \A u \in ConsoleTasks \ {t} : InSlot(u)' /\ Behind(u)'
    <3>1. ASSUME NEW u \in ConsoleTasks \ {t} PROVE InSlot(u)' /\ Behind(u)'
      BY <2>3 DEF Idle, InSlot, Behind, Counting, Within
    <3>. QED BY <3>1
  <2>12. RingInv'
    BY <2>1, <2>5, <2>8, <2>9, <2>10, <2>11 DEF RingInv, ConsoleTasks
  <2>. QED BY <1>2, <2>5, <2>6, <2>12, <2>13 DEF HealInv
<1>. QED BY <1>3, <1>4

(* A step within a callback that is not over.                              *)
LEMMA MidHeals ==
    ASSUME ConsoleInv, HealInv, NEW t \in ConsoleTasks, NEW what \in Within \cup {"send"},
           About(t, what), CallInv', OnlyOf(t), \A u \in ConsoleTasks : Begun(u)' = Begun(u),
           UNCHANGED past, logBufferCount' = logBufferCount, GrowthInv',
           ~overlap => InSlot(t)' /\ Behind(t)'
    PROVE  HealInv' /\ Inside' = Inside
<1>1. Inside' = Inside
  BY DEF Inside, ConsoleTasks
<1>2. orderly' = orderly /\ overlap' = overlap /\ unbroken' = unbroken
  BY DEF past
<1>3. AloneInv'
  BY <1>1, <1>2 DEF HealInv, AloneInv, Inside
<1>4. ASSUME ~overlap PROVE /\ Inside' # {} /\ \A u \in ConsoleTasks : InSlot(u)' /\ Behind(u)'
  <2>1. Inside = {t} /\ \A u \in ConsoleTasks \ {t} : Idle(u)
    BY <1>4, SoleIs DEF ConsoleInv, HealInv
  <2>2. ASSUME NEW u \in ConsoleTasks \ {t} PROVE InSlot(u)' /\ Behind(u)'
    <3>1. Idle(u)'
      BY <2>1, IdleKept
    <3>. QED BY <3>1 DEF Idle, InSlot, Behind, Counting, Within
  <2>. QED BY <1>1, <1>4, <2>1, <2>2
<1>5. RingInv'
  BY <1>2, <1>4 DEF HealInv, RingInv, ConsoleTasks
<1>. QED BY <1>1, <1>3, <1>5 DEF HealInv

(* The callback's next step; nothing is appended.                          *)
LEMMA DoneMoves ==
    ASSUME ConsoleInv, HealInv, NEW t \in ConsoleTasks, NEW what \in DOMAIN Next1, what # "head",
           About(t, what), Done(t)
    PROVE  /\ CallInv' /\ OnlyOf(t) /\ StepsOf(todo[t]) = {Step(t)} \cup StepsOf(todo[t])'
           /\ \A u \in ConsoleTasks : Begun(u)' = Begun(u)
           /\ \A next : next = Next1[what] => About(t, next)'
           /\ ~overlap => /\ \A x \in StepsOf(todo[t]) : x.do = "send" => what = "send"
                          /\ \A u \in ConsoleTasks \ {t} : Idle(u) /\ Idle(u)'
                          /\ Begun(t) # 0
<1>1. todo[t] # <<>> /\ Step(t).do = what /\ what # "count" /\ what \in Calling
  BY DEF About, Next1, Calling
<1>2. /\ CallInv' /\ OnlyOf(t) /\ StepsOf(todo[t]) = {Step(t)} \cup StepsOf(todo'[t])
      /\ \A u \in ConsoleTasks \ {t} : Begun(u)' = Begun(u)
      /\ Begun(t)' = Begun(t) + 0 - 0
      /\ \A next : next = Next1[what] => About(t, next)'
  BY <1>1, CallMoves DEF ConsoleInv, HealInv
<1>3. Begun(t) \in Nat
  BY BegunIs DEF ConsoleInv, HealInv
<1>4. StepsOf(todo[t])' = StepsOf(todo'[t])
  BY DEF StepsOf
<1>5. ASSUME ~overlap
      PROVE  /\ \A x \in StepsOf(todo[t]) : x.do = "send" => what = "send"
             /\ \A u \in ConsoleTasks \ {t} : Idle(u) /\ Idle(u)'
             /\ Begun(t) # 0
  <2>1. what \in Within \cup {"send"}
    BY DEF Within, Next1
  <2>2. /\ \A u \in ConsoleTasks \ {t} : Idle(u)
        /\ Begun(t) = 1
        /\ what \in Within => \A x \in StepsOf(todo[t]) : x.do # "send"
    BY <1>5, <2>1, SoleIs DEF ConsoleInv, HealInv
  <2>3. \A u \in ConsoleTasks \ {t} : Idle(u)'
    BY <1>2, <2>2, IdleKept
  <2>. QED BY <2>1, <2>2, <2>3
<1>6. \A u \in ConsoleTasks : Begun(u)' = Begun(u)
  BY <1>2, <1>3
<1>. QED BY <1>2, <1>4, <1>5, <1>6

LEMMA UnbrokenAlone == ASSUME AloneInv, unbroken PROVE ~overlap
BY DEF AloneInv

(* The slot is what it was, and so are those behind it.                    *)
LEMMA BehindKept ==
    ASSUME ConsoleInv, HealInv, NEW t \in ConsoleTasks, ~overlap, Begun(t) # 0, ~Counting(t),
           ~Counting(t)', orderly' = orderly, logBufferIndex' = logBufferIndex,
           \A i \in 0..(LOG_BUFFER_SIZE - 1) \ {logBufferIndex} : logBuffer'[i] = logBuffer[i]
    PROVE  Behind(t)'
<1>1. /\ Placed(orderly, Least(Len(orderly), LOG_BUFFER_SIZE - 1))
      /\ Len(orderly) \in Nat /\ LOG_BUFFER_SIZE \in Nat \ {0}
  BY ConsoleAssumption DEF HealInv, RingInv, ConsoleInv, Behind
<1>2. ASSUME NEW d \in 1..Least(Len(orderly), LOG_BUFFER_SIZE - 1)
      PROVE  logBuffer'[Back(d)'] = AsOne(orderly[Len(orderly) - d + 1])
  <2>1. d \in 1..LOG_BUFFER_SIZE /\ d # LOG_BUFFER_SIZE
    BY <1>1 DEF Least
  <2>2. Back(d) # logBufferIndex /\ Back(d) \in 0..(LOG_BUFFER_SIZE - 1)
    BY <2>1, BackIs DEF ConsoleInv, ConsoleTypeOK
  <2>3. Back(d)' = Back(d)
    BY DEF Back
  <2>. QED BY <1>1, <2>2, <2>3 DEF Placed
<1>3. Placed(orderly, Least(Len(orderly), LOG_BUFFER_SIZE - 1))'
  BY <1>2 DEF Placed, Least, AsOne
<1>. QED BY <1>3 DEF Behind, Counting

LEMMA TextHeals ==
    ASSUME ConsoleInv, HealInv, NEW t \in ConsoleTasks, StoreText(t)
    PROVE  HealInv' /\ Inside' = Inside
<1>1. /\ About(t, "text") /\ Done(t) /\ UNCHANGED past
      /\ logBuffer' = [logBuffer EXCEPT ![logBufferIndex].text = local[t]]
      /\ logBufferIndex' = logBufferIndex /\ logBufferCount' = logBufferCount /\ lines' = lines
  BY DEF StoreText
<1>2. "text" \in DOMAIN Next1 /\ Next1["text"] = "format"
  BY DEF Next1
<1>3. /\ CallInv' /\ OnlyOf(t) /\ StepsOf(todo[t]) = {Step(t)} \cup StepsOf(todo[t])'
      /\ \A u \in ConsoleTasks : Begun(u)' = Begun(u)
      /\ About(t, "format")'
      /\ ~overlap => /\ \A x \in StepsOf(todo[t]) : x.do # "send"
                     /\ \A u \in ConsoleTasks \ {t} : Idle(u) /\ Idle(u)'
                     /\ Begun(t) # 0
  <2>. HIDE DEF Next1
  <2>. QED BY <1>1, <1>2, DoneMoves
<1>4. ~Counting(t) /\ ~Counting(t)' /\ ~About(t, "text")' /\ ~About(t, "advance")'
  BY <1>1, <1>3 DEF About, Counting
<1>5. ASSUME ~overlap PROVE InSlot(t)' /\ Behind(t)'
  <2>1. local[t] = lines /\ logBuffer[logBufferIndex].head = lines
    BY <1>1, <1>5 DEF HealInv, RingInv, InSlot
  <2>2. /\ logBuffer \in [0..(LOG_BUFFER_SIZE - 1) -> [head : 0..lines, text : 0..lines]]
        /\ logBufferIndex \in 0..(LOG_BUFFER_SIZE - 1)
    BY DEF ConsoleInv, ConsoleTypeOK
  <2>3. logBuffer'[logBufferIndex'] = AsOne(lines')
    BY <1>1, <2>1, <2>2 DEF AsOne
  <2>4. \A x \in StepsOf(todo[t])' : x.do # "send"
    BY <1>3, <1>5
  <2>5. InSlot(t)'
    BY <1>4, <2>3, <2>4 DEF InSlot, AsOne
  <2>6. Behind(t)'
    <3>1. \A i \in 0..(LOG_BUFFER_SIZE - 1) \ {logBufferIndex} : logBuffer'[i] = logBuffer[i]
      BY <1>1, <2>2
    <3>. QED BY <1>1, <1>3, <1>4, <1>5, <3>1, BehindKept DEF past
  <2>. QED BY <2>5, <2>6
<1>6. GrowthInv'
  <2>. SUFFICES ASSUME unbroken PROVE GrowthInv'
    BY <1>1 DEF GrowthInv, past
  <2>1. ~overlap
    BY UnbrokenAlone DEF HealInv
  <2>2. ~Moved /\ ~Moved'
    BY <1>3, <1>4, <2>1 DEF Moved, Counting, Idle, Within, ConsoleTasks
  <2>. QED BY <1>1, <2>2 DEF GrowthInv, HealInv, RingInv, past
<1>7. "text" \in Within \cup {"send"}
  BY DEF Within
<1>. QED BY <1>1, <1>3, <1>5, <1>6, <1>7, MidHeals

-----------------------------------------------------------------------------
(* The message is put in front of the rest of the callback.                *)
LEMMA OneBefore ==
    ASSUME NEW x \in StepType, NEW r \in Seq(StepType), Leads(r),
           x.do \in DOMAIN Next1 => r # <<>> /\ r[1].do = Next1[x.do]
    PROVE  LET p == <<x>> \o r
           IN  /\ p \in Seq(StepType) /\ Leads(p) /\ p # <<>> /\ p[1] = x
               /\ StepsOf(p) = {x} \cup StepsOf(r)
               /\ \A K : HowMany(p, K) = HowMany(r, K) + (IF x.do \in K THEN 1 ELSE 0)
<1>1. PICK one : one = <<x>>
  OBVIOUS
<1>2. PICK p : p = one \o r
  OBVIOUS
<1>3. one \in Seq(StepType) /\ Len(one) = 1 /\ one[1] = x /\ DOMAIN one = 1..1
  BY <1>1
<1>4. StepsOf(one) = {x}
  <2>1. \A k \in 1..1 : k = 1
    OBVIOUS
  <2>2. 1 \in 1..1
    OBVIOUS
  <2>. QED BY <1>3, <2>1, <2>2 DEF StepsOf
<1>5. p \in Seq(StepType) /\ StepsOf(p) = {x} \cup StepsOf(r)
  BY <1>2, <1>3, <1>4, StepsOfCat
<1>6. /\ Len(p) = Len(r) + 1 /\ Len(r) \in Nat /\ p[1] = x
      /\ \A k \in 1..Len(r) : p[k + 1] = r[k]
  <2>1. /\ Len(p) = 1 + Len(r) /\ Len(r) \in Nat
        /\ \A k \in 1..(1 + Len(r)) : p[k] = IF k <= 1 THEN one[k] ELSE r[k - 1]
    <3>0. one \in Seq(StepType)
      BY <1>3
    <3>1. /\ Len(one \o r) = Len(one) + Len(r) /\ Len(r) \in Nat
          /\ \A k \in 1..(Len(one) + Len(r)) :
                 (one \o r)[k] = IF k <= Len(one) THEN one[k] ELSE r[k - Len(one)]
      BY <3>0, ConcatProperties
    <3>2. Len(one) = 1
      BY <1>3
    <3>. QED BY <1>2, <3>1, <3>2
  <2>2. \A k \in 1..Len(r) : k + 1 \in 1..(1 + Len(r)) /\ ~(k + 1 <= 1) /\ (k + 1) - 1 = k
    BY <2>1
  <2>3. 1 \in 1..(1 + Len(r)) /\ 1 <= 1
    BY <2>1
  <2>4. p[1] = x
    BY <1>3, <2>1, <2>3
  <2>5. \A k \in 1..Len(r) : p[k + 1] = r[k]
    BY <2>1, <2>2
  <2>. QED BY <2>1, <2>4, <2>5
<1>7. p # <<>>
  <2>1. Len(p) # 0
    BY <1>6
  <2>. QED BY <1>5, <2>1, EmptySeq
<1>8. ASSUME NEW k \in 1..Len(p), p[k].do \in DOMAIN Next1
      PROVE  k < Len(p) /\ p[k + 1].do = Next1[p[k].do]
  <2>1. CASE k = 1
    <3>1. r # <<>> /\ r[1].do = Next1[x.do] /\ p[1] = x
      BY <1>6, <1>8, <2>1
    <3>2. Len(r) >= 1
      BY <1>6, <3>1, EmptySeq
    <3>3. p[1 + 1] = r[1] /\ 1 < Len(p)
      BY <1>6, <3>2
    <3>. QED BY <2>1, <3>1, <3>3
  <2>2. CASE k # 1
    <3>1. k - 1 \in 1..Len(r) /\ (k - 1) + 1 = k
      BY <1>6, <2>2
    <3>2. p[k] = r[k - 1]
      BY <1>6, <3>1
    <3>3. k - 1 < Len(r) /\ r[(k - 1) + 1].do = Next1[r[k - 1].do]
      BY <1>8, <3>1, <3>2 DEF Leads
    <3>4. k < Len(p) /\ k \in 1..Len(r)
      BY <1>6, <3>1, <3>3
    <3>. QED BY <1>6, <3>1, <3>2, <3>3, <3>4
  <2>. QED BY <2>1, <2>2
<1>9. Leads(p)
  BY <1>8 DEF Leads
<1>10. ASSUME NEW K PROVE HowMany(p, K) = HowMany(r, K) + (IF x.do \in K THEN 1 ELSE 0)
  <2>1. HowMany(p, K) = HowMany(one, K) + HowMany(r, K)
    BY <1>2, <1>3, KindsCat
  <2>2. HowMany(one, K) = IF x.do \in K THEN 1 ELSE 0
    <3>1. CASE x.do \in K
      <4>1. KindsOf(one, K) = {1}
        BY <1>3, <3>1 DEF KindsOf
      <4>. QED BY <3>1, <4>1, FS_Singleton DEF HowMany
    <3>2. CASE x.do \notin K
      <4>1. KindsOf(one, K) = {}
        BY <1>3, <3>2 DEF KindsOf
      <4>. QED BY <3>2, <4>1, FS_EmptySet DEF HowMany
    <3>. QED BY <3>1, <3>2
  <2>3. HowMany(r, K) \in Nat
    BY KindsFinite
  <2>. QED BY <2>1, <2>2, <2>3
<1>. QED BY <1>1, <1>2, <1>5, <1>6, <1>7, <1>9, <1>10

Message == [do |-> "send", entry |-> logBuffer[logBufferIndex]]
LEMMA SendPut ==
    ASSUME ConsoleInv, HealInv, NEW t \in ConsoleTasks, Format(t), Listened
    PROVE  /\ CallInv' /\ OnlyOf(t)
           /\ \A u \in ConsoleTasks : Begun(u)' = Begun(u)
           /\ About(t, "send")'
           /\ StepsOf(todo[t])' \subseteq {Message} \cup StepsOf(todo[t])
           /\ StepsOf(todo[t]) \subseteq {Step(t)} \cup StepsOf(todo[t])'
<1>1. PICK q \in Seq(StepType) : q = todo[t]
  BY DEF ConsoleInv, TodoInv
<1>2. q # <<>> /\ q[1].do = "format" /\ Step(t) = q[1] /\ Leads(q) /\ Balanced(q)
  BY <1>1 DEF Format, About, Step, HealInv, CallInv
<1>3. PICK r : r = Tail(q)
  OBVIOUS
<1>4. /\ r \in Seq(StepType) /\ Leads(r) /\ r # <<>> /\ r[1].do = "advance"
      /\ StepsOf(q) = {q[1]} \cup StepsOf(r)
  <2>1. "format" \in DOMAIN Next1 /\ Next1["format"] = "advance"
    BY DEF Next1
  <2>2. StepsOf(q) = {Head(q)} \cup StepsOf(Tail(q)) /\ Head(q) = q[1]
    BY <1>2, StepsOfTail
  <2>. QED BY <1>2, <1>3, <2>1, <2>2, LeadsTail
<1>5. Message \in StepType /\ Message.do = "send"
  <2>1. logBuffer[logBufferIndex] \in [head : 0..lines, text : 0..lines] /\ lines \in Nat
    BY DEF ConsoleInv, ConsoleTypeOK, TodoInv
  <2>2. logBuffer[logBufferIndex] \in [head : Nat, text : Nat]
    BY <2>1
  <2>. QED BY <2>2 DEF StepType, Message
<1>6. PICK p : p = <<Message>> \o r
  OBVIOUS
<1>7. /\ p \in Seq(StepType) /\ Leads(p) /\ p # <<>> /\ p[1] = Message
      /\ StepsOf(p) = {Message} \cup StepsOf(r)
      /\ \A K : HowMany(p, K) = HowMany(r, K) + (IF Message.do \in K THEN 1 ELSE 0)
  <2>1. "send" \in DOMAIN Next1 /\ Next1["send"] = "advance"
    BY DEF Next1
  <2>2. PICK x \in StepType : x = Message /\ x.do = "send"
    BY <1>5
  <2>3. /\ <<x>> \o r \in Seq(StepType) /\ Leads(<<x>> \o r) /\ <<x>> \o r # <<>> /\ (<<x>> \o r)[1] = x
        /\ StepsOf(<<x>> \o r) = {x} \cup StepsOf(r)
        /\ \A K : HowMany(<<x>> \o r, K) = HowMany(r, K) + (IF x.do \in K THEN 1 ELSE 0)
    BY <1>4, <2>1, <2>2, OneBefore
  <2>. QED BY <1>6, <2>2, <2>3
<1>8. todo' = [todo EXCEPT ![t] = p]
  BY <1>1, <1>3, <1>6 DEF Format, Then, Message
<1>9. \A K : /\ HowMany(r, K) \in Nat
             /\ HowMany(q, K) = HowMany(r, K) + (IF q[1].do \in K THEN 1 ELSE 0)
  BY <1>2, <1>3, KindsTail
<1>10. PICK c, h, e \in Nat : c = HowMany(r, {"count"}) /\ h = HowMany(r, {"head"})
                              /\ e = HowMany(r, {"send"})
  BY <1>9
<1>11. /\ HowMany(q, {"count"}) = c /\ HowMany(q, {"head"}) = h /\ HowMany(q, {"send"}) = e
  BY <1>2, <1>9, <1>10
<1>12. HowMany(p, {"count"}) = c /\ HowMany(p, {"head"}) = h /\ HowMany(p, {"send"}) = e + 1
  BY <1>5, <1>7, <1>10
<1>13. Mid(q) = 1 /\ Mid(p) = 0
  BY <1>2, <1>5, <1>7 DEF Mid, Within
<1>14. Balanced(p)
  BY <1>2, <1>10, <1>11, <1>12, <1>13 DEF Balanced
<1>15. /\ CallInv' /\ OnlyOf(t) /\ todo'[t] = p
       /\ \A u \in ConsoleTasks \ {t} : Begun(u)' = Begun(u)
  BY <1>7, <1>8, <1>14, CallTurn DEF ConsoleInv, HealInv
<1>16. Begun(t)' = Begun(t)
  <2>1. /\ Begun(t) = HowMany(q, {"count"}) - HowMany(q, {"head"})
        /\ Begun(t)' = HowMany(p, {"count"}) - HowMany(p, {"head"})
    BY <1>1, <1>15 DEF Begun, LeftOf, HowMany, KindsOf
  <2>. QED BY <1>11, <1>12, <2>1
<1>17. About(t, "send")'
  BY <1>5, <1>7, <1>15 DEF About, Step
<1>18. StepsOf(todo[t])' = {Message} \cup StepsOf(r) /\ StepsOf(todo[t]) = {Step(t)} \cup StepsOf(r)
  <2>1. StepsOf(todo[t])' = StepsOf(p)
    BY <1>15 DEF StepsOf
  <2>. QED BY <1>1, <1>2, <1>4, <1>7, <2>1
<1>. QED BY <1>15, <1>16, <1>17, <1>18

LEMMA FormatHeals ==
    ASSUME ConsoleInv, HealInv, NEW t \in ConsoleTasks, Format(t)
    PROVE  HealInv' /\ Inside' = Inside
<1>1. /\ About(t, "format") /\ UNCHANGED past /\ lines' = lines /\ logBuffer' = logBuffer
      /\ logBufferIndex' = logBufferIndex /\ logBufferCount' = logBufferCount
  BY DEF Format, ring
<1>2. "format" \in Within \cup {"send"} /\ ~Counting(t)
  BY <1>1 DEF Within, About, Counting
<1>3. ASSUME ~overlap
      PROVE  /\ \A u \in ConsoleTasks \ {t} : Idle(u)
             /\ Begun(t) # 0
             /\ \A x \in StepsOf(todo[t]) : x.do # "send"
             /\ logBuffer[logBufferIndex] = AsOne(lines)
  <2>1. logBuffer[logBufferIndex] = AsOne(lines)
    BY <1>1, <1>3 DEF HealInv, RingInv, InSlot
  <2>. QED BY <1>1, <1>2, <1>3, <2>1, SoleIs DEF ConsoleInv, HealInv, Within
<1>4. /\ CallInv' /\ OnlyOf(t) /\ \A u \in ConsoleTasks : Begun(u)' = Begun(u)
      /\ ~Counting(t)' /\ ~About(t, "text")' /\ ~About(t, "format")'
      /\ ~overlap => InSlot(t)'
  <2>1. CASE Listened
    <3>1. /\ CallInv' /\ OnlyOf(t) /\ \A u \in ConsoleTasks : Begun(u)' = Begun(u)
          /\ About(t, "send")'
          /\ StepsOf(todo[t])' \subseteq {Message} \cup StepsOf(todo[t])
      BY <2>1, SendPut
    <3>2. /\ ~Counting(t)' /\ ~About(t, "text")' /\ ~About(t, "format")'
          /\ ~About(t, "advance")'
      BY <3>1 DEF About, Counting
    <3>3. ASSUME ~overlap PROVE InSlot(t)'
      <4>1. \A x \in StepsOf(todo[t])' : x.do = "send" => x.entry = AsOne(lines)
        BY <1>3, <3>1, <3>3 DEF Message
      <4>2. logBuffer'[logBufferIndex'] = AsOne(lines')
        BY <1>1, <1>3, <3>3
      <4>. QED BY <1>1, <3>2, <4>1, <4>2 DEF InSlot, AsOne
    <3>. QED BY <3>1, <3>2, <3>3
  <2>2. CASE ~Listened
    <3>1. Done(t) /\ Load(t, logBufferIndex)
      BY <2>2 DEF Format
    <3>2. "format" \in DOMAIN Next1 /\ Next1["format"] = "advance"
      BY DEF Next1
    <3>3. /\ CallInv' /\ OnlyOf(t) /\ StepsOf(todo[t]) = {Step(t)} \cup StepsOf(todo[t])'
          /\ \A u \in ConsoleTasks : Begun(u)' = Begun(u)
          /\ About(t, "advance")'
      BY <1>1, <3>1, <3>2, DoneMoves
    <3>4. ~Counting(t)' /\ ~About(t, "text")' /\ ~About(t, "format")'
      BY <3>3 DEF About, Counting
    <3>5. ASSUME ~overlap PROVE InSlot(t)'
      <4>1. \A x \in StepsOf(todo[t])' : x.do # "send"
        BY <1>3, <3>3, <3>5
      <4>2. logBuffer'[logBufferIndex'] = AsOne(lines')
        BY <1>1, <1>3, <3>5
      <4>3. local'[t] = logBufferIndex'
        BY <1>1, <3>1 DEF Load, ConsoleInv, LocalInv
      <4>. QED BY <3>4, <4>1, <4>2, <4>3 DEF InSlot, AsOne
    <3>. QED BY <3>3, <3>4, <3>5
  <2>. QED BY <2>1, <2>2
<1>5. ASSUME ~overlap PROVE Behind(t)'
  BY <1>1, <1>2, <1>3, <1>4, <1>5, BehindKept DEF past
<1>6. GrowthInv'
  <2>. SUFFICES ASSUME unbroken PROVE GrowthInv'
    BY <1>1 DEF GrowthInv, past
  <2>1. ~overlap
    BY UnbrokenAlone DEF HealInv
  <2>2. \A u \in ConsoleTasks \ {t} : Idle(u)'
    BY <1>3, <1>4, <2>1, IdleKept
  <2>3. ~Moved /\ ~Moved'
    BY <1>2, <1>3, <1>4, <2>1, <2>2 DEF Moved, Counting, Idle, Within, ConsoleTasks
  <2>. QED BY <1>1, <2>3 DEF GrowthInv, HealInv, RingInv, past
<1>. QED BY <1>1, <1>2, <1>4, <1>5, <1>6, MidHeals

LEMMA SendHeals ==
    ASSUME ConsoleInv, HealInv, NEW t \in ConsoleTasks, Send(t)
    PROVE  HealInv' /\ Inside' = Inside
<1>1. /\ About(t, "send") /\ UNCHANGED past /\ lines' = lines /\ logBuffer' = logBuffer
      /\ logBufferIndex' = logBufferIndex /\ logBufferCount' = logBufferCount
      /\ Done(t) /\ Load(t, logBufferIndex)
  BY DEF Send, ring
<1>2. "send" \in Within \cup {"send"} /\ ~Counting(t)
  BY <1>1 DEF Within, About, Counting
<1>3. "send" \in DOMAIN Next1 /\ Next1["send"] = "advance"
  BY DEF Next1
<1>4. /\ CallInv' /\ OnlyOf(t) /\ StepsOf(todo[t]) = {Step(t)} \cup StepsOf(todo[t])'
      /\ \A u \in ConsoleTasks : Begun(u)' = Begun(u)
      /\ About(t, "advance")'
      /\ ~overlap => /\ \A u \in ConsoleTasks \ {t} : Idle(u) /\ Idle(u)'
                     /\ Begun(t) # 0
  BY <1>1, <1>3, DoneMoves
<1>5. ~Counting(t)' /\ ~About(t, "text")' /\ ~About(t, "format")'
  BY <1>4 DEF About, Counting
<1>6. ASSUME ~overlap PROVE InSlot(t)'
  <2>0. Step(t) \in StepsOf(todo[t]) /\ Step(t).do = "send"
    BY <1>1, <1>4 DEF About
  <2>1. /\ logBuffer[logBufferIndex] = AsOne(lines)
        /\ \A x \in StepsOf(todo[t]) : x.do = "send" => x.entry = AsOne(lines)
    BY <1>6, <2>0 DEF HealInv, RingInv, InSlot
  <2>2. local'[t] = logBufferIndex'
    BY <1>1 DEF Load, ConsoleInv, LocalInv
  <2>3. \A x \in StepsOf(todo[t])' : x.do = "send" => x.entry = AsOne(lines)
    BY <1>4, <2>1
  <2>. QED BY <1>1, <1>5, <2>1, <2>2, <2>3 DEF InSlot, AsOne
<1>7. ASSUME ~overlap PROVE Behind(t)'
  BY <1>1, <1>2, <1>4, <1>5, <1>7, BehindKept DEF past
<1>8. GrowthInv'
  <2>. SUFFICES ASSUME unbroken PROVE GrowthInv'
    BY <1>1 DEF GrowthInv, past
  <2>1. ~overlap
    BY UnbrokenAlone DEF HealInv
  <2>3. ~Moved /\ ~Moved'
    BY <1>2, <1>4, <1>5, <2>1 DEF Moved, Counting, Idle, Within, ConsoleTasks
  <2>. QED BY <1>1, <2>3 DEF GrowthInv, HealInv, RingInv, past
<1>. QED BY <1>1, <1>2, <1>4, <1>7, <1>6, <1>8, MidHeals

(* The index is moved on: what was in its slot is now right behind it.     *)
LEMMA AdvanceHeals ==
    ASSUME ConsoleInv, HealInv, NEW t \in ConsoleTasks, Advance(t)
    PROVE  HealInv' /\ Inside' = Inside
<1>1. /\ About(t, "advance") /\ UNCHANGED past /\ lines' = lines /\ logBuffer' = logBuffer
      /\ logBufferIndex' = (local[t] + 1) % LOG_BUFFER_SIZE /\ logBufferCount' = logBufferCount
      /\ Done(t) /\ Load(t, logBufferCount)
  BY DEF Advance, Advanced
<1>2. "advance" \in Within \cup {"send"} /\ ~Counting(t)
  BY <1>1 DEF Within, About, Counting
<1>3. "advance" \in DOMAIN Next1 /\ Next1["advance"] = "test"
  BY DEF Next1
<1>4. /\ CallInv' /\ OnlyOf(t) /\ StepsOf(todo[t]) = {Step(t)} \cup StepsOf(todo[t])'
      /\ \A u \in ConsoleTasks : Begun(u)' = Begun(u)
      /\ About(t, "test")'
      /\ ~overlap => /\ \A x \in StepsOf(todo[t]) : x.do # "send"
                     /\ \A u \in ConsoleTasks \ {t} : Idle(u) /\ Idle(u)'
                     /\ Begun(t) # 0
  BY <1>1, <1>3, DoneMoves
<1>5. ~About(t, "text")' /\ ~About(t, "format")' /\ ~About(t, "advance")' /\ ~About(t, "count")'
  BY <1>4 DEF About
<1>6. ASSUME ~overlap PROVE InSlot(t)'
  BY <1>4, <1>5, <1>6 DEF InSlot
<1>7. ASSUME ~overlap
      PROVE  /\ local[t] = logBufferIndex /\ logBuffer[logBufferIndex] = AsOne(lines)
             /\ Placed(orderly, Least(Len(orderly), LOG_BUFFER_SIZE - 1))
  <2>1. InSlot(t) /\ Behind(t)
    BY <1>7 DEF HealInv, RingInv
  <2>. QED BY <1>1, <1>2, <1>4, <1>7, <2>1 DEF InSlot, Behind
<1>8. ASSUME ~overlap PROVE Behind(t)'
  <2>1. Len(orderly) \in Nat /\ LOG_BUFFER_SIZE \in Nat \ {0} /\ orderly' = orderly
    BY <1>1, ConsoleAssumption DEF ConsoleInv, past
  <2>2. PICK q : q = Append(orderly, lines)
    OBVIOUS
  <2>3. Len(q) = Len(orderly) + 1 /\ q[Len(q)] = lines /\ \A k \in 1..Len(orderly) : q[k] = orderly[k]
    <3>1. orderly \in Seq(1..lines) /\ lines \in Nat
      BY DEF ConsoleInv, TodoInv
    <3>. QED BY <2>2, <3>1, AppendProperties
  <2>4. ASSUME NEW d \in 1..Least(Len(orderly) + 1, LOG_BUFFER_SIZE)
        PROVE  logBuffer'[Back(d)'] = AsOne(q[Len(q) - d + 1])
    <3>1. d \in 1..LOG_BUFFER_SIZE /\ d \in 1..(Len(orderly) + 1)
      BY <2>1 DEF Least
    <3>2. (d = 1 => Back(d)' = logBufferIndex) /\ (d # 1 => Back(d)' = Back(d - 1))
      BY <1>1, <1>7, <1>8, <3>1, BackMoved DEF ConsoleInv, ConsoleTypeOK
    <3>3. CASE d = 1
      <4>1. Len(q) - d + 1 = Len(q)
        BY <2>1, <2>3, <3>3
      <4>. QED BY <1>1, <1>7, <1>8, <2>3, <3>2, <3>3, <4>1
    <3>4. CASE d # 1
      <4>1. /\ d - 1 \in 1..Least(Len(orderly), LOG_BUFFER_SIZE - 1)
            /\ Len(q) - d + 1 = Len(orderly) - (d - 1) + 1
            /\ Len(q) - d + 1 \in 1..Len(orderly)
        BY <2>1, <2>3, <3>1, <3>4 DEF Least
      <4>2. logBuffer[Back(d - 1)] = AsOne(orderly[Len(orderly) - (d - 1) + 1])
        BY <1>7, <1>8, <4>1 DEF Placed
      <4>. QED BY <1>1, <2>3, <3>2, <3>4, <4>1, <4>2
    <3>. QED BY <3>3, <3>4
  <2>5. Placed(Append(orderly, lines), Least(Len(orderly) + 1, LOG_BUFFER_SIZE))'
    BY <1>1, <2>1, <2>2, <2>4 DEF Placed, Least, AsOne
  <2>6. local'[t] = logBufferCount'
    BY <1>1 DEF Load, ConsoleInv, LocalInv
  <2>. QED BY <1>4, <1>5, <2>5, <2>6 DEF Behind, Counting
<1>9. GrowthInv'
  <2>. SUFFICES ASSUME unbroken PROVE GrowthInv'
    BY <1>1 DEF GrowthInv, past
  <2>1. ~overlap
    BY UnbrokenAlone DEF HealInv
  <2>2. ~Moved
    BY <1>2, <1>4, <2>1 DEF Moved, Counting, Idle, Within
  <2>3. Moved'
    BY <1>4 DEF Moved, Counting, ConsoleTasks
  <2>4. logBufferCount < LOG_BUFFER_SIZE => local[t] = logBufferCount
    BY <1>7, <2>1, <2>2 DEF GrowthInv, HealInv, RingInv
  <2>. QED BY <1>1, <2>3, <2>4 DEF GrowthInv, HealInv, RingInv, past
<1>. QED BY <1>1, <1>2, <1>4, <1>6, <1>8, <1>9, MidHeals

(* The count is loaded again.  If no other callback is under way, it is    *)
(* what it was when it was tested.                                         *)
LEMMA TestHeals ==
    ASSUME ConsoleInv, HealInv, NEW t \in ConsoleTasks, TestCount(t)
    PROVE  HealInv' /\ Inside' = Inside
<1>1. /\ About(t, "test") /\ UNCHANGED past /\ lines' = lines /\ logBuffer' = logBuffer
      /\ logBufferIndex' = logBufferIndex /\ logBufferCount' = logBufferCount
      /\ Done(t) /\ Load(t, IF BelowLimit(local[t]) THEN logBufferCount ELSE AtLimit)
  BY DEF TestCount, ring
<1>2. "test" \in Within \cup {"send"} /\ Counting(t)
  BY <1>1 DEF Within, Counting
<1>3. "test" \in DOMAIN Next1 /\ Next1["test"] = "count"
  BY DEF Next1
<1>4. /\ CallInv' /\ OnlyOf(t) /\ StepsOf(todo[t]) = {Step(t)} \cup StepsOf(todo[t])'
      /\ \A u \in ConsoleTasks : Begun(u)' = Begun(u)
      /\ About(t, "count")'
      /\ ~overlap => /\ \A x \in StepsOf(todo[t]) : x.do # "send"
                     /\ \A u \in ConsoleTasks \ {t} : Idle(u) /\ Idle(u)'
                     /\ Begun(t) # 0
  BY <1>1, <1>3, DoneMoves
<1>5. /\ ~About(t, "text")' /\ ~About(t, "format")' /\ ~About(t, "advance")' /\ ~About(t, "test")'
      /\ Counting(t)'
  BY <1>4 DEF About, Counting
<1>6. ASSUME ~overlap PROVE InSlot(t)'
  BY <1>4, <1>5, <1>6 DEF InSlot
<1>7. ASSUME ~overlap PROVE Behind(t)'
  <2>1. /\ local[t] = logBufferCount
        /\ Placed(Append(orderly, lines), Least(Len(orderly) + 1, LOG_BUFFER_SIZE))
    BY <1>1, <1>2, <1>7 DEF HealInv, RingInv, Behind
  <2>2. Placed(Append(orderly, lines), Least(Len(orderly) + 1, LOG_BUFFER_SIZE))'
    BY <1>1, <2>1 DEF Placed, Back, Least, AsOne, past
  <2>3. local'[t] = IF BelowLimit(logBufferCount') THEN logBufferCount' ELSE AtLimit
    BY <1>1, <2>1 DEF Load, ConsoleInv, LocalInv
  <2>. QED BY <1>5, <2>2, <2>3 DEF Behind, BelowLimit, AtLimit
<1>8. GrowthInv'
  <2>. SUFFICES ASSUME unbroken PROVE GrowthInv'
    BY <1>1 DEF GrowthInv, past
  <2>1. Moved /\ Moved'
    BY <1>2, <1>5 DEF Moved, ConsoleTasks
  <2>. QED BY <1>1, <2>1 DEF GrowthInv, HealInv, RingInv, past
<1>. QED BY <1>1, <1>2, <1>4, <1>6, <1>7, <1>8, MidHeals

LEMMA LastOfIs ==
    ASSUME NEW S, NEW s \in Seq(S), NEW n \in Nat
    PROVE  /\ LastOf(s, n) \in Seq(S) /\ Len(LastOf(s, n)) = Least(Len(s), n)
           /\ \A d \in 1..Least(Len(s), n) :
                 LastOf(s, n)[Least(Len(s), n) - d + 1] = s[Len(s) - d + 1]
<1>1. PICK m, l \in Nat : m = Len(s) /\ l = Least(m, n) /\ l <= m
  BY DEF Least
<1>2. PICK p : p = SubSeq(s, m - l + 1, m)
  OBVIOUS
<1>3. LastOf(s, n) = p
  <2>1. ~(n < 0)
    OBVIOUS
  <2>2. LastOf(s, n) = SubSeq(s, Len(s) - Least(Len(s), n) + 1, Len(s))
    BY <2>1, Zenon DEF LastOf
  <2>. QED BY <1>1, <1>2, <2>2, Zenon
<1>4. LastOf(s, n) \in Seq(S)
  BY LastOfType
<1>5. \A i \in (m - l + 1)..m : s[i] \in S
  BY <1>1
<1>6. /\ Len(p) = l
      /\ \A i \in 1..l : p[i] = s[(m - l + 1) + i - 1]
  <2>1. PICK a \in Int : a = m - l + 1
    BY <1>1
  <2>2. p = SubSeq(s, a, m) /\ m \in Int
    BY <1>1, <1>2, <2>1
  <2>3. \A i \in a..m : s[i] \in S
    BY <1>5, <2>1
  <2>4. /\ Len(p) = IF a <= m THEN m - a + 1 ELSE 0
        /\ \A i \in 1..(m - a + 1) : p[i] = s[a + i - 1]
    BY <2>1, <2>2, <2>3, SubSeqProperties
  <2>. QED BY <1>1, <2>1, <2>4
<1>7. ASSUME NEW d \in 1..l PROVE p[l - d + 1] = s[m - d + 1]
  <2>1. l - d + 1 \in 1..l /\ (m - l + 1) + (l - d + 1) - 1 = m - d + 1
    BY <1>1
  <2>. QED BY <1>6, <2>1
<1>. QED BY <1>1, <1>3, <1>4, <1>6, <1>7

LEMMA CountHeals ==
    ASSUME ConsoleInv, HealInv, NEW t \in ConsoleTasks, Count(t)
    PROVE  HealInv' /\ (~overlap' => Inside' = {} /\ \A u \in ConsoleTasks : Idle(u)')
<1>1. /\ todo[t] # <<>> /\ Step(t).do = "count" /\ About(t, "count") /\ Done(t)
      /\ UNCHANGED <<lines, logBuffer, logBufferIndex, unbroken>>
      /\ logBufferCount' = (IF local[t] = AtLimit THEN logBufferCount ELSE local[t] + 1)
      /\ overlap' = (overlap /\ (Inside # {t} \/ Begun(t) > 1))
      /\ orderly' = IF overlap THEN <<>> ELSE LastOf(Append(orderly, lines), LOG_BUFFER_SIZE)
  BY DEF Count, About
<1>2. ConsoleInv' /\ Poised(t)'
  <2>1. lines' = lines /\ "count" \in Ends
    BY <1>1 DEF Ends
  <2>. QED BY <1>1, <2>1, CountKeeps, DonePoised DEF ConsoleInv
<1>3. /\ CallInv' /\ OnlyOf(t)
      /\ \A u \in ConsoleTasks \ {t} : Begun(u)' = Begun(u)
      /\ Begun(t)' = Begun(t) - 1
  <2>1. /\ CallInv' /\ OnlyOf(t)
        /\ \A u \in ConsoleTasks \ {t} : Begun(u)' = Begun(u)
        /\ Begun(t)' = Begun(t) + 0 - 1
    <3>1. Step(t).do \in Calling
      BY <1>1 DEF Calling
    <3>. QED BY <1>1, <1>2, <3>1, CallMoves DEF ConsoleInv, HealInv
  <2>2. Begun(t) \in Nat
    BY BegunIs DEF ConsoleInv, HealInv
  <2>. QED BY <2>1, <2>2
<1>4. Begun(t) \in Nat /\ Begun(t) # 0
  <2>1. /\ Begun(t) = HowMany(todo[t], {"send"}) + Mid(todo[t]) /\ Begun(t) \in Nat
        /\ Mid(todo[t]) = 1
    <3>1. "count" \in Within
      BY DEF Within
    <3>. QED BY <1>1, <3>1, BegunIs DEF ConsoleInv, HealInv
  <2>2. HowMany(todo[t], {"send"}) \in Nat
    BY KindsFinite DEF ConsoleInv, TodoInv
  <2>. QED BY <2>1, <2>2
<1>5. ASSUME ~overlap' PROVE Inside = {t} /\ Begun(t) = 1
  <2>1. CASE overlap
    <3>1. Inside = {t} /\ ~(Begun(t) > 1)
      BY <1>1, <1>5, <2>1, Zenon
    <3>. QED BY <1>4, <3>1
  <2>2. CASE ~overlap
    <3>1. "count" \in Within
      BY DEF Within
    <3>. QED BY <1>1, <2>2, <3>1, SoleIs DEF ConsoleInv, HealInv
  <2>. QED BY <2>1, <2>2
<1>6. ASSUME ~overlap' PROVE Inside' = {} /\ \A u \in ConsoleTasks : Idle(u)'
  <2>1. Inside = {t} /\ Begun(t)' = 0
    BY <1>3, <1>5, <1>6
  <2>2. \A u \in ConsoleTasks \ {t} : Idle(u)
    BY <2>1, IdleIs DEF ConsoleInv, HealInv
  <2>3. \A u \in ConsoleTasks \ {t} : Idle(u)'
    BY <1>3, <2>2, IdleKept
  <2>4. \A what \in Within : ~About(t, what)'
    BY <1>2 DEF Poised, About, Step, Loose, Within
  <2>5. \A x \in StepsOf(todo[t])' : x.do # "send"
    <3>1. Begun(t)' = HowMany(todo'[t], {"send"}) + Mid(todo'[t])
      BY <1>2, <1>3, BegunNow DEF ConsoleInv
    <3>2. PICK p \in Seq(StepType) : p = todo'[t]
      BY <1>2 DEF ConsoleInv, TodoInv, ConsoleTasks
    <3>3. HowMany(p, {"send"}) \in Nat /\ Mid(p) \in {0, 1}
      BY KindsFinite DEF Mid
    <3>4. HowMany(p, {"send"}) = 0
      BY <2>1, <3>1, <3>2, <3>3
    <3>. QED BY <3>2, <3>4, NoKinds DEF StepsOf
  <2>6. Idle(t)'
    BY <2>1, <2>4, <2>5 DEF Idle
  <2>7. Inside' = {}
    BY <2>3, <2>6 DEF Inside, Idle, ConsoleTasks
  <2>. QED BY <2>3, <2>6, <2>7
<1>7. AloneInv'
  <2>1. overlap' => overlap
    BY <1>1
  <2>2. overlap' => orderly' = <<>> /\ ~unbroken'
    BY <1>1, <2>1 DEF HealInv, AloneInv
  <2>3. ~overlap' => \A u, v \in Inside' : u = v /\ Begun(u)' = 1
    BY <1>6
  <2>. QED BY <2>2, <2>3 DEF AloneInv
<1>8. CASE overlap
  <2>1. orderly' = <<>> /\ ~unbroken' /\ Len(orderly') = 0 /\ Len(orderly') <= LOG_BUFFER_SIZE
    BY <1>1, <1>8, ConsoleAssumption DEF HealInv, AloneInv
  <2>2. logBufferCount' \in Nat
    BY <1>2, ConsoleAssumption DEF ConsoleInv, ConsoleTypeOK
  <2>3. ASSUME ~overlap' PROVE /\ \A u \in ConsoleTasks : InSlot(u)' /\ Behind(u)'
                               /\ Placed(orderly, Len(orderly))'
    <3>1. \A u \in ConsoleTasks : Idle(u)'
      BY <1>6, <2>3
    <3>2. Placed(orderly, Len(orderly))'
      BY <2>1 DEF Placed
    <3>. QED BY <3>1, <3>2 DEF Idle, InSlot, Behind, Counting, Within
  <2>4. RingInv'
    BY <2>1, <2>2, <2>3 DEF RingInv, GrowthInv, ConsoleTasks
  <2>. QED BY <1>3, <1>6, <1>7, <2>4 DEF HealInv
<1>9. CASE ~overlap
  <2>1. /\ Behind(t) /\ GrowthInv /\ Len(orderly) <= logBufferCount
        /\ Len(orderly) <= LOG_BUFFER_SIZE
    BY <1>9 DEF HealInv, RingInv
  <2>2. /\ local[t] = IF BelowLimit(logBufferCount) THEN logBufferCount ELSE AtLimit
        /\ Placed(Append(orderly, lines), Least(Len(orderly) + 1, LOG_BUFFER_SIZE))
    BY <1>1, <2>1 DEF Behind, Counting
  <2>3. /\ Len(orderly) \in Nat /\ LOG_BUFFER_SIZE \in Nat \ {0}
        /\ logBufferCount \in Nat /\ logBufferIndex \in 0..(LOG_BUFFER_SIZE - 1)
    BY ConsoleAssumption DEF ConsoleInv, ConsoleTypeOK
  <2>4. PICK q \in Seq(1..lines) : q = Append(orderly, lines) /\ Len(q) = Len(orderly) + 1
    <3>1. orderly \in Seq(1..lines) /\ lines \in 1..lines
      BY <1>1 DEF ConsoleInv, TodoInv, LocalInv, Loaded
    <3>. QED BY <3>1, AppendProperties
  <2>5. PICK n \in Nat : n = Least(Len(q), LOG_BUFFER_SIZE)
    BY <2>3, <2>4 DEF Least
  <2>6. /\ orderly' = LastOf(q, LOG_BUFFER_SIZE) /\ Len(orderly') = n
        /\ \A d \in 1..n : orderly'[n - d + 1] = q[Len(q) - d + 1]
    BY <1>1, <1>9, <2>3, <2>4, <2>5, LastOfIs
  <2>7. logBufferCount' = IF logBufferCount < LOG_BUFFER_SIZE THEN logBufferCount + 1
                                                             ELSE logBufferCount
    BY <1>1, <2>2, <2>3 DEF BelowLimit, AtLimit
  <2>8. Len(orderly') <= logBufferCount' /\ Len(orderly') <= LOG_BUFFER_SIZE
    BY <2>1, <2>3, <2>4, <2>5, <2>6, <2>7 DEF Least
  <2>9. ~overlap' /\ Inside' = {} /\ \A u \in ConsoleTasks : Idle(u)'
    BY <1>1, <1>6, <1>9
  <2>10. Placed(orderly, Len(orderly))'
    <3>1. ASSUME NEW d \in 1..n PROVE logBuffer[Back(d)] = AsOne(q[Len(q) - d + 1])
      BY <2>2, <2>4, <2>5 DEF Placed
    <3>2. \A d \in 1..n : logBuffer'[Back(d)'] = AsOne(orderly'[Len(orderly') - d + 1])
      BY <1>1, <2>6, <3>1 DEF Back
    <3>. QED BY <2>6, <3>2 DEF Placed, AsOne
  <2>11. \A u \in ConsoleTasks : InSlot(u)' /\ Behind(u)'
    BY <2>9 DEF Idle, InSlot, Behind, Counting, Within
  <2>12. GrowthInv'
    <3>. SUFFICES ASSUME unbroken PROVE GrowthInv'
      BY <1>1 DEF GrowthInv
    <3>1. Moved /\ ~Moved'
      BY <1>1, <2>9 DEF Moved, Counting, Idle, Within, ConsoleTasks
    <3>2. /\ logBufferCount = Len(orderly)
          /\ logBufferCount < LOG_BUFFER_SIZE =>
                logBufferIndex = (logBufferCount + 1) % LOG_BUFFER_SIZE
      BY <2>1, <3>1 DEF GrowthInv
    <3>3. logBufferCount' = Len(orderly')
      BY <2>1, <2>3, <2>4, <2>5, <2>6, <2>7, <3>2 DEF Least
    <3>4. logBufferCount' < LOG_BUFFER_SIZE => logBufferIndex' = logBufferCount'
      <4>. SUFFICES ASSUME logBufferCount' < LOG_BUFFER_SIZE PROVE logBufferIndex' = logBufferCount'
        OBVIOUS
      <4>1. logBufferCount \in 0..(LOG_BUFFER_SIZE - 1) /\ logBufferCount + 1 # LOG_BUFFER_SIZE
            /\ logBufferCount' = logBufferCount + 1
        BY <2>3, <2>7
      <4>2. logBufferIndex = logBufferCount + 1
        BY <2>3, <3>2, <4>1, NextIs
      <4>. QED BY <1>1, <4>1, <4>2
    <3>. QED BY <3>1, <3>3, <3>4 DEF GrowthInv
  <2>13. RingInv'
    BY <2>8, <2>9, <2>10, <2>11, <2>12 DEF RingInv, ConsoleTasks
  <2>. QED BY <1>3, <1>6, <1>7, <2>13 DEF HealInv
<1>. QED BY <1>8, <1>9

-----------------------------------------------------------------------------
(* Steps outside of the callback leave all of this as it is.               *)
LocalOf(t) == UNCHANGED local \/ \E v : Load(t, v)
OuterStep(t) ==
    /\ OuterTodo(t) /\ UNCHANGED <<lines, ring, past>>
    /\ \A u \in ConsoleTasks \ {t} : local'[u] = local[u]

LEMMA CalmPlain == ASSUME NEW q \in Seq(StepType), Calm(q) PROVE Plain(q)
<1>1. Silent(q)
  BY DEF Calm, Silent, Loose, Within
<1>. QED BY <1>1, SilentPlain

LEMMA NonePlain == ASSUME NEW q, q = <<>> PROVE Plain(q)
<1>1. q \in Seq(StepType) /\ \A k \in 1..Len(q) : FALSE
  OBVIOUS
<1>. QED BY <1>1, SilentPlain DEF Silent

LEMMA OnePlain ==
    ASSUME NEW x \in StepType, x.do \notin Within \cup {"head", "send"} PROVE Plain(<<x>>)
<1>1. <<x>> \in Seq(StepType) /\ Len(<<x>>) = 1 /\ <<x>>[1] = x
  OBVIOUS
<1>2. \A k \in 1..1 : k = 1
  OBVIOUS
<1>3. Silent(<<x>>)
  BY <1>1, <1>2 DEF Silent
<1>. QED BY <1>1, <1>3, SilentPlain

LEMMA TwoPlain ==
    ASSUME NEW x \in StepType, x.do \notin Within \cup {"head", "send"},
           NEW y \in StepType, y.do \notin Within \cup {"head", "send"}
    PROVE  Plain(<<x, y>>)
<1>1. <<x, y>> \in Seq(StepType) /\ Len(<<x, y>>) = 2 /\ <<x, y>>[1] = x /\ <<x, y>>[2] = y
  OBVIOUS
<1>2. \A k \in 1..2 : k = 1 \/ k = 2
  OBVIOUS
<1>3. Silent(<<x, y>>)
  BY <1>1, <1>2 DEF Silent
<1>. QED BY <1>1, <1>3, SilentPlain

LEMMA DisconnectedPlain ==
    ASSUME NEW s \in Sockets, NEW steps \in DISCONNECTED(s) PROVE Plain(steps)
<1>1. PICK line \in Line : steps = line \o <<On("remove", s)>>
  BY DEF DISCONNECTED
<1>2. PICK x \in StepType : x = On("remove", s) /\ x.do = "remove"
  BY StepKinds
<1>3. Plain(<<x>>) /\ Plain(line)
  BY <1>2, OnePlain, LinePlain DEF Within
<1>. QED BY <1>1, <1>2, <1>3, PlainCat

LEMMA OthersKeep ==
    ASSUME ConsoleInv, NEW t \in ConsoleTasks, LocalOf(t)
    PROVE  \A u \in ConsoleTasks \ {t} : local'[u] = local[u]
BY DEF ConsoleInv, LocalInv, LocalOf, Load

(* In place of a step, nothing more or steps that are no callback's.       *)
LEMMA OuterThen ==
    ASSUME ConsoleInv, HealInv, NEW t \in ConsoleTasks, LocalOf(t), NEW steps, Plain(steps),
           todo[t] # <<>>, Step(t).do \notin Calling, Then(t, steps), UNCHANGED <<lines, ring, past>>
    PROVE  OuterStep(t)
BY OuterPut, OthersKeep DEF ConsoleInv, HealInv, OuterStep

LEMMA OuterDone ==
    ASSUME ConsoleInv, HealInv, NEW t \in ConsoleTasks, LocalOf(t),
           todo[t] # <<>>, Step(t).do \notin Calling, Done(t), UNCHANGED <<lines, ring, past>>
    PROVE  OuterStep(t)
<1>1. PICK steps : steps = <<>>
  OBVIOUS
<1>2. Plain(steps) /\ Then(t, steps)
  BY <1>1, NonePlain DEF Done
<1>. QED BY <1>2, OuterThen

(* In front of a broadcast or a replay, or on a task that rests.           *)
LEMMA OuterFront ==
    ASSUME ConsoleInv, HealInv, NEW t \in ConsoleTasks, LocalOf(t), NEW steps, Plain(steps),
           todo[t] # <<>> => Step(t).do \in {"send", "resend"},
           \/ todo' = [todo EXCEPT ![t] = steps \o todo[t]]
           \/ todo[t] = <<>> /\ todo' = [todo EXCEPT ![t] = steps],
           UNCHANGED <<lines, ring, past>>
    PROVE  OuterStep(t)
<1>1. todo' = [todo EXCEPT ![t] = steps \o todo[t]]
  <2>1. CASE todo[t] = <<>> /\ todo' = [todo EXCEPT ![t] = steps]
    <3>1. steps \o todo[t] = steps
      BY <2>1, ConcatEmptySeq DEF Plain
    <3>. QED BY <2>1, <3>1
  <2>. QED BY <2>1
<1>2. OuterTodo(t)
  BY <1>1, OuterPut DEF ConsoleInv, HealInv
<1>. QED BY <1>2, OthersKeep DEF OuterStep

LEMMA OuterAdd ==
    ASSUME ConsoleInv, HealInv, NEW t \in ConsoleTasks, addWebSocketClient(t)
    PROVE  OuterStep(t)
<1>1. /\ todo[t] # <<>> /\ Step(t).do \notin Calling /\ UNCHANGED <<lines, ring, past>>
      /\ LocalOf(t)
  BY DEF addWebSocketClient, About, Calling, LocalOf
<1>2. CASE Done(t)
  BY <1>1, <1>2, OuterDone
<1>3. CASE Then(t, <<Do("up")>>)
  <2>1. PICK x \in StepType : x = Do("up") /\ x.do = "up"
    BY StepKinds
  <2>2. Plain(<<x>>)
    BY <2>1, OnePlain DEF Within
  <2>. QED BY <1>1, <1>3, <2>1, <2>2, OuterThen
<1>. QED BY <1>2, <1>3 DEF addWebSocketClient

LEMMA OuterRemove ==
    ASSUME ConsoleInv, HealInv, NEW t \in ConsoleTasks, removeWebSocketClient(t)
    PROVE  OuterStep(t)
<1>1. /\ todo[t] # <<>> /\ Step(t).do \notin Calling /\ UNCHANGED <<lines, ring, past>>
      /\ LocalOf(t)
  BY DEF removeWebSocketClient, About, Calling, LocalOf
<1>2. CASE Done(t)
  BY <1>1, <1>2, OuterDone
<1>3. CASE ~Done(t)
  <2>1. Known(Subject(t)) /\ Then(t, <<AtPlace("clear", SlotOf(Subject(t))), Do("down")>>)
    BY <1>3 DEF removeWebSocketClient
  <2>2. SlotOf(Subject(t)) \in Places
    BY <2>1, SlotFound DEF Known
  <2>3. PICK x, y : x = AtPlace("clear", SlotOf(Subject(t))) /\ y = Do("down")
    OBVIOUS
  <2>4. x \in StepType /\ y \in StepType /\ x.do = "clear" /\ y.do = "down"
    BY <2>2, <2>3, StepKinds
  <2>5. Plain(<<x, y>>)
    BY <2>4, TwoPlain DEF Within
  <2>. QED BY <1>1, <2>1, <2>3, <2>5, OuterThen
<1>. QED BY <1>2, <1>3

LEMMA OuterClear ==
    ASSUME ConsoleInv, HealInv, NEW t \in ConsoleTasks, ClearSlot(t) PROVE OuterStep(t)
<1>1. /\ todo[t] # <<>> /\ Step(t).do \notin Calling /\ UNCHANGED <<lines, ring, past>>
      /\ LocalOf(t) /\ Done(t)
  BY DEF ClearSlot, About, Calling, LocalOf
<1>. QED BY <1>1, OuterDone

LEMMA OuterCountClients ==
    ASSUME ConsoleInv, HealInv, NEW t \in ConsoleTasks, CountClients(t) PROVE OuterStep(t)
<1>1. /\ todo[t] # <<>> /\ Step(t).do \notin Calling /\ UNCHANGED <<lines, ring, past>>
      /\ LocalOf(t)
  BY DEF CountClients, About, Calling, LocalOf
<1>2. PICK line \in Line : Then(t, line)
  BY DEF CountClients
<1>. QED BY <1>1, <1>2, LinePlain, OuterThen

LEMMA OuterVisit ==
    ASSUME ConsoleInv, HealInv, NEW t \in ConsoleTasks, VisitSlot(t) PROVE OuterStep(t)
<1>1. /\ todo[t] # <<>> /\ Step(t).do \notin Calling /\ UNCHANGED <<lines, ring, past>>
      /\ LocalOf(t) /\ Step(t).do = "visit"
  BY DEF VisitSlot, About, Calling, LocalOf
<1>2. CASE Done(t)
  BY <1>1, <1>2, OuterDone
<1>3. CASE ~Done(t)
  <2>. DEFINE i == Step(t).place
  <2>1. PICK line \in Line : Then(t, line \o <<AtPlace("disconnect", i), AtPlace("forget", i)>>)
    BY <1>3 DEF VisitSlot
  <2>2. i \in Places
    BY <1>1, StepIsTyped, StepParts DEF ConsoleInv
  <2>3. PICK x, y : x = AtPlace("disconnect", i) /\ y = AtPlace("forget", i)
    OBVIOUS
  <2>4. x \in StepType /\ y \in StepType /\ x.do = "disconnect" /\ y.do = "forget"
    BY <2>2, <2>3, StepKinds
  <2>5. Plain(<<x, y>>) /\ Plain(line)
    BY <2>4, TwoPlain, LinePlain DEF Within
  <2>6. Plain(line \o <<x, y>>)
    BY <2>5, PlainCat
  <2>. QED BY <1>1, <2>1, <2>3, <2>6, OuterThen
<1>. QED BY <1>2, <1>3

LEMMA OuterDisconnect ==
    ASSUME ConsoleInv, HealInv, NEW t \in ConsoleTasks, disconnect(t) PROVE OuterStep(t)
<1>1. /\ todo[t] # <<>> /\ Step(t).do \notin Calling /\ UNCHANGED <<lines, ring, past>>
      /\ LocalOf(t)
  BY DEF disconnect, About, Calling, LocalOf
<1>2. CASE Subject(t) \in open
  <2>1. PICK steps \in DISCONNECTED(Subject(t)) : Then(t, steps)
    BY <1>2 DEF disconnect
  <2>2. Subject(t) \in Sockets
    BY <1>2 DEF ConsoleInv, ConsoleTypeOK
  <2>. QED BY <1>1, <2>1, <2>2, DisconnectedPlain, OuterThen
<1>3. CASE Subject(t) \notin open
  BY <1>1, <1>3, OuterDone DEF disconnect
<1>. QED BY <1>2, <1>3

(* The steps of a replay, one for each of its entries.                     *)
Extent == Least(logBufferCount, REPLAY)
ResendOf(s, i) ==
    [do |-> "resend", socket |-> s, index |-> (FirstIndex(Extent) + i - 1) % LOG_BUFFER_SIZE]
LEMMA ResendsAre ==
    ASSUME ConsoleInv, NEW t \in ConsoleTasks, Replay(t)
    PROVE  \E q \in Seq(StepType) :
              /\ Then(t, q) /\ Calm(q) /\ Len(q) = Extent /\ Extent \in Nat
              /\ \A i \in 1..Extent : q[i] = ResendOf(Step(t).socket, i)
<1>1. Step(t).socket \in Sockets
  <2>1. todo[t] # <<>> /\ Step(t).do = "replay"
    BY DEF Replay, About
  <2>. QED BY <2>1, StepIsTyped, StepParts DEF ConsoleInv
<1>2. Extent \in Nat /\ logBufferIndex \in Int /\ LOG_BUFFER_SIZE \in Nat \ {0}
  BY ConsoleAssumption DEF ConsoleInv, ConsoleTypeOK, Least, Extent
<1>3. PICK n \in Nat : n = Extent
  BY <1>2
<1>4. PICK q : q = [i \in 1..n |-> ResendOf(Step(t).socket, i)]
  OBVIOUS
<1>5. \A i \in 1..n : /\ ResendOf(Step(t).socket, i) \in StepType
                      /\ ResendOf(Step(t).socket, i).do = "resend"
  <2>1. ASSUME NEW i \in 1..n PROVE (FirstIndex(Extent) + i - 1) % LOG_BUFFER_SIZE \in Int
    <3>1. FirstIndex(Extent) \in Int
      BY <1>2, <1>3 DEF FirstIndex
    <3>. QED BY <1>2, <3>1
  <2>. QED BY <1>1, <2>1 DEF StepType, ResendOf
<1>6. q \in Seq(StepType) /\ Len(q) = n /\ \A i \in 1..n : q[i] = ResendOf(Step(t).socket, i)
  BY <1>4, <1>5
<1>7. Calm(q)
  BY <1>5, <1>6 DEF Calm, Loose
<1>8. Then(t, q)
  BY <1>3, <1>4 DEF Replay, Extent, ResendOf
<1>. QED BY <1>3, <1>6, <1>7, <1>8

LEMMA OuterReplay ==
    ASSUME ConsoleInv, HealInv, NEW t \in ConsoleTasks, Replay(t) PROVE OuterStep(t)
<1>1. /\ todo[t] # <<>> /\ Step(t).do \notin Calling /\ UNCHANGED <<lines, ring, past>>
      /\ LocalOf(t)
  BY DEF Replay, About, Calling, LocalOf
<1>. QED BY <1>1, ResendsAre, CalmPlain, OuterThen

LEMMA OuterResend ==
    ASSUME ConsoleInv, HealInv, NEW t \in ConsoleTasks, Resend(t) PROVE OuterStep(t)
<1>1. /\ todo[t] # <<>> /\ Step(t).do \notin Calling /\ UNCHANGED <<lines, ring, past>>
      /\ LocalOf(t) /\ Done(t)
  BY DEF Resend, About, Calling, LocalOf
<1>. QED BY <1>1, OuterDone

LEMMA OuterLog ==
    ASSUME ConsoleInv, HealInv, NEW t \in ConsoleTasks, Log(t) PROVE OuterStep(t)
<1>1. PICK line \in Line : todo' = [todo EXCEPT ![t] = line]
  BY DEF Log
<1>2. todo[t] = <<>> /\ UNCHANGED <<lines, ring, past>> /\ LocalOf(t)
  BY DEF Log, LocalOf
<1>. QED BY <1>1, <1>2, LinePlain, OuterFront

LEMMA OuterNotice ==
    ASSUME ConsoleInv, HealInv, NEW t \in ConsoleTasks, NEW s \in Sockets, Notice(t, s)
    PROVE  OuterStep(t)
<1>1. PICK steps \in DISCONNECTED(s) : todo' = [todo EXCEPT ![t] = steps \o todo[t]]
  BY DEF Notice
<1>2. /\ UNCHANGED <<lines, ring, past>> /\ LocalOf(t)
      /\ todo[t] # <<>> => Step(t).do \in {"send", "resend"}
  BY DEF Notice, LocalOf, About
<1>. QED BY <1>1, <1>2, DisconnectedPlain, OuterFront

LEMMA OuterError ==
    ASSUME ConsoleInv, HealInv, NEW s \in Sockets, ErrorEvent(s) PROVE OuterStep(Web)
<1>1. PICK steps \in DISCONNECTED(s) : todo' = [todo EXCEPT ![Web] = steps]
  BY DEF ErrorEvent
<1>2. UNCHANGED <<lines, ring, past>> /\ LocalOf(Web) /\ todo[Web] = <<>> /\ Web \in ConsoleTasks
  BY DEF ErrorEvent, LocalOf, ConsoleTasks
<1>. QED BY <1>1, <1>2, DisconnectedPlain, OuterFront

LEMMA OuterAccept ==
    ASSUME ConsoleInv, HealInv, NEW s \in Sockets, NEW a \in Addresses, Accept(s, a)
    PROVE  OuterStep(Web)
<1>1. PICK line \in Line :
          todo' = [todo EXCEPT ![Web] =
                       line \o IF Refused(a) THEN <<On("disconnect", s)>> ELSE Welcome(s, a)]
  BY DEF Accept
<1>2. UNCHANGED <<lines, ring, past>> /\ LocalOf(Web) /\ todo[Web] = <<>> /\ Web \in ConsoleTasks
  BY DEF Accept, LocalOf, ConsoleTasks
<1>3. PICK others : others = IF Refused(a) THEN <<On("disconnect", s)>> ELSE Welcome(s, a)
  OBVIOUS
<1>4. Plain(others)
  <2>1. CASE Refused(a)
    <3>1. PICK x \in StepType : x = On("disconnect", s) /\ x.do = "disconnect"
      BY StepKinds
    <3>2. Plain(<<x>>)
      BY <3>1, OnePlain DEF Within
    <3>. QED BY <1>3, <2>1, <3>1, <3>2
  <2>2. CASE ~Refused(a)
    BY <1>3, <2>2, WelcomeCalm, CalmPlain
  <2>. QED BY <2>1, <2>2
<1>5. Plain(line \o others)
  BY <1>4, LinePlain, PlainCat
<1>6. todo' = [todo EXCEPT ![Web] = line \o others]
  BY <1>1, <1>3
<1>. QED BY <1>2, <1>5, <1>6, OuterFront

-----------------------------------------------------------------------------
(* The inductive invariant; and the log page after a round of the buffer.  *)
LEMMA HealInvInit == ConsoleInit => HealInv
<1>. SUFFICES ASSUME ConsoleInit PROVE HealInv
  OBVIOUS
<1>. USE DEF ConsoleInit
<1>1. \A t \in ConsoleTasks : todo[t] = <<>> /\ \A what : ~About(t, what)
  BY DEF About
<1>2. PICK q : q = <<>>
  OBVIOUS
<1>3. /\ q \in Seq(StepType) /\ Leads(q) /\ Mid(q) = 0
      /\ \A K : HowMany(q, K) = 0
  <2>1. q \in Seq(StepType) /\ \A k \in 1..Len(q) : FALSE
    BY <1>2
  <2>. QED BY <1>2, <2>1, NoKinds DEF Leads, Mid
<1>4. CallInv
  <2>1. Balanced(q)
    <3>1. HowMany(q, {"count"}) = 0 /\ HowMany(q, {"head"}) = 0 /\ HowMany(q, {"send"}) = 0
      BY <1>3
    <3>. QED BY <1>3, <3>1 DEF Balanced
  <2>. QED BY <1>1, <1>2, <1>3, <2>1 DEF CallInv
<1>5. TodoInv
  BY ConsoleInvInit DEF ConsoleInv
<1>6. \A t \in ConsoleTasks : Begun(t) = 0
  <2>1. ASSUME NEW t \in ConsoleTasks PROVE Begun(t) = 0
    <3>1. Begun(t) = HowMany(todo[t], {"send"}) + Mid(todo[t])
      BY <1>4, <1>5, BegunIs
    <3>2. HowMany(todo[t], {"send"}) = 0 /\ Mid(todo[t]) = 0
      BY <1>1, <1>2, <1>3
    <3>. QED BY <3>1, <3>2
  <2>. QED BY <2>1
<1>7. Inside = {}
  BY <1>6 DEF Inside
<1>8. \A t \in ConsoleTasks : Idle(t)
  BY <1>4, <1>5, <1>7, IdleIs
<1>9. Len(orderly) = 0 /\ logBufferCount = 0 /\ logBufferIndex = 0 /\ ~Moved
  BY <1>1 DEF Moved, Counting
<1>10. RingInv
  <2>1. Placed(orderly, Len(orderly))
    BY <1>9 DEF Placed
  <2>2. GrowthInv
    BY <1>9 DEF GrowthInv
  <2>3. Len(orderly) <= logBufferCount /\ Len(orderly) <= LOG_BUFFER_SIZE
    BY <1>9, ConsoleAssumption
  <2>. QED BY <1>8, <2>1, <2>2, <2>3, IdleFollows DEF RingInv
<1>. QED BY <1>4, <1>7, <1>10 DEF HealInv, AloneInv

LEMMA HealsSame ==
    ASSUME HealInv, UNCHANGED <<todo, local, lines, ring, past>>
    PROVE  HealInv' /\ Inside' = Inside
<1>1. /\ lines' = lines /\ logBuffer' = logBuffer /\ logBufferIndex' = logBufferIndex
      /\ logBufferCount' = logBufferCount /\ orderly' = orderly /\ overlap' = overlap
      /\ unbroken' = unbroken /\ todo' = todo /\ local' = local
  BY DEF ring, past
<1>2. /\ Inside' = Inside /\ \A t : Begun(t)' = Begun(t)
      /\ \A t : StepsOf(todo[t])' = StepsOf(todo[t])
      /\ \A t, what : About(t, what)' <=> About(t, what)
  BY <1>1 DEF Inside, Begun, LeftOf, About, Step, ConsoleTasks, StepsOf
<1>3. CallInv'
  <2>1. \A t \in ConsoleTasks : Leads(todo'[t]) /\ Balanced(todo'[t])
    BY <1>1 DEF HealInv, CallInv
  <2>. QED BY <2>1 DEF CallInv, ConsoleTasks, Leads, Balanced, HowMany, KindsOf, Mid
<1>4. AloneInv'
  BY <1>1, <1>2 DEF HealInv, AloneInv
<1>5. \A q, m : Placed(q, m)' <=> Placed(q, m)
  BY <1>1, PlacedSame
<1>6. Moved' <=> Moved
  BY <1>2 DEF Moved, Counting, ConsoleTasks
<1>7. /\ Placed(orderly, Len(orderly))' <=> Placed(orderly, Len(orderly))
      /\ Placed(orderly, Least(Len(orderly), LOG_BUFFER_SIZE - 1))' <=>
             Placed(orderly, Least(Len(orderly), LOG_BUFFER_SIZE - 1))
      /\ Placed(Append(orderly, lines), Least(Len(orderly) + 1, LOG_BUFFER_SIZE))' <=>
             Placed(Append(orderly, lines), Least(Len(orderly) + 1, LOG_BUFFER_SIZE))
  BY <1>1 DEF Placed, Back, Least
<1>8. \A t : InSlot(t) => InSlot(t)'
  BY <1>1, <1>2 DEF InSlot
<1>9. \A t : Behind(t) => Behind(t)'
  BY <1>1, <1>2, <1>7 DEF Behind, Counting, BelowLimit
<1>10. GrowthInv => GrowthInv'
  BY <1>1, <1>6 DEF GrowthInv
<1>11. RingInv'
  BY <1>1, <1>2, <1>7, <1>8, <1>9, <1>10 DEF HealInv, RingInv, ConsoleTasks
<1>. QED BY <1>2, <1>3, <1>4, <1>11 DEF HealInv

LEMMA OuterSteps ==
    ASSUME ConsoleInv, HealInv, NEW t \in ConsoleTasks,
           \/ Log(t) \/ Registering(t) \/ Connecting(t)
           \/ \E s \in Sockets : Notice(t, s)
           \/ t = Web /\ \E s \in Sockets : ErrorEvent(s) \/ \E a \in Addresses : Accept(s, a)
    PROVE  OuterStep(t)
BY OuterLog, OuterAdd, OuterRemove, OuterClear, OuterCountClients, OuterVisit, OuterDisconnect,
   OuterReplay, OuterResend, OuterNotice, OuterError, OuterAccept DEF Registering, Connecting

LEMMA HealInvStep ==
    ConsoleInv /\ HealInv /\ [ConsoleNext]_consoleVars => HealInv'
<1>. SUFFICES ASSUME ConsoleInv, HealInv, [ConsoleNext]_consoleVars PROVE HealInv'
  OBVIOUS
<1>1. ASSUME NEW t \in ConsoleTasks, OuterStep(t) PROVE HealInv'
  BY <1>1, OuterHeals DEF OuterStep
<1>2. ASSUME NEW t \in ConsoleTasks, logCallback(t) PROVE HealInv'
  BY <1>2, HeadHeals, TextHeals, FormatHeals, SendHeals, AdvanceHeals, TestHeals, CountHeals
     DEF logCallback
<1>3. ASSUME NEW s \in Sockets, Leave(s) PROVE HealInv'
  <2>1. UNCHANGED <<todo, local, lines, ring, past>>
    BY <1>3 DEF Leave
  <2>. QED BY <2>1, HealsSame
<1>4. ASSUME UNCHANGED consoleVars PROVE HealInv'
  <2>1. UNCHANGED <<todo, local, lines, ring, past>>
    BY <1>4 DEF consoleVars
  <2>. QED BY <2>1, HealsSame
<1>5. Web \in ConsoleTasks
  BY DEF ConsoleTasks
<1>. QED BY <1>1, <1>2, <1>3, <1>4, <1>5, OuterSteps DEF ConsoleNext

(* The entry that is e-th from the end of a replay or of the log page is   *)
(* the one e behind the index.                                             *)
LEMMA FirstBack ==
    ASSUME logBufferIndex \in 0..(LOG_BUFFER_SIZE - 1), NEW n \in 1..LOG_BUFFER_SIZE, NEW e \in 1..n
    PROVE  (FirstIndex(n) + (n - e + 1) - 1) % LOG_BUFFER_SIZE = Back(e)
<1>1. PICK b \in Nat \ {0} : b = LOG_BUFFER_SIZE
  BY ConsoleAssumption
<1>2. PICK p \in 0..(b - 1) : p = logBufferIndex
  BY <1>1
<1>3. FirstIndex(n) = IF n <= p THEN p - n ELSE p - n + b
  BY <1>1, <1>2, BackIs DEF FirstIndex, Back
<1>4. e \in 1..LOG_BUFFER_SIZE /\ n \in 1..b /\ e <= n
  BY <1>1
<1>5. Back(e) = IF e <= p THEN p - e ELSE p - e + b
  BY <1>1, <1>2, <1>4, BackIs
<1>6. CASE n <= p
  <2>1. PICK r \in 0..(b - 1) : r = p - e
    BY <1>2, <1>4, <1>6
  <2>2. p - n + (n - e + 1) - 1 = r
    BY <1>2, <1>4, <2>1
  <2>3. r % b = r
    BY <1>1, RemainderOf
  <2>4. e <= p
    BY <1>2, <1>4, <1>6
  <2>. QED BY <1>1, <1>3, <1>5, <1>6, <2>1, <2>2, <2>3, <2>4
<1>7. CASE ~(n <= p)
  <2>1. p - n + b + (n - e + 1) - 1 = p - e + b
    BY <1>1, <1>2, <1>4
  <2>. QED BY <1>1, <1>2, <1>3, <1>7, <2>1 DEF Back
<1>. QED BY <1>6, <1>7

(* What a replay would send and what the log page would list, if no line   *)
(* is under way and all that the ring holds was logged in turn.            *)
Healed == unbroken \/ Len(orderly) = LOG_BUFFER_SIZE
LEMMA HealedIs ==
    ASSUME ConsoleInv, HealInv, Inside = {}, Healed
    PROVE  /\ ~overlap /\ ~Moved /\ Placed(orderly, Len(orderly))
           /\ Len(orderly) \in Nat /\ Len(orderly) <= LOG_BUFFER_SIZE
           /\ Len(orderly) <= logBufferCount
           /\ unbroken => /\ logBufferCount = Len(orderly)
                          /\ logBufferCount < LOG_BUFFER_SIZE => logBufferIndex = logBufferCount
<1>1. Len(orderly) \in Nat /\ LOG_BUFFER_SIZE \in Nat \ {0}
  BY ConsoleAssumption DEF ConsoleInv
<1>2. ~overlap
  <2>. SUFFICES ASSUME overlap PROVE FALSE
    OBVIOUS
  <2>1. orderly = <<>> /\ ~unbroken
    BY DEF HealInv, AloneInv
  <2>2. Len(orderly) = 0 /\ Len(orderly) = LOG_BUFFER_SIZE
    BY <2>1 DEF Healed
  <2>. QED BY <1>1, <2>2
<1>3. ~Moved
  <2>1. \A t \in ConsoleTasks : Idle(t)
    BY IdleIs DEF ConsoleInv, HealInv
  <2>. QED BY <2>1 DEF Idle, Moved, Counting, Within
<1>. QED BY <1>1, <1>2, <1>3 DEF HealInv, RingInv, GrowthInv

LEMMA RecentIs ==
    ASSUME ConsoleInv, HealInv, Inside = {}, Healed
    PROVE  Recent = Whole(LastOf(orderly, REPLAY))
<1>1. PICK m, b, r, c \in Nat :
          /\ m = Len(orderly) /\ b = LOG_BUFFER_SIZE /\ r = REPLAY /\ c = logBufferCount
          /\ r \in 1..b /\ m <= b /\ m <= c /\ (c = m \/ m = b)
  BY ConsoleAssumption, HealedIs DEF Healed, ConsoleInv, ConsoleTypeOK
<1>2. PICK n \in Nat : n = Least(c, r) /\ n = Least(m, r) /\ n <= m /\ n <= b
  BY <1>1 DEF Least
<1>3. /\ LastOf(orderly, r) \in Seq(1..lines) /\ Len(LastOf(orderly, r)) = n
      /\ \A e \in 1..n : LastOf(orderly, r)[n - e + 1] = orderly[m - e + 1]
  <2>1. orderly \in Seq(1..lines) /\ r \in Nat /\ Least(Len(orderly), r) = n
    BY <1>1, <1>2 DEF ConsoleInv
  <2>2. /\ LastOf(orderly, r) \in Seq(1..lines)
        /\ Len(LastOf(orderly, r)) = Least(Len(orderly), r)
        /\ \A d \in 1..Least(Len(orderly), r) :
              LastOf(orderly, r)[Least(Len(orderly), r) - d + 1] = orderly[Len(orderly) - d + 1]
    BY ONLY <2>1, LastOfIs
  <2>. QED BY <1>1, <2>1, <2>2
<1>4. PICK l \in Seq(1..lines) : /\ l = LastOf(orderly, REPLAY) /\ Len(l) = n
                                 /\ \A e \in 1..n : l[n - e + 1] = orderly[m - e + 1]
  BY <1>1, <1>3
<1>5. ASSUME NEW i \in 1..n
      PROVE  logBuffer[(FirstIndex(n) + i - 1) % LOG_BUFFER_SIZE] = [head |-> l[i], text |-> l[i]]
  <2>1. PICK e \in 1..n : e = n - i + 1 /\ n - e + 1 = i
    BY <1>2
  <2>2. (FirstIndex(n) + (n - e + 1) - 1) % LOG_BUFFER_SIZE = Back(e)
    <3>1. logBufferIndex \in 0..(LOG_BUFFER_SIZE - 1) /\ n \in 1..LOG_BUFFER_SIZE
      BY <1>1, <1>2, <2>1 DEF ConsoleInv, ConsoleTypeOK
    <3>. QED BY <2>1, <3>1, FirstBack
  <2>3. logBuffer[Back(e)] = AsOne(orderly[m - e + 1])
    BY <1>1, <1>2, HealedIs DEF Placed
  <2>. QED BY <1>4, <2>1, <2>2, <2>3 DEF AsOne
<1>6. Recent = [i \in 1..n |-> logBuffer[(FirstIndex(n) + i - 1) % LOG_BUFFER_SIZE]]
  BY <1>1, <1>2 DEF Recent
<1>7. Whole(l) = [i \in 1..n |-> [head |-> l[i], text |-> l[i]]]
  BY <1>4 DEF Whole
<1>. QED BY <1>4, <1>5, <1>6, <1>7

LEMMA ListedIs ==
    ASSUME ConsoleInv, HealInv, Inside = {}, Healed, unbroken \/ logBufferCount <= LOG_BUFFER_SIZE
    PROVE  LogsAPI = Whole(orderly)
<1>1. PICK n, b, p \in Nat :
          /\ n = Len(orderly) /\ b = LOG_BUFFER_SIZE /\ p = logBufferIndex
          /\ b # 0 /\ n <= b /\ p < b /\ logBufferCount = n /\ (n < b => p = n)
  BY ConsoleAssumption, HealedIs DEF Healed, ConsoleInv, ConsoleTypeOK
<1>. DEFINE start == IF n < b THEN 0 ELSE p
<1>2. ASSUME NEW i \in 1..n PROVE logBuffer[(start + i - 1) % b] = AsOne(orderly[i])
  <2>0. n - i + 1 \in 1..n /\ n - (n - i + 1) + 1 = i
    BY <1>1
  <2>1. PICK d \in 1..n : d = n - i + 1 /\ n - d + 1 = i
    BY ONLY <2>0
  <2>2. logBuffer[Back(d)] = AsOne(orderly[i])
    BY <1>1, <2>1, HealedIs DEF Placed
  <2>3. CASE n < b
    <3>1. p = n /\ start = 0
      BY <1>1, <2>3
    <3>2. PICK r \in 0..(b - 1) : r = i - 1
      BY <1>1, <2>3
    <3>3. r % b = r /\ (r + b) % b = r
      BY <1>1, RemainderOf
    <3>4. 0 + i - 1 = r /\ p - d + b = r + b
      BY <1>1, <2>1, <2>3, <3>1, <3>2
    <3>5. Back(d) = r
      BY <1>1, <3>3, <3>4 DEF Back
    <3>. QED BY <2>2, <3>1, <3>3, <3>4, <3>5
  <2>4. CASE ~(n < b)
    <3>1. start = p
      BY <2>4
    <3>2. p + i - 1 = p - d + b
      BY <1>1, <2>1, <2>4
    <3>. QED BY <1>1, <2>2, <3>1, <3>2 DEF Back
  <2>. QED BY <2>3, <2>4
<1>3. \A i \in 1..n : start + 0 + i - 1 = start + i - 1
  BY <1>1
<1>4. Least(n, b) = n /\ n - n = 0
  BY <1>1 DEF Least
<1>. HIDE DEF start
<1>5. LogsAPI = [i \in 1..n |-> logBuffer[(start + 0 + i - 1) % b]]
  BY <1>1, <1>4 DEF LogsAPI, start
<1>6. LogsAPI = [i \in 1..n |-> AsOne(orderly[i])]
  BY <1>2, <1>3, <1>5
<1>7. DOMAIN orderly = 1..n
  BY <1>1 DEF ConsoleInv
<1>. QED BY <1>6, <1>7 DEF Whole, AsOne

LEMMA HealsOf == ConsoleInv /\ HealInv => ConsoleHeals
BY RecentIs, ListedIs DEF ConsoleHeals, Healed

-----------------------------------------------------------------------------
(* What a client is to get.  Only the web task connects clients and sends  *)
(* replays: a client that is to get a slot has its replay to come, which   *)
(* is the last thing the task does for it.                                 *)
Welcoming == {"add", "replay", "resend"}
Without(q, K) == \A x \in StepsOf(q) : x.do \notin K
Proper(q) ==
    /\ \A x \in StepsOf(q) : x.do = "add" => On("replay", x.socket) \in StepsOf(q)
    /\ \A k \in 1..Len(q) : q[k].do = "replay" => k = Len(q)
    /\ \A x, y \in StepsOf(q) : x.do = "replay" => y.do # "resend"
WebInv ==
    /\ \A t \in ConsoleTasks \ {Web} : Without(todo[t], Welcoming) /\ Without(todo[t], {"up"})
    /\ Proper(todo[Web])

LEMMA ProperTail ==
    ASSUME NEW q \in Seq(StepType), q # <<>>, Proper(q)
    PROVE  /\ Tail(q) \in Seq(StepType) /\ Proper(Tail(q))
           /\ StepsOf(q) = {q[1]} \cup StepsOf(Tail(q))
           /\ q[1].do = "replay" => Tail(q) = <<>>
<1>0. PICK r : r = Tail(q)
  OBVIOUS
<1>1. /\ r \in Seq(StepType) /\ Len(r) = Len(q) - 1
      /\ \A k \in 1..Len(r) : r[k] = q[k + 1]
      /\ Len(q) \in Nat \ {0} /\ Head(q) = q[1]
  BY <1>0, HeadTailProperties
<1>2. StepsOf(q) = {q[1]} \cup StepsOf(r)
  BY <1>0, <1>1, StepsOfTail
<1>3. ASSUME NEW k \in 1..Len(r), r[k].do = "replay" PROVE k = Len(r)
  <2>1. k + 1 \in 1..Len(q) /\ q[k + 1].do = "replay"
    BY <1>1, <1>3
  <2>2. k + 1 = Len(q)
    BY <2>1 DEF Proper
  <2>. QED BY <1>1, <2>2
<1>5. ASSUME q[1].do = "replay" PROVE r = <<>>
  <2>1. 1 \in 1..Len(q)
    BY <1>1
  <2>2. Len(q) = 1
    BY <1>5, <2>1 DEF Proper
  <2>3. Len(r) = 0
    BY <1>1, <2>2
  <2>. QED BY <1>1, <2>3, EmptySeq
<1>6. ASSUME NEW x \in StepsOf(r), x.do = "add"
      PROVE  On("replay", x.socket) \in StepsOf(r)
  <2>1. On("replay", x.socket) \in StepsOf(q)
    BY <1>2, <1>6 DEF Proper
  <2>2. r # <<>>
    BY <1>6 DEF StepsOf
  <2>3. q[1].do # "replay"
    BY <1>5, <2>2
  <2>4. On("replay", x.socket).do = "replay"
    BY DEF On
  <2>. QED BY <1>2, <2>1, <2>3, <2>4
<1>. QED BY <1>0, <1>1, <1>2, <1>3, <1>5, <1>6 DEF Proper

LEMMA ProperCat ==
    ASSUME NEW a \in Seq(StepType), NEW b \in Seq(StepType), Without(a, Welcoming), Proper(b)
    PROVE  Proper(a \o b)
<1>1. /\ a \o b \in Seq(StepType) /\ Len(a \o b) = Len(a) + Len(b)
      /\ Len(a) \in Nat /\ Len(b) \in Nat
      /\ \A k \in 1..(Len(a) + Len(b)) :
             (a \o b)[k] = IF k <= Len(a) THEN a[k] ELSE b[k - Len(a)]
  BY ConcatProperties
<1>2. StepsOf(a \o b) = StepsOf(a) \cup StepsOf(b)
  BY StepsOfCat
<1>3. ASSUME NEW k \in 1..Len(a \o b), (a \o b)[k].do = "replay" PROVE k = Len(a \o b)
  <2>1. CASE k <= Len(a)
    <3>1. k \in 1..Len(a) /\ (a \o b)[k] = a[k]
      BY <1>1, <2>1
    <3>. QED BY <1>3, <3>1 DEF Without, Welcoming, StepsOf
  <2>2. CASE ~(k <= Len(a))
    <3>1. k - Len(a) \in 1..Len(b) /\ (a \o b)[k] = b[k - Len(a)]
      BY <1>1, <2>2
    <3>2. k - Len(a) = Len(b)
      BY <1>3, <3>1 DEF Proper
    <3>. QED BY <1>1, <3>2
  <2>. QED BY <2>1, <2>2
<1>4. \A x \in StepsOf(a \o b) : x.do \in Welcoming => x \in StepsOf(b)
  BY <1>2 DEF Without
<1>. QED BY <1>2, <1>3, <1>4 DEF Proper, Welcoming

LEMMA WithoutProper == ASSUME NEW q \in Seq(StepType), Without(q, Welcoming) PROVE Proper(q)
BY DEF Without, Welcoming, Proper, StepsOf

LEMMA WithoutCat ==
    ASSUME NEW a \in Seq(StepType), NEW b \in Seq(StepType), NEW K, Without(a, K), Without(b, K)
    PROVE  a \o b \in Seq(StepType) /\ Without(a \o b, K)
BY StepsOfCat DEF Without

Tame(q) == q \in Seq(StepType) /\ Without(q, Welcoming) /\ Without(q, {"up"})

LEMMA NoneTame == ASSUME NEW q, q = <<>> PROVE Tame(q)
<1>1. q \in Seq(StepType) /\ \A k \in 1..Len(q) : FALSE
  OBVIOUS
<1>. QED BY <1>1 DEF Tame, Without, StepsOf

LEMMA OneTame ==
    ASSUME NEW x \in StepType, x.do \notin Welcoming \cup {"up"} PROVE Tame(<<x>>)
<1>1. <<x>> \in Seq(StepType) /\ Len(<<x>>) = 1 /\ <<x>>[1] = x
  OBVIOUS
<1>2. \A k \in 1..1 : k = 1
  OBVIOUS
<1>. QED BY <1>1, <1>2 DEF Tame, Without, StepsOf

LEMMA TwoTame ==
    ASSUME NEW x \in StepType, x.do \notin Welcoming \cup {"up"},
           NEW y \in StepType, y.do \notin Welcoming \cup {"up"}
    PROVE  Tame(<<x, y>>)
<1>1. <<x, y>> \in Seq(StepType) /\ Len(<<x, y>>) = 2 /\ <<x, y>>[1] = x /\ <<x, y>>[2] = y
  OBVIOUS
<1>2. \A k \in 1..2 : k = 1 \/ k = 2
  OBVIOUS
<1>. QED BY <1>1, <1>2 DEF Tame, Without, StepsOf

LEMMA LineTame == ASSUME NEW line \in Line PROVE Tame(line)
<1>1. CASE line = <<>>
  BY <1>1, NoneTame
<1>2. CASE line # <<>>
  <2>1. line = Callback
    BY <1>2 DEF Line
  <2>2. /\ Len(line) = 6 /\ line \in Seq(StepType)
        /\ line[1].do = "head" /\ line[2].do = "text" /\ line[3].do = "format"
        /\ line[4].do = "advance" /\ line[5].do = "test" /\ line[6].do = "count"
    <3>1. \A what \in {"head", "text", "format", "advance", "test", "count"} :
             Do(what) \in StepType /\ Do(what).do = what
      BY StepKinds
    <3>. QED BY <2>1, <3>1 DEF Callback
  <2>. QED BY <2>2 DEF Tame, Without, Welcoming, StepsOf
<1>. QED BY <1>1, <1>2

LEMMA TameCat ==
    ASSUME NEW a, NEW b, Tame(a), Tame(b) PROVE Tame(a \o b)
BY WithoutCat DEF Tame

LEMMA DisconnectedTame ==
    ASSUME NEW s \in Sockets, NEW steps \in DISCONNECTED(s) PROVE Tame(steps)
<1>1. PICK line \in Line : steps = line \o <<On("remove", s)>>
  BY DEF DISCONNECTED
<1>2. PICK x \in StepType : x = On("remove", s) /\ x.do = "remove"
  BY StepKinds
<1>3. Tame(<<x>>)
  BY <1>2, OneTame DEF Welcoming
<1>. QED BY <1>1, <1>2, <1>3, LineTame, TameCat

(* Such steps come in place of a step, or in front.                        *)
LEMMA WebKept ==
    ASSUME ConsoleInv, WebInv, NEW t \in ConsoleTasks, NEW steps \in Seq(StepType),
           Without(steps, Welcoming), t # Web => Without(steps, {"up"}), PutFirst(t, steps)
    PROVE  /\ WebInv' /\ OnlyOf(t)
           /\ \A x \in Due' : x.do \in Welcoming => x \in Due
           /\ \A x \in Due : x.do \in Welcoming =>
                 \/ x \in Due'
                 \/ t = Web /\ todo[t] # <<>> /\ x = Step(t) /\ Then(t, steps)
<1>1. PICK q \in Seq(StepType) : q = todo[t]
  BY DEF ConsoleInv, TodoInv
<1>2. Proper(q)
  BY <1>1, WithoutProper DEF WebInv
<1>3. PICK rest \in Seq(StepType) :
         /\ todo' = [todo EXCEPT ![t] = steps \o rest] /\ Proper(rest)
         /\ t # Web => Without(rest, Welcoming) /\ Without(rest, {"up"})
         /\ StepsOf(rest) \subseteq StepsOf(q)
         /\ \A x \in StepsOf(q) : \/ x \in StepsOf(rest)
                                  \/ todo[t] # <<>> /\ x = Step(t) /\ Then(t, steps)
  <2>1. CASE todo' = [todo EXCEPT ![t] = steps \o todo[t]]
    BY <1>1, <1>2, <2>1 DEF WebInv
  <2>2. CASE todo[t] # <<>> /\ Then(t, steps)
    <3>1. PICK r : r = Tail(q)
      OBVIOUS
    <3>2. /\ r \in Seq(StepType) /\ Proper(r) /\ StepsOf(q) = {q[1]} \cup StepsOf(r)
          /\ Step(t) = q[1]
      BY <1>1, <1>2, <2>2, <3>1, ProperTail DEF Step
    <3>3. todo' = [todo EXCEPT ![t] = steps \o r]
      BY <1>1, <2>2, <3>1 DEF Then
    <3>4. t # Web => Without(r, Welcoming) /\ Without(r, {"up"})
      BY <1>1, <3>2 DEF WebInv, Without
    <3>. QED BY <2>2, <3>2, <3>3, <3>4
  <2>. QED BY <2>1, <2>2 DEF PutFirst
<1>4. PICK p : p = steps \o rest
  OBVIOUS
<1>5. p \in Seq(StepType) /\ Proper(p) /\ StepsOf(p) = StepsOf(steps) \cup StepsOf(rest)
  BY <1>3, <1>4, ProperCat, StepsOfCat
<1>6. todo'[t] = p /\ \A u \in ConsoleTasks \ {t} : todo'[u] = todo[u]
  BY <1>3, <1>4 DEF ConsoleInv, TodoInv
<1>7. t # Web => Without(p, Welcoming) /\ Without(p, {"up"})
  BY <1>3, <1>5 DEF Without
<1>8. /\ Proper(todo'[Web])
      /\ \A u \in ConsoleTasks \ {Web} :
            Without(todo'[u], Welcoming) /\ Without(todo'[u], {"up"})
  BY <1>5, <1>6, <1>7 DEF WebInv, ConsoleTasks
<1>9. WebInv'
  BY <1>8 DEF WebInv, ConsoleTasks, Without, Welcoming, Proper, StepsOf, On
<1>10. Due' = StepsOf(todo'[Web])
  BY DEF Due, StepsOf
<1>11. CASE t = Web
  <2>1. Due = StepsOf(q) /\ Due' = StepsOf(p)
    BY <1>1, <1>6, <1>10, <1>11 DEF Due
  <2>. QED BY <1>3, <1>5, <1>6, <1>9, <1>11, <2>1 DEF Without, OnlyOf
<1>12. CASE t # Web
  <2>1. Due' = Due
    BY <1>6, <1>10, <1>12 DEF Due, ConsoleTasks
  <2>. QED BY <1>6, <1>9, <2>1 DEF OnlyOf
<1>. QED BY <1>11, <1>12

(* A replay that is to come, and its entries, stay due; no entry is added. *)
Onward ==
    /\ \A x \in Due' : x.do = "resend" => x \in Due
    /\ \A x \in Due : x.do \in {"replay", "resend"} => x \in Due'
    /\ \A x \in Due : x.do = "add" => x \in Due' \/ On("replay", x.socket) \in Due'
Gentle == WebInv' /\ Onward /\ (About(Web, "up")' => About(Web, "up"))

LEMMA UpNotMade ==
    ASSUME ConsoleInv, NEW t \in ConsoleTasks, NEW steps, Tame(steps), PutFirst(t, steps),
           About(t, "up")'
    PROVE  About(t, "up")
<1>1. PICK q \in Seq(StepType) : q = todo[t] /\ Linked(q) /\ todo \in [ConsoleTasks -> Seq(StepType)]
  BY DEF ConsoleInv, TodoInv
<1>2. PICK p : p = todo'[t] /\ p # <<>> /\ p[1].do = "up"
  BY DEF About, Step
<1>3. CASE steps = <<>>
  <2>1. CASE todo' = [todo EXCEPT ![t] = steps \o todo[t]]
    <3>1. p = steps \o q
      BY <1>1, <1>2, <2>1
    <3>2. p = q
      BY <1>1, <1>3, <3>1
    <3>. QED BY <1>1, <1>2, <3>2 DEF About, Step
  <2>2. CASE q # <<>> /\ Then(t, steps)
    <3>1. PICK r : r = Tail(q)
      OBVIOUS
    <3>2. /\ r \in Seq(StepType)
          /\ r # <<>> => r[1] = q[2] /\ Follows(q[1].do, q[2].do)
      BY <1>1, <2>2, <3>1, LinkedTail
    <3>3. p = steps \o r
      BY <1>1, <1>2, <2>2, <3>1 DEF Then
    <3>4. p = r
      BY <1>3, <3>2, <3>3
    <3>. QED BY <1>2, <3>2, <3>4 DEF Follows
  <2>. QED BY <1>1, <2>1, <2>2 DEF PutFirst
<1>4. CASE steps # <<>>
  <2>1. PICK r \in Seq(StepType) : p = steps \o r
    <3>1. CASE todo' = [todo EXCEPT ![t] = steps \o todo[t]]
      BY <1>1, <1>2, <3>1
    <3>2. CASE q # <<>> /\ Then(t, steps)
      <4>1. Tail(q) \in Seq(StepType)
        BY <1>1, <3>2, HeadTailProperties
      <4>. QED BY <1>1, <1>2, <3>2, <4>1 DEF Then
    <3>. QED BY <1>1, <3>1, <3>2 DEF PutFirst
  <2>2. steps \in Seq(StepType) /\ 1 \in 1..Len(steps) /\ Len(steps) \in Nat
    BY <1>4, EmptySeq DEF Tame
  <2>3. p[1] = steps[1]
    <3>1. /\ Len(r) \in Nat
          /\ \A k \in 1..(Len(steps) + Len(r)) :
                 (steps \o r)[k] = IF k <= Len(steps) THEN steps[k] ELSE r[k - Len(steps)]
      BY <2>1, <2>2, ConcatProperties
    <3>2. 1 \in 1..(Len(steps) + Len(r)) /\ 1 <= Len(steps)
      BY <2>2, <3>1
    <3>. QED BY <2>1, <3>1, <3>2
  <2>. QED BY <1>2, <2>2, <2>3 DEF Tame, Without, StepsOf
<1>. QED BY <1>3, <1>4

LEMMA GentleStep ==
    ASSUME ConsoleInv, WebInv, NEW t \in ConsoleTasks, NEW steps, Tame(steps), PutFirst(t, steps),
           todo[t] # <<>> /\ Then(t, steps) => Step(t).do \notin {"replay", "resend"}
    PROVE  Gentle
<1>1. /\ WebInv' /\ OnlyOf(t)
      /\ \A x \in Due' : x.do \in Welcoming => x \in Due
      /\ \A x \in Due : x.do \in Welcoming =>
            \/ x \in Due'
            \/ t = Web /\ todo[t] # <<>> /\ x = Step(t) /\ Then(t, steps)
  BY WebKept DEF Tame
<1>2. \A x \in Due : x.do \in {"replay", "resend"} => x \in Due'
  BY <1>1 DEF Welcoming
<1>3. \A x \in Due : x.do = "add" => On("replay", x.socket) \in Due'
  <2>1. \A x \in Due : x.do = "add" => On("replay", x.socket) \in Due
    BY DEF WebInv, Proper, Due
  <2>. QED BY <1>2, <2>1 DEF On
<1>4. About(Web, "up")' => About(Web, "up")
  <2>1. CASE t = Web
    BY <2>1, UpNotMade
  <2>2. CASE t # Web
    <3>1. todo'[Web] = todo[Web]
      BY <1>1, <2>2 DEF OnlyOf, ConsoleTasks
    <3>. QED BY <3>1 DEF About, Step
  <2>. QED BY <2>1, <2>2
<1>. QED BY <1>1, <1>2, <1>3, <1>4 DEF Gentle, Onward, Welcoming

LEMMA GentleDone ==
    ASSUME ConsoleInv, WebInv, NEW t \in ConsoleTasks, todo[t] # <<>>, Done(t),
           Step(t).do \notin {"replay", "resend"}
    PROVE  Gentle
<1>1. PICK steps : steps = <<>>
  OBVIOUS
<1>2. Tame(steps) /\ PutFirst(t, steps)
  BY <1>1, NoneTame DEF Done, PutFirst
<1>. QED BY <1>2, GentleStep

-----------------------------------------------------------------------------
(* Steps that send nothing and connect nobody.  No client becomes one that *)
(* is to see all lines: a client that gets a slot has its replay to come.  *)
Apart ==
    /\ WebInv' /\ Onward /\ UNCHANGED viewers
    /\ open' \subseteq open /\ (contended => contended')
    /\ \A s \in Sockets : Claims(s)' => Claims(s) \/ On("replay", s) \in Due'
UpInv ==
    (~contended /\ About(Web, "up"))
        => \E s \in Sockets : Claims(s) /\ On("replay", s) \in Due

LEMMA UpKept ==
    ASSUME UpInv, CountInv, Gentle, contended => contended',
           UNCHANGED wsClients \/ \E t \in ConsoleTasks : ClearSlot(t)
    PROVE  UpInv'
<1>. SUFFICES ASSUME ~contended', About(Web, "up")'
              PROVE  \E s \in Sockets : Claims(s)' /\ On("replay", s) \in Due'
  BY DEF UpInv, On
<1>1. ~contended /\ About(Web, "up")
  BY DEF Gentle
<1>2. PICK s \in Sockets : Claims(s) /\ On("replay", s) \in Due
  BY <1>1 DEF UpInv
<1>3. On("replay", s) \in Due'
  BY <1>2 DEF Gentle, Onward, On
<1>4. UNCHANGED wsClients
  <2>. SUFFICES ASSUME NEW t \in ConsoleTasks, ClearSlot(t) PROVE FALSE
    OBVIOUS
  <2>1. About(t, "clear")
    BY DEF ClearSlot
  <2>2. Changing(t) /\ Changing(Web) /\ Web \in ConsoleTasks
    BY <1>1, <2>1 DEF Changing, ConsoleTasks
  <2>3. t = Web
    BY <1>1, <2>2 DEF CountInv
  <2>. QED BY <1>1, <2>1, <2>3 DEF About
<1>. QED BY <1>2, <1>3, <1>4 DEF Claims, Places

LEMMA LogApart ==
    ASSUME ConsoleInv, WebInv, NEW t \in ConsoleTasks, Log(t) PROVE Apart /\ Gentle /\ UNCHANGED wsClients
<1>1. PICK line \in Line : todo' = [todo EXCEPT ![t] = line]
  BY DEF Log
<1>2. Tame(line)
  BY LineTame
<1>3. PutFirst(t, line) /\ todo[t] = <<>>
  BY <1>1, <1>2, InFront DEF Log, Tame
<1>4. Gentle
  BY <1>2, <1>3, GentleStep
<1>. QED BY <1>4 DEF Log, Apart, Gentle, registry, sockets, tally, Claims, Places

LEMMA NoticeApart ==
    ASSUME ConsoleInv, WebInv, NEW t \in ConsoleTasks, NEW s \in Sockets, Notice(t, s)
    PROVE  Apart /\ Gentle /\ UNCHANGED wsClients
<1>1. PICK steps \in DISCONNECTED(s) : todo' = [todo EXCEPT ![t] = steps \o @]
  BY DEF Notice
<1>2. Tame(steps)
  BY DisconnectedTame
<1>3. PutFirst(t, steps)
  BY <1>1 DEF PutFirst
<1>4. ~(todo[t] # <<>> /\ Then(t, steps)) \/ Step(t).do \notin {"replay", "resend"}
  <2>. SUFFICES ASSUME todo[t] # <<>>, Then(t, steps) PROVE FALSE
    OBVIOUS
  <2>1. PICK q \in Seq(StepType) : q = todo[t] /\ todo \in [ConsoleTasks -> Seq(StepType)]
    BY DEF ConsoleInv, TodoInv
  <2>2. PICK r \in Seq(StepType) : r = Tail(q) /\ Len(r) = Len(q) - 1
    BY <2>1, HeadTailProperties
  <2>3. steps \o q = steps \o r
    BY <1>1, <2>1, <2>2 DEF Then
  <2>4. steps \in Seq(StepType)
    BY <1>2 DEF Tame
  <2>5. Len(steps \o q) = Len(steps) + Len(q) /\ Len(steps \o r) = Len(steps) + Len(r)
    BY <2>1, <2>2, <2>4, ConcatProperties
  <2>. QED BY <2>2, <2>3, <2>4, <2>5
<1>5. Gentle
  BY <1>2, <1>3, <1>4, GentleStep
<1>. QED BY <1>5 DEF Notice, Close, Apart, Gentle, registry, tally, Claims, Places

LEMMA ErrorApart ==
    ASSUME ConsoleInv, WebInv, NEW s \in Sockets, ErrorEvent(s) PROVE Apart /\ Gentle /\ UNCHANGED wsClients
<1>1. PICK steps \in DISCONNECTED(s) : todo' = [todo EXCEPT ![Web] = steps]
  BY DEF ErrorEvent
<1>2. Web \in ConsoleTasks /\ todo[Web] = <<>> /\ Tame(steps)
  BY DisconnectedTame DEF ConsoleTasks, ErrorEvent
<1>3. PutFirst(Web, steps)
  BY <1>1, <1>2, InFront DEF Tame
<1>4. Gentle
  BY <1>2, <1>3, GentleStep
<1>. QED BY <1>4 DEF ErrorEvent, Apart, Gentle, registry, sockets, Claims, Places

LEMMA SameGentle == ASSUME WebInv, todo' = todo PROVE Gentle
<1>1. Due' = Due
  BY DEF Due, StepsOf
<1>2. WebInv'
  BY DEF WebInv, ConsoleTasks, Without, Proper, StepsOf, On, Welcoming
<1>3. About(Web, "up")' => About(Web, "up")
  BY DEF About, Step
<1>. QED BY <1>1, <1>2, <1>3 DEF Gentle, Onward

LEMMA LeaveApart ==
    ASSUME WebInv, NEW s \in Sockets, Leave(s) PROVE Apart /\ Gentle /\ UNCHANGED wsClients
<1>1. Gentle
  BY SameGentle DEF Leave
<1>. QED BY <1>1 DEF Leave, Apart, Gentle, registry, Claims, Places

LEMMA RemoveApart ==
    ASSUME ConsoleInv, WebInv, NEW t \in ConsoleTasks, removeWebSocketClient(t)
    PROVE  Apart /\ Gentle /\ UNCHANGED wsClients
<1>1. /\ todo[t] # <<>> /\ Step(t).do \notin {"replay", "resend"}
      /\ contended => contended'
  BY DEF removeWebSocketClient, About, Contend
<1>2. Gentle
  <2>1. CASE Done(t)
    BY <1>1, <2>1, GentleDone
  <2>2. CASE ~Done(t)
    <3>1. Known(Subject(t)) /\ Then(t, <<AtPlace("clear", SlotOf(Subject(t))), Do("down")>>)
      BY <2>2 DEF removeWebSocketClient
    <3>2. PICK x, y : x = AtPlace("clear", SlotOf(Subject(t))) /\ y = Do("down")
      OBVIOUS
    <3>3. x \in StepType /\ y \in StepType /\ x.do = "clear" /\ y.do = "down"
      <4>1. SlotOf(Subject(t)) \in Places
        BY <3>1, SlotFound DEF Known
      <4>. QED BY <3>2, <4>1, StepKinds
    <3>4. PICK steps : steps = <<x, y>>
      OBVIOUS
    <3>5. Tame(steps)
      BY <3>3, <3>4, TwoTame DEF Welcoming
    <3>6. PutFirst(t, steps)
      BY <1>1, <3>1, <3>2, <3>4 DEF PutFirst
    <3>. QED BY <1>1, <3>5, <3>6, GentleStep
  <2>. QED BY <2>1, <2>2
<1>. QED BY <1>1, <1>2 DEF removeWebSocketClient, Apart, Gentle, registry, sockets, Claims, Places

LEMMA ClearApart ==
    ASSUME ConsoleInv, WebInv, NEW t \in ConsoleTasks, ClearSlot(t) PROVE Apart /\ Gentle
<1>1. todo[t] # <<>> /\ Step(t).do \notin {"replay", "resend"} /\ Done(t)
  BY DEF ClearSlot, About
<1>2. Gentle
  BY <1>1, GentleDone
<1>3. ASSUME NEW s \in Sockets, Claims(s)' PROVE Claims(s)
  <2>1. PICK i \in Places : wsClients'[i].id = s
    BY <1>3 DEF Claims, Places
  <2>2. s # 255 /\ Free.id = 255
    BY ConsoleAssumption DEF Free
  <2>3. wsClients'[i] = wsClients[i] \/ wsClients'[i] = Free
    BY DEF ClearSlot, ConsoleInv, ConsoleTypeOK
  <2>. QED BY <2>1, <2>2, <2>3 DEF Claims
<1>. QED BY <1>2, <1>3 DEF ClearSlot, Apart, Gentle, sockets, tally

LEMMA CountClientsApart ==
    ASSUME ConsoleInv, WebInv, NEW t \in ConsoleTasks, CountClients(t)
    PROVE  Apart /\ Gentle /\ UNCHANGED wsClients
<1>1. todo[t] # <<>> /\ Step(t).do \notin {"replay", "resend"}
  BY DEF CountClients, About
<1>2. PICK line \in Line : Then(t, line)
  BY DEF CountClients
<1>3. Gentle
  BY <1>1, <1>2, LineTame, GentleStep DEF PutFirst
<1>. QED BY <1>3 DEF CountClients, Apart, Gentle, sockets, tally, Claims, Places

LEMMA VisitApart ==
    ASSUME ConsoleInv, WebInv, NEW t \in ConsoleTasks, VisitSlot(t)
    PROVE  Apart /\ Gentle /\ UNCHANGED wsClients
<1>1. /\ todo[t] # <<>> /\ Step(t).do = "visit" /\ UNCHANGED <<registry, sockets>>
  BY DEF VisitSlot, About
<1>2. PICK p : p = Step(t).place
  OBVIOUS
<1>3. p \in Places
  BY <1>1, <1>2, StepIsTyped, StepParts DEF ConsoleInv
<1>4. Gentle
  <2>1. CASE Done(t)
    BY <1>1, <2>1, GentleDone
  <2>2. CASE ~Done(t)
    <3>1. PICK line \in Line : Then(t, line \o <<AtPlace("disconnect", p), AtPlace("forget", p)>>)
      BY <1>2, <2>2 DEF VisitSlot
    <3>2. PICK x, y : x = AtPlace("disconnect", p) /\ y = AtPlace("forget", p)
      OBVIOUS
    <3>3. x \in StepType /\ y \in StepType /\ x.do = "disconnect" /\ y.do = "forget"
      BY <1>3, <3>2, StepKinds
    <3>4. PICK two : two = <<x, y>>
      OBVIOUS
    <3>5. Tame(two)
      BY <3>3, <3>4, TwoTame DEF Welcoming
    <3>6. PICK steps : steps = line \o two
      OBVIOUS
    <3>7. Tame(steps)
      BY <3>5, <3>6, LineTame, TameCat
    <3>8. PutFirst(t, steps)
      BY <1>1, <3>1, <3>2, <3>4, <3>6 DEF PutFirst
    <3>. QED BY <1>1, <3>7, <3>8, GentleStep
  <2>. QED BY <2>1, <2>2
<1>. QED BY <1>4 DEF VisitSlot, Apart, Gentle, registry, sockets, tally, Claims, Places

LEMMA DisconnectApart ==
    ASSUME ConsoleInv, WebInv, NEW t \in ConsoleTasks, disconnect(t)
    PROVE  Apart /\ Gentle /\ UNCHANGED wsClients
<1>1. todo[t] # <<>> /\ Step(t).do \notin {"replay", "resend"}
  BY DEF disconnect, About
<1>2. Gentle
  <2>1. CASE Subject(t) \notin open
    <3>1. Done(t)
      BY <2>1 DEF disconnect
    <3>. QED BY <1>1, <3>1, GentleDone
  <2>2. CASE Subject(t) \in open
    <3>1. PICK steps \in DISCONNECTED(Subject(t)) : Then(t, steps)
      BY <2>2 DEF disconnect
    <3>2. Tame(steps)
      BY <2>2, <3>1, DisconnectedTame DEF ConsoleInv, ConsoleTypeOK
    <3>. QED BY <1>1, <3>1, <3>2, GentleStep DEF PutFirst
  <2>. QED BY <2>1, <2>2
<1>3. open' \subseteq open
  BY DEF disconnect, Close
<1>. QED BY <1>2, <1>3 DEF disconnect, Apart, Gentle, registry, tally, Claims, Places

(* A client gets its slot: only the web task gives one, and it has the     *)
(* client's replay to come.                                                *)
LEMMA AddApart ==
    ASSUME ConsoleInv, WebInv, NEW t \in ConsoleTasks, addWebSocketClient(t)
    PROVE  /\ Apart
           /\ About(Web, "up")' =>
                 \E s \in Sockets : Claims(s)' /\ On("replay", s) \in Due'
<1>1. /\ todo[t] # <<>> /\ Step(t).do = "add" /\ (contended => contended')
      /\ UNCHANGED <<sockets, viewers>>
  BY DEF addWebSocketClient, About, Contend
<1>2. PICK x, s0, a0 : x = Step(t) /\ s0 = x.socket /\ a0 = x.ip
  OBVIOUS
<1>3. x \in Due /\ t = Web /\ s0 \in Sockets /\ a0 \in Addresses
  <2>1. s0 \in Sockets /\ a0 \in Addresses
    BY <1>1, <1>2, StepIsTyped, StepParts DEF ConsoleInv
  <2>2. /\ todo[t] \in Seq(StepType) /\ Step(t) = todo[t][1] /\ 1 \in 1..Len(todo[t])
    BY <1>1, EmptySeq DEF ConsoleInv, TodoInv, Step
  <2>3. x \in StepsOf(todo[t])
    BY <1>2, <2>2 DEF StepsOf
  <2>4. t = Web
    BY <1>1, <1>2, <2>3 DEF WebInv, Without, Welcoming
  <2>. QED BY <2>1, <2>3, <2>4 DEF Due
<1>4. On("replay", s0) \in Due
  BY <1>1, <1>2, <1>3 DEF WebInv, Proper, Due
<1>5. PICK steps \in Seq(StepType) :
         /\ Without(steps, Welcoming) /\ PutFirst(t, steps)
         /\ ~Claims(Free.id) => steps = <<>>
  <2>1. CASE ~Claims(Free.id)
    <3>1. PICK none : none = <<>>
      OBVIOUS
    <3>2. Tame(none)
      BY <3>1, NoneTame
    <3>3. PutFirst(t, none)
      BY <1>1, <2>1, <3>1 DEF addWebSocketClient, Done, PutFirst
    <3>. QED BY <2>1, <3>1, <3>2, <3>3 DEF Tame
  <2>2. CASE Claims(Free.id)
    <3>1. PICK y : y = Do("up") /\ y \in StepType /\ y.do = "up"
      BY StepKinds
    <3>2. PICK one : one = <<y>>
      OBVIOUS
    <3>3. one \in Seq(StepType) /\ Len(one) = 1 /\ one[1] = y
      BY <3>1, <3>2
    <3>4. \A k \in 1..1 : k = 1
      OBVIOUS
    <3>5. Without(one, Welcoming)
      BY <3>1, <3>3, <3>4 DEF Without, Welcoming, StepsOf
    <3>6. PutFirst(t, one)
      BY <1>1, <2>2, <3>1, <3>2 DEF addWebSocketClient, PutFirst
    <3>. QED BY <2>2, <3>1, <3>2, <3>3, <3>5, <3>6
  <2>. QED BY <2>1, <2>2
<1>6. /\ WebInv'
      /\ \A y \in Due' : y.do \in Welcoming => y \in Due
      /\ \A y \in Due : y.do \in Welcoming => y \in Due' \/ y = x
  BY <1>2, <1>3, <1>5, WebKept
<1>7. \A y \in Due : y.do \in {"replay", "resend"} => y \in Due'
  BY <1>1, <1>2, <1>6 DEF Welcoming
<1>8. \A y \in Due : y.do = "add" => On("replay", y.socket) \in Due'
  <2>1. \A y \in Due : y.do = "add" => On("replay", y.socket) \in Due
    BY DEF WebInv, Proper, Due
  <2>. QED BY <1>7, <2>1 DEF On
<1>9. Onward
  BY <1>6, <1>7, <1>8 DEF Onward, Welcoming
<1>10. On("replay", s0) \in Due'
  BY <1>4, <1>7 DEF On
<1>11. ASSUME Claims(Free.id)
       PROVE  /\ Claims(s0)'
              /\ \A s \in Sockets : Claims(s)' => Claims(s) \/ s = s0
  <2>1. PICK p \in Places : wsClients' = [wsClients EXCEPT ![p] = [id |-> s0, ip |-> a0]]
    <3>1. SlotOf(Free.id) \in Places
      BY <1>11, SlotFound
    <3>. QED BY <1>2, <1>11, <3>1 DEF addWebSocketClient
  <2>2. /\ wsClients'[p].id = s0
        /\ \A i \in Places \ {p} : wsClients'[i] = wsClients[i]
    BY <2>1 DEF ConsoleInv, ConsoleTypeOK
  <2>. QED BY <2>1, <2>2 DEF Claims, Places
<1>12. ASSUME ~Claims(Free.id)
       PROVE  /\ ~About(Web, "up")'
              /\ \A s \in Sockets : Claims(s)' => Claims(s)
  <2>1. Tame(steps)
    BY <1>5, <1>12, NoneTame
  <2>2. ~About(Web, "up")
    BY <1>1, <1>3 DEF About
  <2>3. ~About(Web, "up")'
    BY <1>3, <1>5, <2>1, <2>2, UpNotMade
  <2>. QED BY <1>12, <2>3 DEF addWebSocketClient, Claims, Places
<1>13. \A s \in Sockets : Claims(s)' => Claims(s) \/ On("replay", s) \in Due'
  BY <1>10, <1>11, <1>12
<1>14. About(Web, "up")' => \E s \in Sockets : Claims(s)' /\ On("replay", s) \in Due'
  BY <1>3, <1>10, <1>11, <1>12
<1>. QED BY <1>1, <1>6, <1>9, <1>13, <1>14 DEF Apart, sockets

LEMMA ApartSteps ==
    ASSUME ConsoleInv, CountInv, WebInv, UpInv, NEW t \in ConsoleTasks,
           \/ Log(t) \/ Registering(t) \/ VisitSlot(t) \/ disconnect(t)
           \/ \E s \in Sockets : Notice(t, s) \/ ErrorEvent(s) \/ Leave(s)
    PROVE  Apart /\ UpInv'
<1>1. CASE addWebSocketClient(t)
  <2>1. /\ Apart
        /\ About(Web, "up")' => \E s \in Sockets : Claims(s)' /\ On("replay", s) \in Due'
    BY <1>1, AddApart
  <2>. QED BY <2>1 DEF UpInv, On
<1>2. CASE ClearSlot(t)
  BY <1>2, ClearApart, UpKept DEF Apart
<1>3. CASE ~addWebSocketClient(t) /\ ~ClearSlot(t)
  <2>1. Apart /\ Gentle /\ UNCHANGED wsClients
    BY <1>3, LogApart, RemoveApart, CountClientsApart, VisitApart, DisconnectApart, NoticeApart,
       ErrorApart, LeaveApart DEF Registering
  <2>. QED BY <2>1, UpKept DEF Apart
<1>. QED BY <1>1, <1>2, <1>3

-----------------------------------------------------------------------------
(* A client that has a slot and no replay to come misses none of the lines *)
(* that came in order, but those whose entries are still to be sent to it. *)
(* They are not overtaken: a line so far back is one of the replay or was  *)
(* begun since, and the slots of all of these are not reused meanwhile.    *)
Settled(s) ==
    /\ s \in open /\ Claims(s)
    /\ \A x \in Due : x.do \in {"add", "replay"} => x.socket # s
Shown == \E t \in ConsoleTasks, what \in {"advance", "test", "count"} : About(t, what)
Depth(d) == Back(d + (IF Moved THEN 1 ELSE 0))
Coming(s, d) == [do |-> "resend", socket |-> s, index |-> Depth(d)]
Awaited(s) ==
    \A d \in 1..Len(orderly) : orderly[Len(orderly) - d + 1] \in missing[s] =>
        d + UnderWay <= REPLAY + during /\ Coming(s, d) \in Due
InReach == Replayed \subseteq overtaken \/ during + REPLAY <= LOG_BUFFER_SIZE
Seen(s) ==
    /\ Shown => lines \notin missing[s]
    /\ s \notin overtaken => Awaited(s)
SeesInv ==
    /\ during \in Nat /\ InReach
    /\ ~contended /\ ~overlap => \A s \in Sockets : Settled(s) => Seen(s)

DueReplays == {s \in Sockets : \E x \in Due : x.do = "resend" /\ x.socket = s}
LEMMA ReplayedIs ==
    ASSUME ConsoleInv, ConsoleInv'
    PROVE  Replayed = DueReplays /\ Replayed' = DueReplays'
<1>1. todo[Web] \in Seq(StepType) /\ todo'[Web] \in Seq(StepType)
  BY DEF ConsoleInv, TodoInv, ConsoleTasks
<1>2. PICK p, q \in Seq(StepType) : p = todo[Web] /\ q = todo'[Web]
  BY <1>1
<1>3. DOMAIN p = 1..Len(p) /\ DOMAIN q = 1..Len(q)
  OBVIOUS
<1>4. Replayed = DueReplays
  BY <1>2, <1>3 DEF Replayed, DueReplays, Due, StepsOf
<1>5. Replayed' = DueReplays'
  BY <1>2, <1>3 DEF Replayed, DueReplays, Due, StepsOf
<1>. QED BY <1>4, <1>5

LEMMA AwaitedKept ==
    ASSUME NEW s \in Sockets, Awaited(s), orderly' = orderly, UnderWay' = UnderWay,
           during' = during, missing'[s] \subseteq missing[s],
           \A d \in 1..Len(orderly) :
              orderly[Len(orderly) - d + 1] \in missing'[s] /\ Coming(s, d) \in Due
                  => Coming(s, d)' \in Due'
    PROVE  Awaited(s)'
<1>1. ASSUME NEW d \in 1..Len(orderly), orderly[Len(orderly) - d + 1] \in missing'[s]
      PROVE  d + UnderWay <= REPLAY + during /\ Coming(s, d)' \in Due'
  BY <1>1 DEF Awaited
<1>2. \A d \in 1..Len(orderly') : orderly'[Len(orderly') - d + 1] \in missing'[s] =>
          d + UnderWay' <= REPLAY + during' /\ Coming(s, d)' \in Due'
  BY <1>1
<1>. QED BY <1>2 DEF Awaited, Coming, Depth, Back

LEMMA ComingKept ==
    ASSUME logBufferIndex' = logBufferIndex, Moved' <=> Moved, NEW s, NEW d
    PROVE  Coming(s, d)' = Coming(s, d)
BY DEF Coming, Depth, Back

LEMMA SettledWas ==
    ASSUME NEW s \in Sockets, Settled(s)', Onward, open' \subseteq open,
           Claims(s)' => Claims(s) \/ On("replay", s) \in Due'
    PROVE  Settled(s)
<1>1. s \in open /\ Claims(s)' /\ \A x \in Due' : x.do \in {"add", "replay"} => x.socket # s
  BY DEF Settled
<1>2. On("replay", s) \notin Due'
  BY <1>1 DEF On
<1>3. \A x \in Due : x.do \in {"add", "replay"} => x.socket # s
  BY <1>1, <1>2 DEF Onward
<1>. QED BY <1>1, <1>2, <1>3 DEF Settled

LEMMA ApartSees ==
    ASSUME ConsoleInv, ConsoleInv', SeesInv, Apart, UNCHANGED <<lines, ring, past>>,
           Shown' <=> Shown, Moved' <=> Moved, UnderWay' = UnderWay
    PROVE  SeesInv'
<1>1. /\ lines' = lines /\ logBufferIndex' = logBufferIndex /\ orderly' = orderly
      /\ overlap' = overlap /\ missing' = missing /\ during' = during /\ overtaken' = overtaken
  BY DEF ring, past, Apart, viewers
<1>2. InReach'
  <2>1. Replayed' \subseteq Replayed
    BY ReplayedIs DEF DueReplays, Apart, Onward
  <2>. QED BY <1>1, <2>1 DEF SeesInv, InReach
<1>3. ASSUME ~contended', ~overlap', NEW s \in Sockets, Settled(s)' PROVE Seen(s)'
  <2>1. Settled(s)
    BY <1>3, SettledWas DEF Apart
  <2>2. Seen(s)
    BY <1>1, <1>3, <2>1 DEF SeesInv, Apart
  <2>3. ASSUME s \notin overtaken PROVE Awaited(s)'
    <3>1. \A d \in 1..Len(orderly) : Coming(s, d) \in Due => Coming(s, d)' \in Due'
      <4>1. \A d : Coming(s, d)' = Coming(s, d) /\ Coming(s, d).do = "resend"
        BY <1>1, ComingKept DEF Coming
      <4>. QED BY <4>1 DEF Apart, Onward
    <3>. QED BY <1>1, <2>2, <2>3, <3>1, AwaitedKept DEF Seen
  <2>. QED BY <1>1, <2>2, <2>3 DEF Seen
<1>. QED BY <1>1, <1>2, <1>3 DEF SeesInv

LEMMA OuterShows ==
    ASSUME NEW t \in ConsoleTasks, OuterTodo(t) PROVE Shown' <=> Shown
<1>1. \A what \in Within : ~About(t, what) /\ ~About(t, what)'
  BY DEF OuterTodo
<1>2. \A u \in ConsoleTasks, what \in Within : About(u, what)' <=> About(u, what)
  BY <1>1 DEF OuterTodo, OnlyOf, About, Step
<1>. QED BY <1>2 DEF Shown, ConsoleTasks, Within

-----------------------------------------------------------------------------
(* Lines come in order one after another; one under way comes after them.  *)
RiseInv ==
    /\ \A i, j \in 1..Len(orderly) : i < j => orderly[i] < orderly[j]
    /\ ~overlap /\ Inside # {} => \A i \in 1..Len(orderly) : orderly[i] < lines

LEMMA RiseSame ==
    ASSUME RiseInv, UNCHANGED <<lines, past>>, Inside' = Inside PROVE RiseInv'
BY DEF RiseInv, past

LEMMA EmptyRises == ASSUME orderly' = <<>> PROVE RiseInv'
<1>1. PICK q : q = <<>>
  OBVIOUS
<1>2. \A i \in 1..Len(q) : FALSE
  BY <1>1
<1>. QED BY <1>1, <1>2 DEF RiseInv

LEMMA HeadRises ==
    ASSUME ConsoleInv, RiseInv, NEW t \in ConsoleTasks, StoreHead(t) PROVE RiseInv'
<1>1. CASE Inside # {}
  <2>1. orderly' = <<>>
    BY <1>1 DEF StoreHead
  <2>. QED BY <2>1, EmptyRises
<1>2. CASE Inside = {}
  <2>1. orderly' = orderly /\ lines' = lines + 1 /\ lines \in Nat
    BY <1>2 DEF StoreHead, past, ConsoleInv, TodoInv
  <2>2. \A i \in 1..Len(orderly) : orderly[i] \in 1..lines
    <3>1. orderly \in Seq(1..lines)
      BY DEF ConsoleInv
    <3>. QED BY <3>1, ElementOfSeq
  <2>3. \A i \in 1..Len(orderly) : orderly[i] < lines'
    BY <2>1, <2>2
  <2>. QED BY <2>1, <2>3 DEF RiseInv
<1>. QED BY <1>1, <1>2

LEMMA LastRises ==
    ASSUME NEW s \in Seq(Nat), NEW n \in Nat,
           \A i, j \in 1..Len(s) : i < j => s[i] < s[j]
    PROVE  \A i, j \in 1..Len(LastOf(s, n)) : i < j => LastOf(s, n)[i] < LastOf(s, n)[j]
<1>1. PICK l, m : l = LastOf(s, n) /\ m = Least(Len(s), n)
  OBVIOUS
<1>2. /\ m \in Nat /\ m <= Len(s) /\ Len(s) \in Nat
  BY <1>1 DEF Least
<1>3. /\ Len(l) = m
      /\ \A d \in 1..m : l[m - d + 1] = s[Len(s) - d + 1]
  BY <1>1, LastOfIs
<1>4. PICK k \in Nat : k = Len(s)
  BY <1>2
<1>5. ASSUME NEW i \in 1..m PROVE k - m + i \in 1..k /\ l[i] = s[k - m + i]
  <2>1. m - i + 1 \in 1..m /\ m - (m - i + 1) + 1 = i /\ k - (m - i + 1) + 1 = k - m + i
    BY <1>2, <1>4
  <2>2. l[m - (m - i + 1) + 1] = s[k - (m - i + 1) + 1]
    BY <1>3, <1>4, <2>1
  <2>. QED BY <1>2, <1>4, <2>1, <2>2
<1>6. ASSUME NEW i \in 1..m, NEW j \in 1..m, i < j PROVE l[i] < l[j]
  <2>1. k - m + i < k - m + j
    BY <1>2, <1>4, <1>6
  <2>. QED BY <1>4, <1>5, <2>1
<1>. QED BY <1>1, <1>3, <1>6

LEMMA CountRises ==
    ASSUME ConsoleInv, HealInv, RiseInv, NEW t \in ConsoleTasks, Count(t) PROVE RiseInv'
<1>1. CASE overlap
  <2>1. orderly' = <<>>
    BY <1>1 DEF Count
  <2>. QED BY <2>1, EmptyRises
<1>2. CASE ~overlap
  <2>1. Inside = {t}
    <3>1. About(t, "count") /\ "count" \in Within
      BY DEF Count, Within
    <3>. QED BY <1>2, <3>1, SoleIs DEF ConsoleInv, HealInv
  <2>2. PICK q \in Seq(Nat) : /\ q = Append(orderly, lines) /\ Len(q) = Len(orderly) + 1
                              /\ q[Len(orderly) + 1] = lines
                              /\ \A i \in 1..Len(orderly) : q[i] = orderly[i]
    <3>1. orderly \in Seq(Nat) /\ lines \in Nat
      BY DEF ConsoleInv, TodoInv
    <3>2. /\ Append(orderly, lines) \in Seq(Nat) /\ Len(Append(orderly, lines)) = Len(orderly) + 1
          /\ Append(orderly, lines)[Len(orderly) + 1] = lines
          /\ \A i \in 1..Len(orderly) : Append(orderly, lines)[i] = orderly[i]
      BY <3>1, AppendProperties
    <3>. QED BY <3>2
  <2>3. PICK n \in Nat : n = Len(orderly)
    BY DEF ConsoleInv
  <2>4. \A i, j \in 1..n : i < j => orderly[i] < orderly[j]
    BY <2>3 DEF RiseInv
  <2>5. \A i \in 1..n : orderly[i] < lines
    BY <1>2, <2>1, <2>3 DEF RiseInv
  <2>6. ASSUME NEW i \in 1..Len(q), NEW j \in 1..Len(q), i < j PROVE q[i] < q[j]
    <3>1. i \in 1..n
      BY <2>2, <2>3, <2>6
    <3>2. CASE j = n + 1
      BY <2>2, <2>3, <2>5, <3>1, <3>2
    <3>3. CASE j # n + 1
      <4>1. j \in 1..n
        BY <2>2, <2>3, <3>3
      <4>. QED BY <2>2, <2>3, <2>4, <2>6, <3>1, <4>1
    <3>. QED BY <3>2, <3>3
  <2>7. LOG_BUFFER_SIZE \in Nat /\ orderly' = LastOf(q, LOG_BUFFER_SIZE)
    BY <1>2, <2>2, ConsoleAssumption DEF Count
  <2>8. \A i, j \in 1..Len(orderly') : i < j => orderly'[i] < orderly'[j]
    BY <2>6, <2>7, LastRises
  <2>9. ~overlap' => Inside' = {}
    BY CountHeals
  <2>. QED BY <2>8, <2>9 DEF RiseInv
<1>. QED BY <1>1, <1>2

-----------------------------------------------------------------------------
(* Who has a slot is listened for: the count of clients is at least one.   *)
LEMMA TakenAre ==
    ASSUME NEW i \in Places, NEW j \in Places, wsClients[i] # Free, wsClients[j] # Free
    PROVE  Taken >= 1 /\ (i # j => Taken >= 2)
<1>. DEFINE S == {p \in Places : wsClients[p] # Free}
<1>1. IsFiniteSet(S) /\ Taken = Cardinality(S)
  <2>1. IsFiniteSet(Places) /\ S \subseteq Places
    BY PlacesCounted
  <2>. QED BY <2>1, FS_Subset DEF Taken
<1>2. i \in S /\ j \in S
  OBVIOUS
<1>. HIDE DEF S
<1>3. IsFiniteSet({i}) /\ Cardinality({i}) = 1
  BY FS_Singleton
<1>4. Cardinality({i}) <= Cardinality(S) /\ Cardinality(S) \in Nat
  BY <1>1, <1>2, <1>3, FS_Subset, FS_CardinalityType
<1>5. ASSUME i # j PROVE Taken >= 2
  <2>1. IsFiniteSet({i} \cup {j}) /\ Cardinality({i} \cup {j}) = Cardinality({i}) + 1
    BY <1>3, <1>5, FS_AddElement
  <2>2. {i} \cup {j} \subseteq S
    BY <1>2
  <2>3. Cardinality({i} \cup {j}) <= Cardinality(S)
    BY <1>1, <2>2, FS_Subset
  <2>. QED BY <1>1, <1>3, <1>4, <2>1, <2>3
<1>. QED BY <1>1, <1>3, <1>4, <1>5

LEMMA ClaimTakes ==
    ASSUME NEW s \in Sockets, Claims(s) PROVE \E i \in Places : wsClients[i].id = s /\ wsClients[i] # Free
<1>1. Free.id = 255 /\ s # 255
  BY ConsoleAssumption DEF Free
<1>. QED BY <1>1 DEF Claims

LEMMA SettledListened ==
    ASSUME ConsoleInv, CountInv, WebInv, UpInv, ~contended, NEW s \in Sockets, Settled(s)
    PROVE  Listened
<1>. SUFFICES ASSUME ~Listened PROVE FALSE
  OBVIOUS
<1>1. connectedClients = 0
  BY DEF Listened, ConsoleInv, ConsoleTypeOK
<1>2. PICK i \in Places : wsClients[i].id = s /\ wsClients[i] # Free
  BY ClaimTakes DEF Settled
<1>3. Taken \in Nat /\ Taken >= 1
  BY <1>2, TakenAre, TakenBound
<1>4. PICK u \in ConsoleTasks : Changing(u)
  BY <1>1, <1>3 DEF CountInv
<1>5. CASE About(u, "up")
  <2>1. Taken = 0 + 1
    BY <1>1, <1>5 DEF CountInv
  <2>2. u = Web
    <3>1. todo[u] # <<>> /\ Step(u).do = "up"
      BY <1>5 DEF About
    <3>2. Step(u) \in StepsOf(todo[u])
      <4>1. todo[u] \in Seq(StepType) /\ Step(u) = todo[u][1] /\ 1 \in 1..Len(todo[u])
        BY <3>1, EmptySeq DEF ConsoleInv, TodoInv, Step
      <4>. QED BY <4>1 DEF StepsOf
    <3>. QED BY <3>1, <3>2 DEF WebInv, Without
  <2>3. PICK r \in Sockets : Claims(r) /\ On("replay", r) \in Due
    BY <1>5, <2>2 DEF UpInv
  <2>4. r # s
    BY <2>3 DEF Settled, On
  <2>5. PICK j \in Places : wsClients[j].id = r /\ wsClients[j] # Free
    BY <2>3, ClaimTakes
  <2>6. Taken >= 2
    BY <1>2, <2>4, <2>5, TakenAre
  <2>. QED BY <2>1, <2>6
<1>6. CASE About(u, "clear")
  BY <1>1, <1>3, <1>6 DEF CountInv
<1>7. CASE About(u, "down")
  <2>1. Taken = 0 - 1
    BY <1>1, <1>7 DEF CountInv
  <2>. QED BY <1>3, <2>1
<1>. QED BY <1>4, <1>5, <1>6, <1>7 DEF Changing

-----------------------------------------------------------------------------
(* The steps of a callback.  What is due of replays stays so.              *)
LEMMA CallbackGentle ==
    ASSUME ConsoleInv, WebInv, NEW t \in ConsoleTasks, logCallback(t)
    PROVE  Gentle /\ UNCHANGED <<registry, sockets, contended>>
<1>1. /\ todo[t] # <<>> /\ Step(t).do \notin {"replay", "resend"}
      /\ UNCHANGED <<registry, sockets, contended>>
  BY DEF logCallback, StoreHead, StoreText, Format, Send, Advance, TestCount, Count, About, tally
<1>2. CASE Done(t)
  BY <1>1, <1>2, GentleDone
<1>3. CASE Format(t) /\ Listened
  <2>1. PICK x : x = Message
    OBVIOUS
  <2>2. logBuffer[logBufferIndex] \in [head : 0..lines, text : 0..lines] /\ lines \in Nat
    BY DEF ConsoleInv, ConsoleTypeOK, TodoInv
  <2>3. logBuffer[logBufferIndex] \in [head : Nat, text : Nat]
    BY <2>2
  <2>4. x \in StepType /\ x.do = "send"
    BY <2>1, <2>3 DEF StepType, Message
  <2>5. PICK one : one = <<x>>
    OBVIOUS
  <2>6. Tame(one)
    BY <2>4, <2>5, OneTame DEF Welcoming
  <2>7. PutFirst(t, one)
    BY <1>1, <1>3, <2>1, <2>5 DEF Format, PutFirst, Message
  <2>. QED BY <1>1, <2>6, <2>7, GentleStep
<1>. QED BY <1>1, <1>2, <1>3 DEF logCallback, StoreHead, StoreText, Format, Send, Advance, TestCount, Count

LEMMA CallbackOn ==
    ASSUME ConsoleInv, ConsoleInv', WebInv, NEW t \in ConsoleTasks, logCallback(t)
    PROVE  /\ Gentle /\ Replayed' = Replayed /\ contended' = contended /\ open' = open
           /\ UNCHANGED wsClients
           /\ \A s \in Sockets : Settled(s)' => Settled(s)
<1>1. Gentle /\ UNCHANGED <<registry, sockets, contended>>
  BY CallbackGentle
<1>2. Replayed' = Replayed
  BY <1>1, ReplayedIs DEF DueReplays, Gentle, Onward
<1>3. \A s : Claims(s)' <=> Claims(s)
  BY <1>1 DEF registry, Claims, Places
<1>4. \A s \in Sockets : Settled(s)' => Settled(s)
  BY <1>1, <1>3, SettledWas DEF Gentle, sockets
<1>. QED BY <1>1, <1>2, <1>4 DEF registry, sockets

LEMMA HeadReach ==
    ASSUME ConsoleInv, ConsoleInv', WebInv, SeesInv, NEW t \in ConsoleTasks, StoreHead(t)
    PROVE  during' \in Nat /\ InReach'
<1>1. Replayed' = Replayed
  BY CallbackOn DEF logCallback
<1>2. PICK b, r \in Nat : b = LOG_BUFFER_SIZE /\ r = REPLAY /\ 1 <= r /\ r <= b
  BY ConsoleAssumption
<1>3. PICK n \in Nat : n = during
  BY DEF SeesInv
<1>4. /\ during' = IF Replayed = {} THEN 0 ELSE Least(n + 1, b)
      /\ overtaken' = IF during' > b - r THEN overtaken \cup Replayed ELSE overtaken
  BY <1>2, <1>3 DEF StoreHead, Overtaking
<1>5. PICK e \in Nat : e = during'
  BY <1>2, <1>4 DEF Least
<1>6. Replayed' \subseteq overtaken' \/ e + r <= b
  <2>1. CASE e > b - r
    BY <1>1, <1>4, <1>5, <2>1
  <2>2. CASE ~(e > b - r)
    BY <1>2, <2>2
  <2>. QED BY <2>1, <2>2
<1>. QED BY <1>2, <1>5, <1>6 DEF InReach

LEMMA HeadSees ==
    ASSUME ConsoleInv, ConsoleInv', HealInv, WebInv, SeesInv, NEW t \in ConsoleTasks, StoreHead(t)
    PROVE  SeesInv'
<1>1. /\ Gentle /\ Replayed' = Replayed /\ contended' = contended
      /\ \A s \in Sockets : Settled(s)' => Settled(s)
  BY CallbackOn DEF logCallback
<1>2. ASSUME ~contended', ~overlap', NEW s \in Sockets, Settled(s)' PROVE Seen(s)'
  <2>1. Inside = {}
    BY <1>2 DEF StoreHead
  <2>2. /\ Inside' = {t}
        /\ \A u \in ConsoleTasks, what \in {"advance", "test", "count"} : ~About(u, what) /\ ~About(u, what)'
    BY <2>1, HeadHeals
  <2>3. ~Shown' /\ ~Moved /\ ~Moved' /\ UnderWay = 0 /\ UnderWay' = 1
    BY <2>1, <2>2 DEF Shown, Moved, Counting, UnderWay, ConsoleTasks
  <2>4. /\ orderly' = orderly /\ lines' = lines + 1 /\ overlap' = overlap
        /\ missing'[s] = missing[s] \cup {x \in {lines'} : Claims(s)}
        /\ logBufferIndex' = logBufferIndex
    BY <2>1 DEF StoreHead, past
  <2>5. Settled(s) /\ Seen(s)
    BY <1>1, <1>2, <2>4 DEF SeesInv
  <2>6. PICK m, n \in Nat : m = Len(orderly) /\ n = lines
    BY DEF ConsoleInv, TodoInv
  <2>7. ASSUME s \notin overtaken', NEW d \in 1..m, orderly[m - d + 1] \in missing'[s]
        PROVE  d + 1 <= REPLAY + during' /\ Coming(s, d)' \in Due'
    <3>1. orderly[m - d + 1] \in missing[s]
      <4>1. m - d + 1 \in 1..m
        BY <2>6
      <4>2. orderly[m - d + 1] \in 1..lines
        <5>1. orderly \in Seq(1..lines)
          BY DEF ConsoleInv
        <5>. QED BY <2>6, <4>1, <5>1, ElementOfSeq
      <4>3. orderly[m - d + 1] # lines'
        BY <2>4, <2>6, <4>2
      <4>. QED BY <2>4, <2>7, <4>3
    <3>2. s \notin overtaken
      BY <2>7 DEF StoreHead
    <3>3. d + 0 <= REPLAY + during /\ Coming(s, d) \in Due
      BY <2>3, <2>5, <2>6, <3>1, <3>2 DEF Seen, Awaited
    <3>4. s \in Replayed
      <4>1. s \in DueReplays
        BY <3>3 DEF DueReplays, Coming
      <4>. QED BY <4>1, ReplayedIs
    <3>5. PICK b, r \in Nat : b = LOG_BUFFER_SIZE /\ r = REPLAY /\ 1 <= r /\ r <= b
      BY ConsoleAssumption
    <3>6. PICK e \in Nat : e = during
      BY DEF SeesInv
    <3>7. during' = Least(e + 1, b)
      BY <3>4, <3>5, <3>6 DEF StoreHead
    <3>8. ~(during' > b - r)
      BY <2>7, <3>4, <3>5 DEF StoreHead, Overtaking
    <3>9. during' = e + 1
      BY <3>5, <3>7, <3>8 DEF Least
    <3>10. d + 1 <= REPLAY + during'
      BY <3>3, <3>5, <3>6, <3>9
    <3>11. Coming(s, d)' = Coming(s, d)
      BY <2>3, <2>4, ComingKept
    <3>12. Coming(s, d)' \in Due'
      BY <1>1, <3>3, <3>11 DEF Gentle, Onward, Coming
    <3>. QED BY <3>10, <3>12
  <2>8. s \notin overtaken' => Awaited(s)'
    <3>. SUFFICES ASSUME s \notin overtaken' PROVE Awaited(s)'
      OBVIOUS
    <3>1. \A d \in 1..Len(orderly') : orderly'[Len(orderly') - d + 1] \in missing'[s] =>
             d + UnderWay' <= REPLAY + during' /\ Coming(s, d)' \in Due'
      BY <2>3, <2>4, <2>6, <2>7
    <3>. QED BY <3>1 DEF Awaited, Coming, Depth, Back
  <2>. QED BY <2>3, <2>8 DEF Seen
<1>. QED BY <1>2, HeadReach DEF SeesInv

LEMMA Solo ==
    ASSUME ConsoleInv, HealInv, ~overlap, NEW t \in ConsoleTasks, OnlyOf(t),
           NEW what \in Within \cup {"send"}, About(t, what), NEW next, About(t, next)'
    PROVE  /\ Inside = {t}
           /\ Shown <=> what \in {"advance", "test", "count"}
           /\ Moved <=> what \in {"test", "count"}
           /\ Shown' <=> next \in {"advance", "test", "count"}
           /\ Moved' <=> next \in {"test", "count"}
<1>1. Inside = {t} /\ \A u \in ConsoleTasks \ {t} : Idle(u)
  BY SoleIs DEF ConsoleInv, HealInv
<1>2. \A u \in ConsoleTasks \ {t} : Idle(u)'
  BY <1>1, IdleKept
<1>3. \A u \in ConsoleTasks \ {t}, other \in {"advance", "test", "count"} :
         ~About(u, other) /\ ~About(u, other)'
  BY <1>1, <1>2 DEF Idle, Within
<1>4. \A other : /\ About(t, other) <=> other = what
                 /\ About(t, other)' <=> other = next
  BY DEF About
<1>. QED BY <1>1, <1>3, <1>4 DEF Shown, Moved, Counting, ConsoleTasks

(* A step that begins no line and ends none: what a client is to get is    *)
(* not more, and stays to come.                                            *)
LEMMA MidSees ==
    ASSUME ConsoleInv, ConsoleInv', WebInv, SeesInv, NEW t \in ConsoleTasks, logCallback(t),
           UNCHANGED <<past, during, overtaken>>, Inside' = Inside,
           \A s \in Sockets : missing'[s] \subseteq missing[s],
           ~overlap => \A s \in Sockets : (Settled(s) /\ ~contended /\ Seen(s)) =>
              /\ Shown' => lines' \notin missing'[s]
              /\ \A d \in 1..Len(orderly) :
                    (s \notin overtaken /\ orderly[Len(orderly) - d + 1] \in missing[s])
                        => Coming(s, d)' = Coming(s, d)
    PROVE  SeesInv'
<1>1. /\ Gentle /\ Replayed' = Replayed /\ contended' = contended
      /\ \A s \in Sockets : Settled(s)' => Settled(s)
  BY CallbackOn
<1>2. orderly' = orderly /\ overlap' = overlap /\ UnderWay' = UnderWay
  BY DEF past, UnderWay
<1>3. ASSUME ~contended', ~overlap', NEW s \in Sockets, Settled(s)' PROVE Seen(s)'
  <2>1. Settled(s) /\ Seen(s)
    BY <1>1, <1>2, <1>3 DEF SeesInv
  <2>2. /\ Shown' => lines' \notin missing'[s]
        /\ \A d \in 1..Len(orderly) :
              (s \notin overtaken /\ orderly[Len(orderly) - d + 1] \in missing[s])
                  => Coming(s, d)' = Coming(s, d)
    BY <1>1, <1>2, <1>3, <2>1
  <2>3. ASSUME s \notin overtaken PROVE Awaited(s)'
    <3>1. \A d \in 1..Len(orderly) :
              orderly[Len(orderly) - d + 1] \in missing'[s] /\ Coming(s, d) \in Due
                  => Coming(s, d)' \in Due'
      <4>1. \A d : Coming(s, d).do = "resend"
        BY DEF Coming
      <4>. QED BY <1>1, <2>2, <2>3, <4>1 DEF Gentle, Onward
    <3>. QED BY <1>2, <2>1, <2>3, <3>1, AwaitedKept DEF Seen
  <2>. QED BY <2>2, <2>3 DEF Seen
<1>4. InReach'
  BY <1>1 DEF SeesInv, InReach
<1>. QED BY <1>3, <1>4 DEF SeesInv

LEMMA TextSees ==
    ASSUME ConsoleInv, ConsoleInv', HealInv, WebInv, SeesInv, NEW t \in ConsoleTasks, StoreText(t)
    PROVE  SeesInv'
<1>1. Inside' = Inside
  BY TextHeals
<1>2. About(t, "text") /\ Done(t) /\ UNCHANGED <<past, during, overtaken, missing, logBufferIndex>>
  BY DEF StoreText, viewers
<1>3. OnlyOf(t) /\ About(t, "format")'
  BY <1>2, DoneMoves DEF Next1
<1>4. ~overlap => ~Shown' /\ ~Moved /\ ~Moved'
  <2>. SUFFICES ASSUME ~overlap PROVE ~Shown' /\ ~Moved /\ ~Moved'
    OBVIOUS
  <2>1. "text" \in Within \cup {"send"}
    BY DEF Within
  <2>. QED BY <1>2, <1>3, <2>1, Solo
<1>5. ~overlap => \A s, d : Coming(s, d)' = Coming(s, d)
  BY <1>2, <1>4, ComingKept
<1>. QED BY <1>1, <1>2, <1>4, <1>5, MidSees DEF logCallback

LEMMA FormatSees ==
    ASSUME ConsoleInv, ConsoleInv', CountInv, HealInv, WebInv, UpInv, SeesInv,
           NEW t \in ConsoleTasks, Format(t)
    PROVE  SeesInv'
<1>1. Inside' = Inside
  BY FormatHeals
<1>2. About(t, "format") /\ UNCHANGED <<past, during, overtaken, missing, logBufferIndex>>
  BY DEF Format, viewers, ring
<1>3. OnlyOf(t) /\ \/ About(t, "send")' /\ Listened
                   \/ About(t, "advance")' /\ ~Listened
  <2>1. CASE Listened
    BY <2>1, SendPut
  <2>2. CASE ~Listened
    <3>1. Done(t)
      BY <2>2 DEF Format
    <3>2. OnlyOf(t) /\ About(t, "advance")'
      BY <1>2, <3>1, DoneMoves DEF Next1
    <3>. QED BY <2>2, <3>2
  <2>. QED BY <2>1, <2>2
<1>4. ~overlap => ~Moved /\ ~Moved' /\ (Shown' => ~Listened)
  <2>. SUFFICES ASSUME ~overlap PROVE ~Moved /\ ~Moved' /\ (Shown' => ~Listened)
    OBVIOUS
  <2>1. "format" \in Within \cup {"send"}
    BY DEF Within
  <2>2. CASE About(t, "send")' /\ Listened
    BY <1>2, <1>3, <2>1, <2>2, Solo
  <2>3. CASE About(t, "advance")' /\ ~Listened
    BY <1>2, <1>3, <2>1, <2>3, Solo
  <2>. QED BY <1>3, <2>2, <2>3
<1>5. ~overlap => \A s, d : Coming(s, d)' = Coming(s, d)
  BY <1>2, <1>4, ComingKept
<1>6. \A s \in Sockets : Settled(s) /\ ~contended => Listened
  BY SettledListened
<1>. QED BY <1>1, <1>2, <1>4, <1>5, <1>6, MidSees DEF logCallback

LEMMA StepAmong ==
    ASSUME ConsoleInv, NEW t \in ConsoleTasks, todo[t] # <<>>
    PROVE  Step(t) \in StepsOf(todo[t])
<1>1. todo[t] \in Seq(StepType) /\ Step(t) = todo[t][1] /\ 1 \in 1..Len(todo[t])
  BY EmptySeq DEF ConsoleInv, TodoInv, Step
<1>. QED BY <1>1 DEF StepsOf

LEMMA SendSees ==
    ASSUME ConsoleInv, ConsoleInv', HealInv, WebInv, SeesInv, NEW t \in ConsoleTasks, Send(t)
    PROVE  SeesInv'
<1>1. Inside' = Inside
  BY SendHeals
<1>2. /\ About(t, "send") /\ todo[t] # <<>> /\ Done(t)
      /\ UNCHANGED <<lines, past, during, overtaken, logBufferIndex>>
      /\ missing' = [s \in Sockets |->
                        IF s \in open THEN Show(Step(t).entry, s) ELSE missing[s]]
  BY DEF Send, About, ring
<1>3. OnlyOf(t) /\ About(t, "advance")'
  BY <1>2, DoneMoves DEF Next1
<1>4. ~overlap => ~Moved /\ ~Moved'
  <2>. SUFFICES ASSUME ~overlap PROVE ~Moved /\ ~Moved'
    OBVIOUS
  <2>. QED BY <1>2, <1>3, Solo
<1>5. ~overlap => \A s, d : Coming(s, d)' = Coming(s, d)
  BY <1>2, <1>4, ComingKept
<1>6. \A s \in Sockets : missing'[s] \subseteq missing[s]
  BY <1>2 DEF Show
<1>7. ~overlap => \A s \in Sockets : Settled(s) => lines \notin missing'[s]
  <2>. SUFFICES ASSUME ~overlap, NEW s \in Sockets, Settled(s) PROVE lines \notin missing'[s]
    OBVIOUS
  <2>1. InSlot(t) /\ Step(t) \in StepsOf(todo[t]) /\ Step(t).do = "send"
    BY <1>2, StepAmong DEF HealInv, RingInv, About
  <2>2. Step(t).entry = AsOne(lines)
    BY <2>1 DEF InSlot
  <2>3. Show(Step(t).entry, s) = missing[s] \ {lines}
    BY <2>2 DEF Show, AsOne
  <2>. QED BY <1>2, <2>3 DEF Settled
<1>. QED BY <1>1, <1>2, <1>5, <1>6, <1>7, MidSees DEF logCallback

(* No client's missing line is as far back as the slot that is next.       *)
LEMMA Reached ==
    ASSUME ConsoleInv, ConsoleInv', SeesInv, NEW s \in Sockets, s \notin overtaken,
           NEW d \in 1..Len(orderly), d + UnderWay <= REPLAY + during, Coming(s, d) \in Due
    PROVE  d + UnderWay <= LOG_BUFFER_SIZE
<1>1. s \in Replayed
  <2>1. s \in DueReplays
    BY DEF DueReplays, Coming
  <2>. QED BY <2>1, ReplayedIs
<1>2. during + REPLAY <= LOG_BUFFER_SIZE
  BY <1>1 DEF SeesInv, InReach
<1>3. PICK b, r, e, n \in Nat : b = LOG_BUFFER_SIZE /\ r = REPLAY /\ e = during /\ n = Len(orderly)
  <2>1. LOG_BUFFER_SIZE \in Nat /\ REPLAY \in Nat
    BY ConsoleAssumption
  <2>2. during \in Nat
    BY DEF SeesInv
  <2>3. Len(orderly) \in Nat
    BY DEF ConsoleInv
  <2>. QED BY <2>1, <2>2, <2>3
<1>4. UnderWay \in Nat
  BY DEF UnderWay
<1>. QED BY <1>2, <1>3, <1>4

LEMMA AdvanceSees ==
    ASSUME ConsoleInv, ConsoleInv', HealInv, WebInv, SeesInv, NEW t \in ConsoleTasks, Advance(t)
    PROVE  SeesInv'
<1>1. Inside' = Inside
  BY AdvanceHeals
<1>2. /\ About(t, "advance") /\ Done(t)
      /\ UNCHANGED <<lines, past, during, overtaken, missing>>
      /\ logBufferIndex' = (local[t] + 1) % LOG_BUFFER_SIZE
  BY DEF Advance, Advanced, viewers
<1>3. OnlyOf(t) /\ About(t, "test")'
  BY <1>2, DoneMoves DEF Next1
<1>4. ASSUME ~overlap PROVE Inside = {t} /\ Shown /\ ~Moved /\ Moved'
  <2>1. "advance" \in Within \cup {"send"}
    BY DEF Within
  <2>. QED BY <1>2, <1>3, <1>4, <2>1, Solo
<1>5. ASSUME ~overlap, NEW s \in Sockets, Settled(s), ~contended, Seen(s), s \notin overtaken,
             NEW d \in 1..Len(orderly), orderly[Len(orderly) - d + 1] \in missing[s]
      PROVE  Coming(s, d)' = Coming(s, d)
  <2>1. d + UnderWay <= LOG_BUFFER_SIZE
    BY <1>5, Reached DEF Seen, Awaited
  <2>2. UnderWay = 1
    BY <1>4, <1>5 DEF UnderWay
  <2>3. logBufferIndex' = (logBufferIndex + 1) % LOG_BUFFER_SIZE
    BY <1>2, <1>5 DEF HealInv, RingInv, InSlot
  <2>4. PICK e \in 1..LOG_BUFFER_SIZE : e = d + 1 /\ e # 1 /\ e - 1 = d
    <3>1. LOG_BUFFER_SIZE \in Nat /\ d \in Nat /\ d >= 1
      BY ConsoleAssumption
    <3>. QED BY <2>1, <2>2, <3>1
  <2>5. Back(e)' = Back(d)
    BY <2>3, <2>4, BackMoved DEF ConsoleInv, ConsoleTypeOK
  <2>6. Depth(d)' = Back(d + 1)' /\ Depth(d) = Back(d)
    <3>1. d + 0 = d
      OBVIOUS
    <3>. QED BY <1>4, <1>5, <3>1 DEF Depth, Back
  <2>. QED BY <2>4, <2>5, <2>6 DEF Coming, Back
<1>6. ASSUME ~overlap, NEW s \in Sockets, Seen(s) PROVE lines' \notin missing'[s]
  BY <1>2, <1>4, <1>6 DEF Seen
<1>. QED BY <1>1, <1>2, <1>5, <1>6, MidSees DEF logCallback

LEMMA TestSees ==
    ASSUME ConsoleInv, ConsoleInv', HealInv, WebInv, SeesInv, NEW t \in ConsoleTasks, TestCount(t)
    PROVE  SeesInv'
<1>1. Inside' = Inside
  BY TestHeals
<1>2. /\ About(t, "test") /\ Done(t)
      /\ UNCHANGED <<lines, past, during, overtaken, missing, logBufferIndex>>
  BY DEF TestCount, viewers, ring
<1>3. OnlyOf(t) /\ About(t, "count")'
  BY <1>2, DoneMoves DEF Next1
<1>4. ASSUME ~overlap PROVE Shown /\ Moved /\ Moved'
  <2>1. "test" \in Within \cup {"send"}
    BY DEF Within
  <2>. QED BY <1>2, <1>3, <1>4, <2>1, Solo
<1>5. ~overlap => \A s, d : Coming(s, d)' = Coming(s, d)
  BY <1>2, <1>4, ComingKept
<1>6. ASSUME ~overlap, NEW s \in Sockets, Seen(s) PROVE lines' \notin missing'[s]
  BY <1>2, <1>4, <1>6 DEF Seen
<1>. QED BY <1>1, <1>2, <1>5, <1>6, MidSees DEF logCallback

-----------------------------------------------------------------------------
(* A line is over: it is the last of those in order, and not missing.      *)
LEMMA CountSees ==
    ASSUME ConsoleInv, ConsoleInv', HealInv, WebInv, SeesInv, NEW t \in ConsoleTasks, Count(t)
    PROVE  SeesInv'
<1>1. /\ Gentle /\ Replayed' = Replayed /\ contended' = contended
      /\ \A s \in Sockets : Settled(s)' => Settled(s)
  BY CallbackOn DEF logCallback
<1>2. /\ About(t, "count") /\ UNCHANGED <<lines, missing, during, overtaken, logBufferIndex>>
      /\ overlap' = (overlap /\ (Inside # {t} \/ Begun(t) > 1))
      /\ orderly' = IF overlap THEN <<>> ELSE LastOf(Append(orderly, lines), LOG_BUFFER_SIZE)
  BY DEF Count, viewers
<1>3. InReach'
  BY <1>1, <1>2 DEF SeesInv, InReach
<1>4. ASSUME ~overlap' PROVE ~Shown' /\ ~Moved' /\ UnderWay' = 0
  <2>1. Inside' = {} /\ \A u \in ConsoleTasks : Idle(u)'
    BY <1>4, CountHeals
  <2>. QED BY <2>1 DEF Shown, Moved, Counting, UnderWay, Idle, Within, ConsoleTasks
<1>5. ASSUME ~contended', ~overlap', overlap, NEW s \in Sockets PROVE Seen(s)'
  <2>1. PICK q : q = orderly' /\ \A d \in 1..Len(q) : FALSE
    <3>1. PICK q : q = <<>>
      OBVIOUS
    <3>2. \A d \in 1..Len(q) : FALSE
      BY <3>1
    <3>. QED BY <1>2, <1>5, <3>1, <3>2
  <2>. QED BY <1>4, <1>5, <2>1 DEF Seen, Awaited
<1>6. ASSUME ~contended', ~overlap', ~overlap, NEW s \in Sockets, Settled(s)' PROVE Seen(s)'
  <2>1. Settled(s) /\ Seen(s)
    BY <1>1, <1>6 DEF SeesInv
  <2>2. "count" \in Within \cup {"send"}
    BY DEF Within
  <2>3. Inside = {t} /\ Moved /\ Shown
    <3>1. Inside = {t}
      BY <1>2, <1>6, <2>2, SoleIs DEF ConsoleInv, HealInv
    <3>. QED BY <1>2, <3>1 DEF Moved, Counting, Shown
  <2>4. UnderWay = 1 /\ lines \notin missing[s]
    BY <2>1, <2>3 DEF UnderWay, Seen
  <2>5. PICK n, b \in Nat : n = Len(orderly) /\ b = LOG_BUFFER_SIZE
    BY ConsoleAssumption DEF ConsoleInv
  <2>6. PICK q \in Seq(Nat) : /\ q = Append(orderly, lines) /\ Len(q) = n + 1
                              /\ q[n + 1] = lines /\ \A i \in 1..n : q[i] = orderly[i]
    <3>1. orderly \in Seq(Nat) /\ lines \in Nat
      BY DEF ConsoleInv, TodoInv
    <3>2. /\ Append(orderly, lines) \in Seq(Nat) /\ Len(Append(orderly, lines)) = Len(orderly) + 1
          /\ Append(orderly, lines)[Len(orderly) + 1] = lines
          /\ \A i \in 1..Len(orderly) : Append(orderly, lines)[i] = orderly[i]
      BY <3>1, AppendProperties
    <3>. QED BY <2>5, <3>2
  <2>7. PICK m \in Nat : m = Least(Len(q), b) /\ m <= n + 1
    BY <2>6 DEF Least
  <2>8. /\ Len(orderly') = m
        /\ \A d \in 1..m : orderly'[m - d + 1] = q[(n + 1) - d + 1]
    <3>1. orderly' = LastOf(q, b)
      BY <1>2, <1>6, <2>5, <2>6
    <3>2. /\ Len(LastOf(q, b)) = m
          /\ \A d \in 1..m : LastOf(q, b)[m - d + 1] = q[Len(q) - d + 1]
      BY <2>7, LastOfIs
    <3>. QED BY <2>6, <3>1, <3>2
  <2>9. ASSUME s \notin overtaken, NEW d \in 1..m, q[(n + 1) - d + 1] \in missing[s]
        PROVE  d + 0 <= REPLAY + during /\ Coming(s, d)' \in Due'
    <3>1. d # 1
      <4>. SUFFICES ASSUME d = 1 PROVE FALSE
        OBVIOUS
      <4>1. (n + 1) - 1 + 1 = n + 1
        OBVIOUS
      <4>. QED BY <2>4, <2>6, <2>9, <4>1
    <3>2. PICK e \in 1..n : e = d - 1 /\ e + 1 = d /\ (n + 1) - d + 1 = n - e + 1
      BY <2>7, <3>1
    <3>3. n - e + 1 \in 1..n
      OBVIOUS
    <3>4. orderly[n - e + 1] \in missing[s]
      BY <2>6, <2>9, <3>2, <3>3
    <3>5. e + UnderWay <= REPLAY + during /\ Coming(s, e) \in Due
      BY <2>1, <2>5, <2>9, <3>4 DEF Seen, Awaited
    <3>6. d + 0 <= REPLAY + during
      <4>1. d + 0 = e + UnderWay
        BY <2>4, <3>2
      <4>. QED BY <3>5, <4>1
    <3>7. Coming(s, d)' = Coming(s, e)
      <4>1. Depth(d)' = Back(d + 0)' /\ Depth(e) = Back(e + 1)
        BY <1>4, <1>6, <2>3 DEF Depth, Back
      <4>2. d + 0 = e + 1
        BY <3>2
      <4>. QED BY <1>2, <4>1, <4>2 DEF Coming, Back
    <3>. QED BY <1>1, <3>5, <3>6, <3>7 DEF Gentle, Onward, Coming
  <2>10. s \notin overtaken' => Awaited(s)'
    <3>. SUFFICES ASSUME s \notin overtaken' PROVE Awaited(s)'
      OBVIOUS
    <3>1. \A d \in 1..Len(orderly') : orderly'[Len(orderly') - d + 1] \in missing'[s] =>
             d + UnderWay' <= REPLAY + during' /\ Coming(s, d)' \in Due'
      BY <1>2, <1>4, <1>6, <2>8, <2>9
    <3>. QED BY <3>1 DEF Awaited, Coming, Depth, Back
  <2>. QED BY <1>4, <1>6, <2>10 DEF Seen
<1>7. ASSUME ~contended', ~overlap', NEW s \in Sockets, Settled(s)' PROVE Seen(s)'
  BY <1>5, <1>6, <1>7
<1>. QED BY <1>2, <1>3, <1>7 DEF SeesInv

-----------------------------------------------------------------------------
(* An entry is sent again: if it is the one that is awaited of a line, its *)
(* slot still holds the line.                                              *)
LEMMA SlotHolds ==
    ASSUME ConsoleInv, HealInv, ~overlap, NEW d \in 1..Len(orderly),
           d + UnderWay <= LOG_BUFFER_SIZE
    PROVE  logBuffer[Depth(d)] = AsOne(orderly[Len(orderly) - d + 1])
<1>1. PICK n, b \in Nat : n = Len(orderly) /\ b = LOG_BUFFER_SIZE /\ b >= 1
  BY ConsoleAssumption DEF ConsoleInv
<1>2. d \in 1..n
  BY <1>1
<1>3. CASE Inside = {}
  <2>1. ~Moved
    <3>1. \A u \in ConsoleTasks : Idle(u)
      BY <1>3, IdleIs DEF ConsoleInv, HealInv
    <3>. QED BY <3>1 DEF Moved, Counting, Idle, Within
  <2>2. d + 0 = d
    BY <1>2
  <2>3. Placed(orderly, Len(orderly))
    BY <1>3 DEF HealInv, RingInv
  <2>. QED BY <2>1, <2>2, <2>3 DEF Placed, Depth
<1>4. CASE Inside # {}
  <2>1. UnderWay = 1 /\ d + 1 <= b
    BY <1>1, <1>4 DEF UnderWay
  <2>2. CASE ~Moved
    <3>1. PICK u \in ConsoleTasks : Begun(u) > 0
      BY <1>4 DEF Inside
    <3>2. Begun(u) # 0 /\ ~Counting(u)
      BY <2>2, <3>1 DEF Moved
    <3>3. Placed(orderly, Least(Len(orderly), LOG_BUFFER_SIZE - 1))
      BY <3>2 DEF HealInv, RingInv, Behind
    <3>4. d \in 1..Least(n, b - 1)
      BY <1>1, <1>2, <2>1 DEF Least
    <3>5. d + 0 = d
      BY <1>2
    <3>. QED BY <1>1, <2>2, <3>3, <3>4, <3>5 DEF Placed, Depth
  <2>3. CASE Moved
    <3>1. PICK u \in ConsoleTasks : Counting(u)
      BY <2>3 DEF Moved
    <3>2. Placed(Append(orderly, lines), Least(Len(orderly) + 1, LOG_BUFFER_SIZE))
      BY <3>1 DEF HealInv, RingInv, Behind
    <3>3. PICK q : /\ q = Append(orderly, lines) /\ Len(q) = n + 1
                   /\ \A i \in 1..n : q[i] = orderly[i]
      <4>1. orderly \in Seq(Nat) /\ lines \in Nat
        BY DEF ConsoleInv, TodoInv
      <4>2. /\ Len(Append(orderly, lines)) = Len(orderly) + 1
            /\ \A i \in 1..Len(orderly) : Append(orderly, lines)[i] = orderly[i]
        BY <4>1, AppendProperties
      <4>. QED BY <1>1, <4>2
    <3>4. d + 1 \in 1..Least(n + 1, b)
      BY <1>1, <1>2, <2>1 DEF Least
    <3>5. logBuffer[Back(d + 1)] = AsOne(q[(n + 1) - (d + 1) + 1])
      BY <1>1, <3>2, <3>3, <3>4 DEF Placed
    <3>6. (n + 1) - (d + 1) + 1 = n - d + 1 /\ n - d + 1 \in 1..n
      BY <1>2
    <3>. QED BY <1>1, <2>3, <3>3, <3>5, <3>6 DEF Depth
  <2>. QED BY <2>2, <2>3
<1>. QED BY <1>3, <1>4

LEMMA ResendSees ==
    ASSUME ConsoleInv, ConsoleInv', HealInv, WebInv, UpInv, CountInv, SeesInv,
           NEW t \in ConsoleTasks, Resend(t)
    PROVE  WebInv' /\ UpInv' /\ SeesInv'
<1>1. PICK x, s0 : x = Step(t) /\ s0 = x.socket /\ x.do = "resend"
  BY DEF Resend, About
<1>2. /\ todo[t] # <<>> /\ Done(t)
      /\ UNCHANGED <<lines, ring, registry, sockets, during, overtaken, past, contended>>
      /\ missing' = IF s0 \notin open THEN missing
                    ELSE [missing EXCEPT ![s0] = Show(logBuffer[x.index], s0)]
  BY <1>1 DEF Resend, About, tally
<1>3. t = Web
  BY <1>1, <1>2, StepAmong DEF WebInv, Without, Welcoming
<1>4. PICK none : none = <<>>
  OBVIOUS
<1>5. Tame(none) /\ PutFirst(t, none)
  BY <1>2, <1>4, NoneTame DEF Done, PutFirst
<1>6. /\ WebInv'
      /\ \A y \in Due' : y.do \in Welcoming => y \in Due
      /\ \A y \in Due : y.do \in Welcoming => y \in Due' \/ y = x
  BY <1>1, <1>5, WebKept DEF Tame
<1>7. UpInv'
  <2>1. ~About(Web, "up")
    BY <1>1, <1>3 DEF About
  <2>2. ~About(Web, "up")'
    BY <1>3, <1>5, <2>1, UpNotMade
  <2>. QED BY <2>2 DEF UpInv
<1>8. /\ lines' = lines /\ orderly' = orderly /\ overlap' = overlap
      /\ logBufferIndex' = logBufferIndex /\ open' = open /\ wsClients' = wsClients
  BY <1>2 DEF ring, registry, sockets, past
<1>9. (Shown' <=> Shown) /\ (Moved' <=> Moved) /\ UnderWay' = UnderWay
  <2>1. OuterStep(t)
    BY OuterResend
  <2>. QED BY <2>1, OuterHeals, OuterShows DEF OuterStep
<1>10. InReach'
  <2>1. Replayed' \subseteq Replayed
    BY <1>6, ReplayedIs DEF DueReplays, Welcoming
  <2>. QED BY <1>2, <2>1 DEF SeesInv, InReach
<1>11. \A s \in Sockets : missing'[s] \subseteq missing[s]
  <2>1. missing \in [Sockets -> SUBSET (1..lines)]
    BY DEF ConsoleInv, ConsoleTypeOK
  <2>. QED BY <1>2, <2>1 DEF Show
<1>12. ASSUME ~contended', ~overlap', NEW s \in Sockets, Settled(s)' PROVE Seen(s)'
  <2>1. Settled(s)
    <3>1. \A y \in Due : y.do \in {"add", "replay"} => y \in Due'
      BY <1>1, <1>6 DEF Welcoming
    <3>. QED BY <1>8, <1>12, <3>1 DEF Settled, Claims, Places
  <2>2. Seen(s)
    BY <1>2, <1>8, <1>12, <2>1 DEF SeesInv
  <2>3. ASSUME s \notin overtaken PROVE Awaited(s)'
    <3>1. ASSUME NEW d \in 1..Len(orderly), orderly[Len(orderly) - d + 1] \in missing'[s],
                 Coming(s, d) \in Due
          PROVE  Coming(s, d)' \in Due'
      <4>1. Coming(s, d)' = Coming(s, d) /\ Coming(s, d).do = "resend"
        BY <1>8, <1>9, ComingKept DEF Coming
      <4>2. Coming(s, d) # x
        <5>. SUFFICES ASSUME Coming(s, d) = x PROVE FALSE
          OBVIOUS
        <5>1. x.index = Depth(d) /\ s = s0
          BY <1>1 DEF Coming
        <5>2. d + UnderWay <= REPLAY + during
          BY <1>11, <2>2, <2>3, <3>1 DEF Seen, Awaited
        <5>3. d + UnderWay <= LOG_BUFFER_SIZE
          BY <2>3, <3>1, <5>2, Reached
        <5>4. logBuffer[x.index] = AsOne(orderly[Len(orderly) - d + 1])
          BY <1>8, <1>12, <5>1, <5>3, SlotHolds
        <5>5. Show(logBuffer[x.index], s) = missing[s] \ {orderly[Len(orderly) - d + 1]}
          BY <5>4 DEF Show, AsOne
        <5>6. s \in open /\ missing \in [Sockets -> SUBSET (1..lines)]
          BY <2>1 DEF Settled, ConsoleInv, ConsoleTypeOK
        <5>7. missing'[s] = Show(logBuffer[x.index], s)
          BY <1>2, <5>1, <5>6
        <5>. QED BY <3>1, <5>5, <5>7
      <4>. QED BY <1>6, <3>1, <4>1, <4>2 DEF Welcoming
    <3>. QED BY <1>2, <1>8, <1>9, <1>11, <2>2, <2>3, <3>1, AwaitedKept DEF Seen
  <2>. QED BY <1>2, <1>8, <1>9, <1>11, <2>2, <2>3 DEF Seen
<1>. QED BY <1>2, <1>6, <1>7, <1>10, <1>12 DEF SeesInv

-----------------------------------------------------------------------------
(* A client comes: its slot and its replay are due, and nothing else is.   *)
LEMMA WelcomeProper ==
    ASSUME NEW s \in Sockets, NEW a \in Addresses
    PROVE  /\ Welcome(s, a) \in Seq(StepType) /\ Proper(Welcome(s, a))
           /\ Without(Welcome(s, a), {"resend"})
<1>1. PICK q : q = Welcome(s, a)
  OBVIOUS
<1>2. PICK m \in Nat :
         /\ q \in Seq(StepType) /\ Len(q) = m + 2
         /\ q[1] = [do |-> "add", socket |-> s, ip |-> a] /\ q[m + 2] = On("replay", s)
         /\ \A i \in 1..m : q[i + 1] = VisitOf(i, s, a)
  BY <1>1, WelcomeShape
<1>3. \A k \in 1..Len(q) : k = 1 \/ k = m + 2 \/ (k - 1 \in 1..m /\ (k - 1) + 1 = k)
  BY <1>2
<1>4. \A k \in 1..Len(q) : \/ k = 1 /\ q[k].do = "add" /\ q[k].socket = s
                           \/ k = Len(q) /\ q[k].do = "replay"
                           \/ q[k].do = "visit"
  <2>1. ASSUME NEW k \in 1..Len(q), k - 1 \in 1..m, (k - 1) + 1 = k PROVE q[k].do = "visit"
    <3>1. q[k] = VisitOf(k - 1, s, a)
      BY <1>2, <2>1
    <3>. QED BY <3>1 DEF VisitOf
  <2>2. q[1].do = "add" /\ q[1].socket = s
    BY <1>2
  <2>3. q[m + 2].do = "replay"
    BY <1>2 DEF On
  <2>. QED BY ONLY <1>2, <1>3, <2>1, <2>2, <2>3
<1>5. On("replay", s) \in StepsOf(q)
  <2>1. m + 2 \in 1..Len(q)
    BY <1>2
  <2>. QED BY <1>2, <2>1 DEF StepsOf
<1>6. Proper(q)
  <2>1. \A x \in StepsOf(q) : x.do = "add" => x.socket = s
    BY <1>4 DEF StepsOf
  <2>2. \A k \in 1..Len(q) : q[k].do = "replay" => k = Len(q)
    BY <1>4
  <2>3. \A x \in StepsOf(q) : x.do # "resend"
    BY <1>4 DEF StepsOf
  <2>. QED BY <1>5, <2>1, <2>2, <2>3 DEF Proper
<1>7. Without(q, {"resend"})
  BY <1>4 DEF Without, StepsOf
<1>. QED BY <1>1, <1>2, <1>6, <1>7

LEMMA AcceptSees ==
    ASSUME ConsoleInv, ConsoleInv', HealInv, WebInv, UpInv, SeesInv,
           NEW s0 \in Sockets, NEW a \in Addresses, Accept(s0, a)
    PROVE  WebInv' /\ UpInv' /\ SeesInv'
<1>1. PICK line \in Line :
          todo' = [todo EXCEPT ![Web] =
                       line \o IF Refused(a) THEN <<On("disconnect", s0)>> ELSE Welcome(s0, a)]
  BY DEF Accept
<1>2. /\ todo[Web] = <<>> /\ Web \in ConsoleTasks
      /\ open' = open \cup {s0} /\ missing' = [missing EXCEPT ![s0] = {}]
      /\ UNCHANGED <<lines, ring, registry, during, overtaken, past, contended>>
  BY DEF Accept, ConsoleTasks
<1>3. PICK others : others = IF Refused(a) THEN <<On("disconnect", s0)>> ELSE Welcome(s0, a)
  OBVIOUS
<1>4. others \in Seq(StepType) /\ Proper(others) /\ Without(others, {"resend"})
  <2>1. CASE Refused(a)
    <3>1. PICK x \in StepType : x = On("disconnect", s0) /\ x.do = "disconnect"
      BY StepKinds
    <3>2. Tame(<<x>>)
      BY <3>1, OneTame DEF Welcoming
    <3>3. Tame(others)
      BY <1>3, <2>1, <3>1, <3>2
    <3>. QED BY <3>3, WithoutProper DEF Tame, Without, Welcoming
  <2>2. CASE ~Refused(a)
    BY <1>3, <2>2, WelcomeProper
  <2>. QED BY <2>1, <2>2
<1>5. PICK q : q = line \o others
  OBVIOUS
<1>6. Tame(line)
  BY LineTame
<1>7. /\ q \in Seq(StepType) /\ Proper(q) /\ Without(q, {"resend"})
  BY <1>4, <1>5, <1>6, ProperCat, StepsOfCat DEF Tame, Without, Welcoming
<1>8. todo' = [todo EXCEPT ![Web] = q]
  BY <1>1, <1>3, <1>5
<1>9. todo'[Web] = q /\ \A u \in ConsoleTasks \ {Web} : todo'[u] = todo[u]
  BY <1>2, <1>8 DEF ConsoleInv, TodoInv
<1>10. WebInv'
  <2>1. /\ Proper(todo'[Web])
        /\ \A u \in ConsoleTasks \ {Web} :
              Without(todo'[u], Welcoming) /\ Without(todo'[u], {"up"})
    BY <1>7, <1>9 DEF WebInv
  <2>. QED BY <2>1 DEF WebInv, ConsoleTasks, Without, Welcoming, Proper, StepsOf, On
<1>11. \A x \in Due' : x.do # "resend"
  BY <1>7, <1>9 DEF Due, StepsOf, Without
<1>12. \A x \in Due : FALSE
  <2>1. PICK p : p = todo[Web] /\ \A k \in 1..Len(p) : FALSE
    <3>1. PICK p : p = <<>>
      OBVIOUS
    <3>2. \A k \in 1..Len(p) : FALSE
      BY <3>1
    <3>. QED BY <1>2, <3>1, <3>2
  <2>. QED BY <2>1 DEF Due, StepsOf
<1>13. UpInv'
  <2>1. Aside(Web)
    BY AcceptKeeps
  <2>2. ~About(Web, "up")'
    BY <2>1 DEF Aside, Changing
  <2>. QED BY <2>2 DEF UpInv
<1>14. /\ lines' = lines /\ orderly' = orderly /\ overlap' = overlap /\ wsClients' = wsClients
       /\ during' = during /\ contended' = contended
  BY <1>2 DEF registry, past
<1>15. InReach'
  <2>1. Replayed' = {}
    BY <1>11, ReplayedIs DEF DueReplays
  <2>. QED BY <2>1 DEF InReach
<1>16. Shown' <=> Shown
  <2>1. OuterStep(Web)
    BY OuterAccept
  <2>. QED BY <1>2, <2>1, OuterShows DEF OuterStep
<1>17. missing'[s0] = {} /\ \A s \in Sockets \ {s0} : missing'[s] = missing[s]
  BY <1>2 DEF ConsoleInv, ConsoleTypeOK
<1>18. ASSUME ~contended', ~overlap', NEW s \in Sockets, Settled(s)' PROVE Seen(s)'
  <2>1. CASE s = s0
    <3>1. Shown' => lines' \notin missing'[s]
      BY <1>17, <2>1
    <3>2. \A x : x \notin missing'[s]
      BY <1>17, <2>1
    <3>. QED BY <3>1, <3>2 DEF Seen, Awaited
  <2>2. CASE s # s0
    <3>1. Settled(s)
      BY <1>2, <1>12, <1>14, <1>18, <2>2 DEF Settled, Claims, Places
    <3>2. Seen(s)
      BY <1>14, <1>18, <3>1 DEF SeesInv
    <3>3. missing'[s] = missing[s]
      BY <1>17, <2>2
    <3>4. Shown' => lines' \notin missing'[s]
      BY <1>14, <1>16, <3>2, <3>3 DEF Seen
    <3>5. s \notin overtaken => \A d \in 1..Len(orderly) : orderly[Len(orderly) - d + 1] \notin missing[s]
      BY <1>12, <3>2 DEF Seen, Awaited
    <3>6. s \notin overtaken' => \A d \in 1..Len(orderly') :
             orderly'[Len(orderly') - d + 1] \notin missing'[s]
      BY <1>2, <1>14, <3>3, <3>5
    <3>. QED BY <3>4, <3>6 DEF Seen, Awaited
  <2>. QED BY <2>1, <2>2
<1>. QED BY <1>10, <1>13, <1>14, <1>15, <1>18 DEF SeesInv

-----------------------------------------------------------------------------
(* A replay is measured: it ends at the latest entry, however many it has; *)
(* the lines the client is to get are the latest of those in order.        *)
LEMMA LatestAre ==
    ASSUME ConsoleInv, RiseInv, NEW k \in Int, k <= Len(orderly)
    PROVE  /\ \A x \in ToSet(LastOf(orderly, k)) : \E i \in 1..Len(orderly) : x = orderly[i]
           /\ \A d \in 1..Len(orderly) :
                 orderly[Len(orderly) - d + 1] \in ToSet(LastOf(orderly, k)) => d <= k
<1>1. PICK n \in Nat : n = Len(orderly)
  BY DEF ConsoleInv
<1>2. orderly \in Seq(Nat)
  BY DEF ConsoleInv, TodoInv
<1>3. CASE k < 0
  <2>1. PICK l : l = LastOf(orderly, k) /\ l = <<>>
    BY <1>3 DEF LastOf
  <2>2. ToSet(l) = {}
    BY <2>1 DEF ToSet
  <2>. QED BY <2>1, <2>2
<1>4. CASE ~(k < 0)
  <2>1. k \in Nat /\ Least(Len(orderly), k) = k /\ k <= n
    BY <1>1, <1>4 DEF Least
  <2>a. /\ LastOf(orderly, k) \in Seq(Nat) /\ Len(LastOf(orderly, k)) = Least(Len(orderly), k)
        /\ \A e \in 1..Least(Len(orderly), k) :
              LastOf(orderly, k)[Least(Len(orderly), k) - e + 1] = orderly[Len(orderly) - e + 1]
    <3>1. k \in Nat
      BY <2>1
    <3>. QED BY <1>2, <3>1, LastOfIs
  <2>2. /\ LastOf(orderly, k) \in Seq(Nat) /\ Len(LastOf(orderly, k)) = k
        /\ \A e \in 1..k : LastOf(orderly, k)[k - e + 1] = orderly[Len(orderly) - e + 1]
    BY <2>1, <2>a
  <2>3. PICK l \in Seq(Nat) : /\ l = LastOf(orderly, k) /\ Len(l) = k
                              /\ \A e \in 1..k : l[k - e + 1] = orderly[n - e + 1]
    BY <1>1, <2>2
  <2>4. ASSUME NEW x \in ToSet(l) PROVE \E e \in 1..k : x = orderly[n - e + 1]
    <3>1. PICK j \in 1..k : x = l[j]
      BY <2>3, <2>4 DEF ToSet
    <3>2. PICK e \in 1..k : e = k - j + 1 /\ k - e + 1 = j
      BY <2>1
    <3>. QED BY <2>3, <3>1, <3>2
  <2>5. \A x \in ToSet(l) : \E i \in 1..n : x = orderly[i]
    <3>1. \A e \in 1..k : n - e + 1 \in 1..n
      BY <2>1
    <3>. QED BY <2>4, <3>1
  <2>6. ASSUME NEW d \in 1..n, orderly[n - d + 1] \in ToSet(l) PROVE d <= k
    <3>1. PICK e \in 1..k : orderly[n - d + 1] = orderly[n - e + 1]
      BY <2>4, <2>6
    <3>2. PICK i, j \in 1..n : i = n - d + 1 /\ j = n - e + 1
      BY <2>1
    <3>3. ~(i < j) /\ ~(j < i)
      <4>1. orderly[i] \in Nat /\ orderly[j] \in Nat /\ orderly[i] = orderly[j]
        BY <1>1, <1>2, <3>1, <3>2, ElementOfSeq
      <4>2. ~(orderly[i] < orderly[j]) /\ ~(orderly[j] < orderly[i])
        BY <4>1
      <4>. QED BY <1>1, <4>2 DEF RiseInv
    <3>4. d = e
      BY <3>2, <3>3
    <3>. QED BY <3>4
  <2>. QED BY <1>1, <2>3, <2>5, <2>6
<1>. QED BY <1>3, <1>4

LEMMA ReplayTurn ==
    ASSUME ConsoleInv, WebInv, NEW t \in ConsoleTasks, Replay(t)
    PROVE  /\ WebInv' /\ UpInv' /\ Due = {Step(t)} /\ Extent \in Nat
           /\ Due' = {ResendOf(Step(t).socket, i) : i \in 1..Extent}
<1>1. todo[t] # <<>> /\ Step(t).do = "replay"
  BY DEF Replay, About
<1>2. t = Web
  BY <1>1, StepAmong DEF WebInv, Without, Welcoming
<1>3. PICK p \in Seq(StepType) : p = todo[t]
  BY DEF ConsoleInv, TodoInv
<1>4. PICK r : r = Tail(p)
  OBVIOUS
<1>5. r = <<>> /\ StepsOf(p) = {Step(t)} \cup StepsOf(r)
  <2>1. Proper(p) /\ p # <<>> /\ Step(t) = p[1]
    BY <1>1, <1>2, <1>3 DEF WebInv, Step
  <2>. QED BY <1>1, <1>4, <2>1, ProperTail
<1>6. StepsOf(r) = {}
  <2>1. \A k \in 1..Len(r) : FALSE
    BY <1>5
  <2>. QED BY <2>1 DEF StepsOf
<1>7. Due = {Step(t)}
  BY <1>2, <1>3, <1>5, <1>6 DEF Due
<1>8. PICK q \in Seq(StepType) :
         /\ Then(t, q) /\ Len(q) = Extent /\ Extent \in Nat
         /\ \A i \in 1..Extent : q[i] = ResendOf(Step(t).socket, i)
  BY ResendsAre
<1>9. q \o r = q
  BY <1>5, ConcatEmptySeq
<1>10. todo'[t] = q /\ \A u \in ConsoleTasks \ {t} : todo'[u] = todo[u]
  <2>1. todo' = [todo EXCEPT ![t] = q]
    BY <1>3, <1>4, <1>8, <1>9 DEF Then
  <2>. QED BY <2>1 DEF ConsoleInv, TodoInv
<1>11. Due' = {ResendOf(Step(t).socket, i) : i \in 1..Extent}
  <2>1. Due' = StepsOf(q)
    BY <1>2, <1>10 DEF Due, StepsOf
  <2>. QED BY <1>8, <2>1 DEF StepsOf
<1>12. WebInv'
  <2>1. \A k \in 1..Len(q) : q[k].do = "resend"
    BY <1>8 DEF ResendOf
  <2>2. Proper(q)
    BY <2>1 DEF Proper, StepsOf
  <2>3. /\ Proper(todo'[Web])
        /\ \A u \in ConsoleTasks \ {Web} :
              Without(todo'[u], Welcoming) /\ Without(todo'[u], {"up"})
    BY <1>2, <1>10, <2>2 DEF WebInv
  <2>. QED BY <2>3 DEF WebInv, ConsoleTasks, Without, Welcoming, Proper, StepsOf, On
<1>13. UpInv'
  <2>1. Aside(Web)
    BY <1>2, ReplayKeeps
  <2>2. ~About(Web, "up")'
    BY <2>1 DEF Aside, Changing
  <2>. QED BY <2>2 DEF UpInv
<1>. QED BY <1>7, <1>8, <1>11, <1>12, <1>13

LEMMA ReplaySees ==
    ASSUME ConsoleInv, ConsoleInv', HealInv, WebInv, RiseInv, SeesInv,
           NEW t \in ConsoleTasks, Replay(t)
    PROVE  SeesInv'
<1>1. PICK s0 \in Sockets : s0 = Step(t).socket
  <2>1. todo[t] # <<>> /\ Step(t).do = "replay"
    BY DEF Replay, About
  <2>. QED BY <2>1, StepIsTyped, StepParts DEF ConsoleInv
<1>2. PICK k : k = Least(Len(orderly), REPLAY) - UnderWay
  OBVIOUS
<1>3. PICK latest : latest = ToSet(LastOf(orderly, k))
  OBVIOUS
<1>4. /\ missing' = [missing EXCEPT ![s0] = latest]
      /\ overtaken' = (overtaken \ {s0}) \cup {x \in {s0} : Overtaking(UnderWay)}
      /\ during' = UnderWay
      /\ UNCHANGED <<lines, ring, registry, sockets, past, contended>>
      /\ Step(t).do = "replay"
  BY <1>1, <1>2, <1>3 DEF Replay, About, tally
<1>5. /\ Due = {Step(t)} /\ Extent \in Nat
      /\ Due' = {ResendOf(s0, i) : i \in 1..Extent}
  BY <1>1, ReplayTurn
<1>6. /\ lines' = lines /\ orderly' = orderly /\ overlap' = overlap /\ wsClients' = wsClients
      /\ logBufferIndex' = logBufferIndex /\ open' = open
  BY <1>4 DEF ring, registry, sockets, past
<1>7. (Shown' <=> Shown) /\ (Moved' <=> Moved) /\ UnderWay' = UnderWay
  <2>1. OuterStep(t)
    BY OuterReplay
  <2>. QED BY <2>1, OuterHeals, OuterShows DEF OuterStep
<1>8. PICK n, b, r, w \in Nat : n = Len(orderly) /\ b = LOG_BUFFER_SIZE /\ r = REPLAY
                                /\ w = UnderWay /\ r <= b
  <2>1. Len(orderly) \in Nat
    BY DEF ConsoleInv
  <2>2. LOG_BUFFER_SIZE \in Nat /\ REPLAY \in Nat /\ REPLAY <= LOG_BUFFER_SIZE
    BY ConsoleAssumption
  <2>3. UnderWay \in Nat
    BY DEF UnderWay
  <2>. QED BY <2>1, <2>2, <2>3
<1>9. InReach'
  <2>1. Replayed' \subseteq {s0}
    <3>1. \A x \in Due' : x.socket = s0
      BY <1>5 DEF ResendOf
    <3>. QED BY <3>1, ReplayedIs DEF DueReplays
  <2>2. CASE w > b - r
    <3>1. s0 \in overtaken'
      BY <1>4, <1>8, <2>2 DEF Overtaking
    <3>. QED BY <2>1, <3>1 DEF InReach
  <2>3. CASE ~(w > b - r)
    <3>1. w + r <= b
      BY <1>8, <2>3
    <3>. QED BY <1>4, <1>8, <3>1 DEF InReach
  <2>. QED BY <2>2, <2>3
<1>10. k \in Int /\ k <= n /\ k + w <= r /\ k + w <= n
  BY <1>2, <1>8 DEF Least
<1>11. /\ \A x \in latest : \E i \in 1..n : x = orderly[i]
       /\ \A d \in 1..n : orderly[n - d + 1] \in latest => d <= k
  BY <1>3, <1>8, <1>10, LatestAre
<1>12. missing'[s0] = latest /\ \A s \in Sockets \ {s0} : missing'[s] = missing[s]
  BY <1>4 DEF ConsoleInv, ConsoleTypeOK
<1>13. ASSUME ~overlap, Shown PROVE lines \notin latest
  <2>1. PICK u \in ConsoleTasks, what \in {"advance", "test", "count"} : About(u, what)
    BY <1>13 DEF Shown
  <2>2. Inside = {u}
    <3>1. what \in Within
      BY DEF Within
    <3>. QED BY <1>13, <2>1, <3>1, SoleIs DEF ConsoleInv, HealInv
  <2>3. \A i \in 1..n : orderly[i] < lines
    BY <1>8, <1>13, <2>2 DEF RiseInv
  <2>4. lines \in Nat
    BY DEF ConsoleInv, TodoInv
  <2>. QED BY <1>11, <2>3, <2>4
<1>14. Moved => w = 1
  <2>. SUFFICES ASSUME NEW u \in ConsoleTasks, NEW what \in {"test", "count"}, About(u, what)
                PROVE  w = 1
    BY DEF Moved, Counting
  <2>1. Begun(u) \in Nat /\ HowMany(todo[u], {"send"}) \in Nat /\ Mid(todo[u]) = 1
        /\ Begun(u) = HowMany(todo[u], {"send"}) + Mid(todo[u])
    <3>1. what \in Within /\ todo[u] \in Seq(StepType)
      BY DEF Within, ConsoleInv, TodoInv
    <3>. QED BY <3>1, BegunIs, KindsFinite DEF ConsoleInv, HealInv
  <2>2. Begun(u) > 0
    BY <2>1
  <2>. QED BY <1>8, <2>2 DEF Inside, UnderWay
<1>15. ASSUME NEW d \in 1..n, orderly[n - d + 1] \in latest
       PROVE  d + w <= r + w /\ Coming(s0, d)' \in Due'
  <2>1. d <= k
    BY <1>11, <1>15
  <2>2. d + w <= r /\ d + w <= n
    BY <1>10, <2>1
  <2>3. PICK c \in Nat : c = logBufferCount /\ n <= c
    BY <1>8 DEF ConsoleInv, ConsoleTypeOK, HealInv, RingInv
  <2>4. PICK x \in Nat : x = Extent /\ d + w <= x /\ x <= b
    <3>1. Extent = IF c < r THEN c ELSE r
      BY <1>8, <2>3 DEF Extent, Least
    <3>. QED BY <1>5, <1>8, <2>2, <2>3, <3>1
  <2>5. PICK e \in 1..x : e = d + (IF Moved THEN 1 ELSE 0)
    <3>1. CASE Moved
      <4>1. d + 1 \in 1..x
        BY <1>14, <2>4, <3>1
      <4>. QED BY <3>1, <4>1
    <3>2. CASE ~Moved
      <4>1. d + 0 \in 1..x
        BY <2>4
      <4>. QED BY <3>2, <4>1
    <3>. QED BY <3>1, <3>2
  <2>6. Coming(s0, d)' = [do |-> "resend", socket |-> s0, index |-> Back(e)]
    <3>1. Coming(s0, d)' = Coming(s0, d)
      BY <1>6, <1>7, ComingKept
    <3>. QED BY <2>5, <3>1 DEF Coming, Depth
  <2>7. (FirstIndex(x) + (x - e + 1) - 1) % LOG_BUFFER_SIZE = Back(e)
    <3>1. logBufferIndex \in 0..(LOG_BUFFER_SIZE - 1) /\ x \in 1..LOG_BUFFER_SIZE
      BY <1>8, <2>4, <2>5 DEF ConsoleInv, ConsoleTypeOK
    <3>. QED BY <3>1, FirstBack
  <2>8. ResendOf(s0, x - e + 1) = Coming(s0, d)'
    BY <2>4, <2>6, <2>7 DEF ResendOf
  <2>9. x - e + 1 \in 1..x
    BY <2>5
  <2>. QED BY <1>5, <2>2, <2>4, <2>8, <2>9
<1>16. ASSUME ~contended', ~overlap', NEW s \in Sockets, Settled(s)' PROVE Seen(s)'
  <2>1. CASE s = s0
    <3>1. Shown' => lines' \notin missing'[s]
      BY <1>6, <1>7, <1>12, <1>13, <1>16, <2>1
    <3>2. \A d \in 1..Len(orderly') : orderly'[Len(orderly') - d + 1] \in missing'[s] =>
             d + UnderWay' <= REPLAY + during' /\ Coming(s, d)' \in Due'
      BY <1>4, <1>6, <1>7, <1>8, <1>12, <1>15, <2>1
    <3>3. Awaited(s)'
      BY <3>2 DEF Awaited, Coming, Depth, Back
    <3>. QED BY <3>1, <3>3 DEF Seen
  <2>2. CASE s # s0
    <3>1. Settled(s)
      BY <1>1, <1>5, <1>6, <1>16, <2>2 DEF Settled, Claims, Places
    <3>2. Seen(s)
      BY <1>4, <1>6, <1>16, <3>1 DEF SeesInv
    <3>3. missing'[s] = missing[s]
      BY <1>12, <2>2
    <3>4. Shown' => lines' \notin missing'[s]
      BY <1>6, <1>7, <3>2, <3>3 DEF Seen
    <3>5. s \notin overtaken => \A d \in 1..Len(orderly) : orderly[Len(orderly) - d + 1] \notin missing[s]
      <4>1. \A d : Coming(s, d) \notin Due
        BY <1>4, <1>5 DEF Coming
      <4>. QED BY <3>2, <4>1 DEF Seen, Awaited
    <3>6. s \notin overtaken' => \A d \in 1..Len(orderly') :
             orderly'[Len(orderly') - d + 1] \notin missing'[s]
      BY <1>4, <1>6, <2>2, <3>3, <3>5
    <3>. QED BY <3>4, <3>6 DEF Seen, Awaited
  <2>. QED BY <2>1, <2>2
<1>17. during' \in Nat
  BY <1>4, <1>8
<1>. QED BY <1>9, <1>16, <1>17 DEF SeesInv

-----------------------------------------------------------------------------
(* The inductive invariant; and what a client with a slot has seen.        *)
ViewInv == WebInv /\ UpInv /\ RiseInv /\ SeesInv

LEMMA ViewInvInit == ConsoleInit => ViewInv
<1>. SUFFICES ASSUME ConsoleInit PROVE ViewInv
  OBVIOUS
<1>. USE DEF ConsoleInit
<1>1. PICK q : q = <<>>
  OBVIOUS
<1>2. \A k \in 1..Len(q) : FALSE
  BY <1>1
<1>3. StepsOf(q) = {}
  BY <1>2 DEF StepsOf
<1>4. Web \in ConsoleTasks /\ \A t \in ConsoleTasks : todo[t] = q
  BY <1>1 DEF ConsoleTasks
<1>5. WebInv
  BY <1>2, <1>3, <1>4 DEF WebInv, Without, Proper
<1>6. UpInv
  BY <1>1, <1>4 DEF UpInv, About
<1>7. RiseInv
  BY <1>1, <1>2 DEF RiseInv
<1>8. SeesInv
  <2>1. during = 0 /\ 0 + REPLAY <= LOG_BUFFER_SIZE /\ open = {}
    BY ConsoleAssumption
  <2>. QED BY <2>1 DEF SeesInv, InReach, Settled
<1>. QED BY <1>5, <1>6, <1>7, <1>8 DEF ViewInv

LEMMA CallbackView ==
    ASSUME ConsoleInv, CountInv, HealInv, ViewInv, ConsoleInv', NEW t \in ConsoleTasks,
           logCallback(t)
    PROVE  ViewInv'
<1>. USE DEF ViewInv
<1>1. /\ Gentle /\ contended' = contended /\ UNCHANGED wsClients
  BY CallbackOn
<1>2. WebInv' /\ UpInv'
  BY <1>1, UpKept DEF Gentle
<1>3. SeesInv'
  BY HeadSees, TextSees, FormatSees, SendSees, AdvanceSees, TestSees, CountSees
     DEF logCallback
<1>4. RiseInv'
  <2>1. CASE StoreHead(t) \/ Count(t)
    BY <2>1, HeadRises, CountRises
  <2>2. CASE StoreText(t) \/ Format(t) \/ Send(t) \/ Advance(t) \/ TestCount(t)
    <3>1. Inside' = Inside
      BY <2>2, TextHeals, FormatHeals, SendHeals, AdvanceHeals, TestHeals
    <3>2. UNCHANGED <<lines, past>>
      BY <2>2 DEF StoreText, Format, Send, Advance, TestCount
    <3>. QED BY <3>1, <3>2, RiseSame
  <2>. QED BY <2>1, <2>2 DEF logCallback
<1>. QED BY <1>2, <1>3, <1>4

LEMMA OuterView ==
    ASSUME ConsoleInv, CountInv, HealInv, ViewInv, ConsoleInv', NEW t \in ConsoleTasks,
           \/ Log(t) \/ Registering(t) \/ Connecting(t)
           \/ \E s \in Sockets : Notice(t, s)
           \/ t = Web /\ \E s \in Sockets : ErrorEvent(s) \/ \E a \in Addresses : Accept(s, a)
    PROVE  ViewInv'
<1>. USE DEF ViewInv
<1>1. OuterStep(t)
  BY OuterSteps
<1>2. /\ UNCHANGED <<lines, ring, past>> /\ Inside' = Inside
      /\ (Shown' <=> Shown) /\ (Moved' <=> Moved) /\ UnderWay' = UnderWay
  BY <1>1, OuterHeals, OuterShows DEF OuterStep
<1>3. RiseInv'
  BY <1>2, RiseSame
<1>4. CASE Replay(t)
  BY <1>3, <1>4, ReplayTurn, ReplaySees
<1>5. CASE Resend(t)
  BY <1>3, <1>5, ResendSees
<1>6. CASE t = Web /\ \E s \in Sockets, a \in Addresses : Accept(s, a)
  BY <1>3, <1>6, AcceptSees
<1>7. CASE \/ Log(t) \/ Registering(t) \/ VisitSlot(t) \/ disconnect(t)
           \/ \E s \in Sockets : Notice(t, s) \/ ErrorEvent(s) \/ Leave(s)
  <2>1. Apart /\ UpInv'
    BY <1>7, ApartSteps
  <2>2. SeesInv'
    BY <1>2, <2>1, ApartSees
  <2>. QED BY <1>3, <2>1, <2>2 DEF Apart
<1>. QED BY <1>4, <1>5, <1>6, <1>7 DEF Connecting

LEMMA StillView ==
    ASSUME ConsoleInv, CountInv, HealInv, ViewInv, ConsoleInv',
           UNCHANGED consoleVars \/ \E s \in Sockets : Leave(s)
    PROVE  ViewInv'
<1>. USE DEF ViewInv
<1>1. UNCHANGED <<todo, local, lines, ring, past>>
  BY DEF Leave, consoleVars
<1>2. Inside' = Inside
  BY <1>1, HealsSame
<1>3. (Shown' <=> Shown) /\ (Moved' <=> Moved) /\ UnderWay' = UnderWay
  <2>1. todo' = todo
    BY <1>1
  <2>2. \A t, what : About(t, what)' <=> About(t, what)
    BY <2>1 DEF About, Step
  <2>3. \A t : Counting(t)' <=> Counting(t)
    BY <2>2 DEF Counting
  <2>4. UnderWay' = UnderWay
    BY <1>2 DEF UnderWay
  <2>. QED BY <2>2, <2>3, <2>4 DEF Shown, Moved, ConsoleTasks
<1>4. Apart /\ UpInv'
  <2>1. CASE UNCHANGED consoleVars
    <3>1. UNCHANGED <<registry, sockets, viewers, tally>> /\ Gentle
      BY <2>1, <1>1, SameGentle DEF consoleVars
    <3>2. UNCHANGED <<wsClients, open, contended>>
      BY <3>1 DEF registry, sockets, tally
    <3>3. \A s \in Sockets : Claims(s)' => Claims(s)
      BY <3>2 DEF Claims, Places
    <3>. QED BY <3>1, <3>2, <3>3, UpKept DEF Apart, Gentle
  <2>2. CASE \E s \in Sockets : Leave(s)
    <3>1. Web \in ConsoleTasks
      BY DEF ConsoleTasks
    <3>. QED BY <2>2, <3>1, ApartSteps
  <2>. QED BY <2>1, <2>2
<1>5. SeesInv'
  BY <1>1, <1>3, <1>4, ApartSees
<1>. QED BY <1>1, <1>2, <1>4, <1>5, RiseSame DEF Apart

LEMMA ViewInvStep ==
    ConsoleInv /\ CountInv /\ HealInv /\ ViewInv /\ [ConsoleNext]_consoleVars => ViewInv'
<1>. SUFFICES ASSUME ConsoleInv, CountInv, HealInv, ViewInv, [ConsoleNext]_consoleVars
              PROVE  ViewInv'
  OBVIOUS
<1>1. ConsoleInv'
  BY ConsoleInvStep
<1>2. Web \in ConsoleTasks
  BY DEF ConsoleTasks
<1>. QED BY <1>1, <1>2, CallbackView, OuterView, StillView DEF ConsoleNext

LEMMA SeesOf == ConsoleInv /\ HealInv /\ ViewInv => ConsoleSeesAll
<1>. SUFFICES ASSUME ConsoleInv, HealInv, SeesInv, NEW s \in Sockets, Watching(s), ~contended,
                     s \notin overtaken, NEW x \in ToSet(orderly), x \in missing[s]
              PROVE  FALSE
  BY DEF ConsoleSeesAll, ViewInv
<1>1. \A y \in Due : y.do \notin Welcoming
  <2>1. PICK q \in Seq(StepType) : q = todo[Web]
    BY DEF ConsoleInv, TodoInv, ConsoleTasks
  <2>2. HowMany(q, Welcoming) = 0
    <3>1. LeftOf(Web, Welcoming) = 0
      BY DEF Watching, Welcoming, ConsoleTasks
    <3>. QED BY <2>1, <3>1 DEF LeftOf, HowMany, KindsOf
  <2>. QED BY <2>1, <2>2, NoKinds DEF Due, StepsOf
<1>2. PICK n \in Nat : n = Len(orderly) /\ DOMAIN orderly = 1..n
  BY DEF ConsoleInv
<1>3. PICK i \in 1..n : x = orderly[i]
  BY <1>2 DEF ToSet
<1>4. ~overlap
  <2>. SUFFICES ASSUME overlap PROVE FALSE
    OBVIOUS
  <2>1. orderly = <<>>
    BY DEF HealInv, AloneInv
  <2>2. n = 0
    BY <1>2, <2>1
  <2>. QED BY <2>2
<1>5. Settled(s)
  BY <1>1 DEF Watching, Connected, Settled, Welcoming
<1>6. Awaited(s)
  BY <1>4, <1>5 DEF SeesInv, Seen
<1>7. PICK d \in 1..n : d = n - i + 1 /\ n - d + 1 = i
  OBVIOUS
<1>8. Coming(s, d) \in Due
  BY <1>2, <1>3, <1>6, <1>7 DEF Awaited
<1>. QED BY <1>1, <1>8 DEF Coming, Welcoming

-----------------------------------------------------------------------------
(* The logger: a step of it is a step of one of its sinks, and leaves the  *)
(* other as it is.  So what holds of either sink by itself holds of both.  *)
LEMMA LoggerStep == [LoggerNext]_loggerVars => [Next]_vars /\ [ConsoleNext]_consoleVars
BY DEF LoggerNext, loggerVars, FollowStore, FollowConsole

(* The logger behaves as either of its sinks does by itself.               *)
THEOREM LoggerRunsSinks == LoggerSpec => Spec /\ ConsoleSpec
<1>1. LoggerInit => Init /\ ConsoleInit
  BY DEF LoggerInit
<1>. QED BY <1>1, LoggerStep, PTL DEF LoggerSpec, Spec, ConsoleSpec

(* The console's index and entries stay within the buffer, and its slots   *)
(* and their count within their bounds, whichever tasks log at once.  The  *)
(* count of lines has no bound once two lines overlapped.                  *)
THEOREM ConsoleTypes == ConsoleSpec => []ConsoleTypeOK
<1>1. ConsoleInv => ConsoleTypeOK
  BY DEF ConsoleInv
<1>. QED BY ConsoleInvInit, ConsoleInvStep, <1>1, PTL DEF ConsoleSpec

(* The number of clients, which decides whether lines are sent and whether *)
(* a client is refused, is the number of slots taken, unless two tasks had *)
(* clients to add or remove at once.                                       *)
THEOREM ClientsAreCounted == ConsoleSpec => []ClientsCounted
BY ConsoleInvInit, ConsoleInvStep, CountedOf, PTL DEF ConsoleSpec

(* Once a connection is dealt with, no two clients of its address are      *)
(* connected and hold a slot, whatever other tasks did to the slots.       *)
THEOREM OneConsoleEach == ConsoleSpec => []OneConsolePerAddress
BY ConsoleInvInit, ConsoleInvStep, OneInvInit, OneInvStep, OneOf, PTL DEF ConsoleSpec

(* Lines that overlap tear entries of the console and skip or reuse slots; *)
(* but a buffer's worth of lines after, a new client is sent the latest    *)
(* ones in order, and the log page lists exactly those of the buffer, in   *)
(* order, if the count of lines is not past its limit for good.  Until two *)
(* overlap both are right at all times.                                    *)
THEOREM HealedConsole == ConsoleSpec => []ConsoleHeals
<1>1. ConsoleInit => ConsoleInv /\ CountInv /\ HealInv
  BY ConsoleInvInit, HealInvInit
<1>2. ConsoleInv /\ CountInv /\ HealInv /\ [ConsoleNext]_consoleVars
          => (ConsoleInv /\ CountInv /\ HealInv)'
  BY ConsoleInvStep, HealInvStep
<1>. QED BY <1>1, <1>2, HealsOf, PTL DEF ConsoleSpec

(* A client that has a slot and has had its replay misses none of the      *)
(* lines it was to get, although broadcasts and replay are sent by         *)
(* different tasks and a line is sent before its slot is passed: unless    *)
(* lines overlapped, two tasks changed the slots at once, or as many were  *)
(* logged during the replay that they overtook it.                         *)
THEOREM WatchersSeeAll == ConsoleSpec => []ConsoleSeesAll
<1>1. ConsoleInit => ConsoleInv /\ CountInv /\ HealInv /\ ViewInv
  BY ConsoleInvInit, HealInvInit, ViewInvInit
<1>2. ConsoleInv /\ CountInv /\ HealInv /\ ViewInv /\ [ConsoleNext]_consoleVars
          => (ConsoleInv /\ CountInv /\ HealInv /\ ViewInv)'
  BY ConsoleInvStep, HealInvStep, ViewInvStep
<1>. QED BY <1>1, <1>2, SeesOf, PTL DEF ConsoleSpec

(* Both sinks stay within the types of their variables.                    *)
THEOREM LoggerTypes == LoggerSpec => []LoggerTypeOK
<1>1. LoggerInit => watched \in Sinks
  BY DEF LoggerInit
<1>2. watched \in Sinks /\ [LoggerNext]_loggerVars => (watched \in Sinks)'
  BY DEF LoggerNext, loggerVars, FollowStore, FollowConsole
<1>3. Spec => []TypeOK
  <2>1. CaptureInv => TypeOK
    BY DEF CaptureInv
  <2>. QED BY CaptureInvInit, CaptureInvStep, <2>1, PTL DEF Spec
<1>4. TypeOK /\ ConsoleTypeOK /\ watched \in Sinks => LoggerTypeOK
  BY DEF LoggerTypeOK
<1>. QED BY <1>1, <1>2, <1>3, <1>4, LoggerRunsSinks, ConsoleTypes, PTL DEF LoggerSpec
=============================================================================
