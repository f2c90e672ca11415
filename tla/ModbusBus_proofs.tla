--------------------------- MODULE ModbusBus_proofs ---------------------------
(***************************************************************************)
(* Proofs about ModbusBus, for any slaves, any number of attempts, any     *)
(* number of late answers and any size of the frame log: what a task reads *)
(* while the bus is its own, and how far the frame log can get.            *)
(***************************************************************************)
EXTENDS ModbusBus, TLAPS

Busy(t) == pc[t] # "idle"
Others(t) == Tasks \ {t}
Steps == {"idle", "send", "echo", "test", "pop", "push", "recv"}
Outcomes == {"none", "ok", "refused", "failed"}
Logs == [size : Int, last : Entries \cup {"none"}]

(* The types, and what the scan and the attempts add to them.              *)
Scans == [at : {"none", "test", "wait", "done"}, slave : Addresses, last : Addresses,
          reg : 1..Regs, before : Int, found : SUBSET Addresses,
          answered : SUBSET Addresses, sound : BOOLEAN]
ScanTypeOK ==
    /\ scan \in Scans
    /\ scan.at # "none" => "web" \in Tasks
AttemptsOK == \A t \in Tasks : attempt[t] <= MaxAttempts(t)
Types == TypeOK /\ ScanTypeOK /\ AttemptsOK

(* Reads and scans take turns on the web task.                             *)
Turns == "web" \in Tasks => (scan.at \in {"test", "done"} => pc["web"] = "idle")

(* A task listens from when it has dropped the echo to when it has heard.  *)
(* All that a read can hear that has had the bus to itself is the answer   *)
(* to its own request.                                                     *)
Listening(t) ==
    \/ pc[t] = "recv"
    \/ pc[t] \in {"test", "pop", "push"} /\ entry[t] = "tx"
OwnTraffic(t) ==
    /\ \A w \in onWire : w.to = req[t]
    /\ rx.kind = "data" => rx.to = req[t]
AloneInv ==
    \A t \in Tasks : Busy(t) /\ alone[t] =>
        /\ \A u \in Others(t) : ~Busy(u)
        /\ Listening(t) => OwnTraffic(t)

BusInv == Types /\ Turns /\ AloneInv /\ AnswerIsMine

(* What a log that is not full tells of the read a sound scan waits for.   *)
Told == [ok |-> "data", refused |-> "exception", failed |-> "timeout"]
LogTells ==
    /\ 0 <= scan.before /\ scan.before + 2 <= FRAME_LOG_SIZE
    /\ pc["web"] # "idle" => attempt["web"] = 1
    /\ pc["web"] # "pop"
    /\ pc["web"] \in {"send", "echo"} => frameLog.size = scan.before
    /\ pc["web"] \in {"test", "push"} =>
          frameLog.size = scan.before + (IF entry["web"] = "tx" THEN 0 ELSE 1)
    /\ pc["web"] = "recv" => frameLog.size = scan.before + 1
    /\ pc["web"] = "idle" =>
          /\ outcome["web"] \in DOMAIN Told
          /\ frameLog = [size |-> scan.before + 2, last |-> Told[outcome["web"]]]
WaitInv ==
    scan.at = "wait" /\ scan.sound /\ alone["web"] =>
        (\A u \in Others("web") : ~Busy(u)) /\ LogTells
Tallied == scan.sound => scan.found = scan.answered
ScanInv == BusInv /\ WaitInv /\ Tallied

-----------------------------------------------------------------------------
(* Helpers.                                                                *)
LEMMA AttemptsPossible ==
    \A t : /\ MaxAttempts(t) \in Nat /\ 0 < MaxAttempts(t)
           /\ MaxAttempts(t) <= MAX_READ_ATTEMPTS
  BY BusAssumption DEF MaxAttempts

(* A step of one task leaves the other's part of the log's length alone.   *)
LEMMA LengthOf ==
    ASSUME pc \in [Tasks -> Steps], frameLog \in Logs,
           NEW t \in Tasks, NEW where \in Steps, Goto(t, where), frameLog' \in Logs
    PROVE  \E o \in {0, 1} :
              /\ LogLength = frameLog.size + (IF pc[t] = "push" THEN 1 ELSE 0) + o
              /\ LogLength' = frameLog'.size + (IF where = "push" THEN 1 ELSE 0) + o
<1>1. frameLog.size \in Int /\ frameLog'.size \in Int /\ t \in {"poller", "web"}
  BY BusAssumption DEF Logs
<1>2. Adding(t) = (IF pc[t] = "push" THEN 1 ELSE 0)
      /\ Adding(t)' = (IF where = "push" THEN 1 ELSE 0)
  BY DEF Adding, Goto
<1>3. \A u \in {"poller", "web"} \ {t} : Adding(u)' = Adding(u) /\ Adding(u) \in {0, 1}
  BY DEF Adding, Goto
<1>4. CASE t = "poller"
  <2>1. Adding("web")' = Adding("web") /\ Adding("web") \in {0, 1}
    BY <1>3, <1>4
  <2> QED
    BY <1>1, <1>2, <1>4, <2>1 DEF LogLength
<1>5. CASE t = "web"
  <2>1. Adding("poller")' = Adding("poller") /\ Adding("poller") \in {0, 1}
    BY <1>3, <1>5
  <2> QED
    BY <1>1, <1>2, <1>5, <2>1 DEF LogLength
<1> QED
  BY <1>1, <1>4, <1>5

(* With nobody adding an entry, the length is the log's own.               *)
LEMMA LengthIdle ==
    ASSUME frameLog \in Logs, \A t \in Tasks : pc[t] # "push"
    PROVE  LogLength = frameLog.size
  BY DEF Logs, LogLength, Adding

(* A step that does not touch the log keeps its length in range, unless it *)
(* is about to add an entry.                                               *)
LEMMA LengthKept ==
    ASSUME TypeOK, NEW t \in Tasks, NEW where \in Steps \ {"push"}, pc[t] # "push",
           Goto(t, where), frameLog' = frameLog
    PROVE  LogLength' \in 0..(FRAME_LOG_SIZE + 1)
<1>1. frameLog \in Logs /\ pc \in [Tasks -> Steps] /\ where \in Steps
      /\ LogLength \in 0..(FRAME_LOG_SIZE + 1)
  BY DEF TypeOK, Logs, Steps
<1>2. PICK o \in {0, 1} :
              /\ LogLength = frameLog.size + (IF pc[t] = "push" THEN 1 ELSE 0) + o
              /\ LogLength' = frameLog'.size + (IF where = "push" THEN 1 ELSE 0) + o
  BY <1>1, LengthOf
<1> QED
  BY <1>1, <1>2

LEMMA GotoTypes ==
    ASSUME BusInv, NEW t \in Tasks, NEW where \in Steps, Goto(t, where)
    PROVE  /\ pc' \in [Tasks -> Steps] /\ pc'[t] = where
           /\ \A u \in Others(t) : pc'[u] = pc[u]
  BY DEF BusInv, Types, TypeOK, Goto, Steps, Others

LEMMA BusInvInit == Init => ScanInv
<1> SUFFICES ASSUME Init PROVE ScanInv
  OBVIOUS
<1> USE BusAssumption DEF Init
<1>1. Ask(Polled, 1) \in Request
  BY DEF Ask, Request
<1>2. EmptyLog \in Logs
  BY DEF EmptyLog, Logs
<1>3. TypeOK
  <2>1. LogLength = 0
    BY <1>2, LengthIdle DEF EmptyLog
  <2> QED
    BY <1>1, <1>2, <2>1 DEF TypeOK, Logs, Inputs, Entries
<1>4. ScanTypeOK
  BY DEF ScanTypeOK, Scans, NoScan, Addresses
<1>5. AttemptsOK
  <2>1. ASSUME NEW t \in Tasks PROVE attempt[t] = 0
    OBVIOUS
  <2>2. ASSUME NEW t \in Tasks PROVE 0 <= MaxAttempts(t)
    <3>1. MaxAttempts(t) \in Nat
      BY AttemptsPossible
    <3> QED
      BY <3>1
  <2> QED
    BY <2>1, <2>2 DEF AttemptsOK
<1>6. Turns /\ WaitInv /\ Tallied
  BY DEF Turns, WaitInv, Tallied, NoScan
<1>7. AloneInv /\ AnswerIsMine
  BY DEF AloneInv, AnswerIsMine, Busy
<1> QED
  BY <1>3, <1>4, <1>5, <1>6, <1>7 DEF ScanInv, BusInv, Types

-----------------------------------------------------------------------------
(* A read starts.  It is alone only if the other task is idle, and it      *)
(* takes the bus from a read that was alone.                               *)
LEMMA StartKeeps ==
    ASSUME BusInv, NEW t \in Tasks, NEW q \in Request, Start(t, q),
           frameLog' = frameLog
    PROVE  TypeOK' /\ AttemptsOK' /\ AloneInv' /\ AnswerIsMine'
<1>0. TypeOK /\ "send" \in Steps \ {"push"}
  BY DEF BusInv, Types, Steps
<1>1. pc' \in [Tasks -> Steps] /\ pc'[t] = "send" /\ \A u \in Others(t) : pc'[u] = pc[u]
  BY <1>0, GotoTypes DEF Start
<1>2. /\ req' = [req EXCEPT ![t] = q] /\ got' = [got EXCEPT ![t] = q]
      /\ attempt' = [attempt EXCEPT ![t] = 1] /\ outcome' = [outcome EXCEPT ![t] = "none"]
      /\ entry' = entry /\ onWire' = onWire /\ rx' = rx
  BY DEF Start
<1>3. alone' \in [Tasks -> BOOLEAN]
      /\ (alone'[t] => \A v \in Others(t) : pc[v] = "idle")
      /\ \A u \in Others(t) : alone'[u] => alone[u] /\ pc[u] = "idle"
  BY <1>0 DEF Start, TypeOK, Others
<1>4. attempt' \in [Tasks -> 0..MAX_READ_ATTEMPTS]
  BY <1>0, <1>2, BusAssumption DEF TypeOK
<1>5. LogLength' \in 0..(FRAME_LOG_SIZE + 1)
  BY <1>0, LengthKept DEF Start
<1>6. TypeOK'
  BY <1>0, <1>1, <1>2, <1>3, <1>4, <1>5 DEF TypeOK, Steps
<1>7. AttemptsOK'
  <2>1. ASSUME NEW u \in Tasks PROVE attempt'[u] <= MaxAttempts(u)
    <3>1. CASE u = t
      BY <3>1, <1>0, <1>2, AttemptsPossible DEF TypeOK
    <3>2. CASE u # t
      BY <3>2, <1>0, <1>2 DEF BusInv, Types, TypeOK, AttemptsOK
    <3> QED
      BY <3>1, <3>2
  <2> QED
    BY <2>1 DEF AttemptsOK
<1>8. AloneInv'
  <2>1. ASSUME NEW u \in Tasks, Busy(u)', alone'[u]
        PROVE  (\A v \in Others(u) : ~Busy(v)') /\ (Listening(u)' => OwnTraffic(u)')
    <3>1. u = t
      BY <2>1, <1>1, <1>3 DEF Busy, Others
    <3> QED
      BY <2>1, <3>1, <1>1, <1>3 DEF Busy, Listening
  <2> QED
    BY <2>1 DEF AloneInv, Others
<1>9. AnswerIsMine'
  BY <1>0, <1>2, <1>3 DEF BusInv, AnswerIsMine, Others, TypeOK
<1> QED
  BY <1>6, <1>7, <1>8, <1>9

(* A step of the task that has the bus disturbs nobody who is alone.       *)
LEMMA OneMoves ==
    ASSUME BusInv, NEW t \in Tasks, Busy(t),
           \A u \in Others(t) : pc'[u] = pc[u] /\ (alone'[u] => alone[u]),
           alone'[t] => alone[t],
           alone'[t] /\ Listening(t)' => OwnTraffic(t)'
    PROVE  AloneInv'
<1>1. ASSUME NEW u \in Tasks, Busy(u)', alone'[u]
      PROVE  (\A v \in Others(u) : ~Busy(v)') /\ (Listening(u)' => OwnTraffic(u)')
  <2>1. u = t
    BY <1>1 DEF BusInv, AloneInv, Others, Busy
  <2>2. \A v \in Others(t) : ~Busy(v)
    BY <1>1, <2>1 DEF BusInv, AloneInv
  <2> QED
    BY <1>1, <2>1, <2>2 DEF Busy
<1> QED
  BY <1>1 DEF AloneInv, Others

LEMMA TransmitKeeps ==
    ASSUME BusInv, NEW t \in Tasks, Transmit(t)
    PROVE  TypeOK' /\ AttemptsOK' /\ AloneInv' /\ AnswerIsMine'
<1>0. TypeOK /\ pc[t] = "send" /\ Goto(t, "echo") /\ "echo" \in Steps \ {"push"}
      /\ req' = req /\ attempt' = attempt /\ outcome' = outcome /\ entry' = entry
      /\ got' = got /\ alone' = alone /\ frameLog' = frameLog /\ rx' = NoFrame
  BY DEF BusInv, Types, Steps, Transmit
<1>1. pc' \in [Tasks -> Steps] /\ pc'[t] = "echo" /\ \A u \in Others(t) : pc'[u] = pc[u]
  BY <1>0, GotoTypes
<1>2. onWire' \subseteq Waiting
  <2>1. ASSUME NEW n \in 1..MaxWaiting PROVE Copy(req[t], n) \in Waiting
    BY <1>0 DEF TypeOK, Copy, Waiting
  <2> QED
    BY <1>0, <2>1 DEF TypeOK, Transmit, Hears
<1>3. LogLength' \in 0..(FRAME_LOG_SIZE + 1)
  BY <1>0, LengthKept
<1>4. TypeOK'
  BY <1>0, <1>1, <1>2, <1>3 DEF TypeOK, Steps, Inputs
<1>5. AttemptsOK' /\ AnswerIsMine'
  BY <1>0 DEF BusInv, Types, AttemptsOK, AnswerIsMine
<1>6. AloneInv'
  BY <1>0, <1>1, OneMoves DEF Listening, Busy, Others
<1> QED
  BY <1>4, <1>5, <1>6

(* After the echo, only the answer to its own request can be heard by a    *)
(* read that is alone.                                                     *)
LEMMA ClearEchoKeeps ==
    ASSUME BusInv, NEW t \in Tasks, ClearEcho(t)
    PROVE  TypeOK' /\ AttemptsOK' /\ AloneInv' /\ AnswerIsMine'
<1>0. TypeOK /\ pc[t] = "echo" /\ Goto(t, "test") /\ "test" \in Steps \ {"push"}
      /\ req' = req /\ attempt' = attempt /\ outcome' = outcome
      /\ entry' = [entry EXCEPT ![t] = "tx"] /\ alone' = [alone EXCEPT ![t] = @ /\ Own(t)]
      /\ got' = got /\ frameLog' = frameLog /\ onWire' = onWire /\ rx' = NoFrame
  BY DEF BusInv, Types, Steps, ClearEcho
<1>1. pc' \in [Tasks -> Steps] /\ pc'[t] = "test" /\ \A u \in Others(t) : pc'[u] = pc[u]
  BY <1>0, GotoTypes
<1>2. alone' \in [Tasks -> BOOLEAN] /\ (alone'[t] => alone[t] /\ Own(t))
      /\ \A u \in Others(t) : alone'[u] = alone[u] /\ entry'[u] = entry[u]
  BY <1>0 DEF TypeOK, Others
<1>3. entry' \in [Tasks -> Entries] /\ entry'[t] = "tx"
  BY <1>0 DEF TypeOK, Entries
<1>4. LogLength' \in 0..(FRAME_LOG_SIZE + 1)
  BY <1>0, LengthKept
<1>5. TypeOK'
  BY <1>0, <1>1, <1>2, <1>3, <1>4 DEF TypeOK, Steps, Inputs
<1>6. AttemptsOK' /\ AnswerIsMine'
  BY <1>0, <1>2, <1>3 DEF BusInv, Types, AttemptsOK, AnswerIsMine, Others
<1>7. alone'[t] => OwnTraffic(t)'
  BY <1>0, <1>2 DEF Own, OwnTraffic, NoFrame
<1>8. AloneInv'
  BY <1>0, <1>1, <1>2, <1>7, OneMoves DEF Busy
<1> QED
  BY <1>5, <1>6, <1>8

(* A task hears: an answer, something else, or nothing.                    *)
LEMMA HearKeeps ==
    ASSUME BusInv, NEW t \in Tasks, NEW what \in Entries \ {"tx"}, Hear(t, what),
           rx' \in Inputs, got' \in [Tasks -> Request],
           \A u \in Others(t) : got'[u] = got[u],
           what = "data" /\ alone[t] => got'[t] = req[t]
    PROVE  TypeOK' /\ AttemptsOK' /\ AloneInv' /\ AnswerIsMine'
<1>0. TypeOK /\ pc[t] = "recv" /\ Goto(t, "test") /\ "test" \in Steps \ {"push"}
      /\ req' = req /\ attempt' = attempt /\ outcome' = outcome /\ alone' = alone
      /\ entry' = [entry EXCEPT ![t] = what] /\ frameLog' = frameLog /\ onWire' = onWire
  BY DEF BusInv, Types, Steps, Hear
<1>1. pc' \in [Tasks -> Steps] /\ pc'[t] = "test" /\ \A u \in Others(t) : pc'[u] = pc[u]
  BY <1>0, GotoTypes
<1>2. entry' \in [Tasks -> Entries] /\ entry'[t] = what
      /\ \A u \in Others(t) : entry'[u] = entry[u]
  BY <1>0 DEF TypeOK, Others
<1>3. LogLength' \in 0..(FRAME_LOG_SIZE + 1)
  BY <1>0, LengthKept
<1>4. TypeOK'
  BY <1>0, <1>1, <1>2, <1>3 DEF TypeOK, Steps
<1>5. AttemptsOK' /\ AnswerIsMine'
  BY <1>0, <1>2 DEF BusInv, Types, AttemptsOK, AnswerIsMine, Others
<1>6. ~Listening(t)'
  BY <1>1, <1>2 DEF Listening
<1>7. AloneInv'
  BY <1>0, <1>1, <1>6, OneMoves DEF Busy, Others
<1> QED
  BY <1>4, <1>5, <1>7

LEMMA ReceiveKeeps ==
    ASSUME BusInv, NEW t \in Tasks, Accept(t) \/ Refuse(t) \/ Timeout(t) \/ Tear(t)
    PROVE  TypeOK' /\ AttemptsOK' /\ AloneInv' /\ AnswerIsMine'
<1>0. rx \in Inputs /\ NoFrame \in Inputs /\ Garbled \in Inputs /\ got \in [Tasks -> Request]
      /\ {"data", "exception", "timeout"} \subseteq Entries \ {"tx"}
  BY DEF BusInv, Types, TypeOK, Inputs, Entries
<1>1. CASE Accept(t)
  <2>1. rx.to \in Request
    BY <1>0, <1>1 DEF Accept, Inputs, NoFrame, Exception, Garbled
  <2>2. got' \in [Tasks -> Request] /\ got'[t] = rx.to
        /\ (\A u \in Others(t) : got'[u] = got[u]) /\ rx' = NoFrame /\ Hear(t, "data")
    BY <1>0, <1>1, <2>1 DEF Accept, Others
  <2>3. alone[t] => rx.to = req[t]
    BY <1>1 DEF Accept, Hear, BusInv, AloneInv, Busy, Listening, OwnTraffic
  <2> QED
    BY <1>0, <2>2, <2>3, HearKeeps
<1>2. CASE Refuse(t) \/ Timeout(t) \/ Tear(t)
  <2>1. PICK what \in {"exception", "timeout"} : Hear(t, what)
    BY <1>2 DEF Refuse, Timeout, Tear
  <2>2. got' = got /\ rx' \in Inputs
    BY <1>0, <1>2 DEF Refuse, Timeout, Tear
  <2>3. what \in Entries \ {"tx"} /\ what # "data"
    BY <1>0, <2>1
  <2> QED
    BY <1>0, <2>1, <2>2, <2>3, HearKeeps
<1> QED
  BY <1>1, <1>2

(* logFrame.  A task that finds room while the other one adds an entry     *)
(* takes the log one past its size; one that drops an entry first leaves   *)
(* the length as it is.                                                    *)
LEMMA TestRoomKeeps ==
    ASSUME BusInv, NEW t \in Tasks, TestRoom(t)
    PROVE  TypeOK' /\ AttemptsOK' /\ AloneInv' /\ AnswerIsMine'
<1> DEFINE where == IF Full(frameLog.size) THEN "pop" ELSE "push"
<1>0. TypeOK /\ pc[t] = "test" /\ Goto(t, where) /\ where \in {"pop", "push"}
      /\ req' = req /\ attempt' = attempt /\ outcome' = outcome /\ entry' = entry
      /\ got' = got /\ alone' = alone /\ frameLog' = frameLog /\ onWire' = onWire
      /\ rx' = rx
  BY DEF BusInv, Types, Steps, TestRoom
<1>1. pc' \in [Tasks -> Steps] /\ pc'[t] = where /\ \A u \in Others(t) : pc'[u] = pc[u]
  BY <1>0, GotoTypes DEF Steps
<1>2. LogLength' \in 0..(FRAME_LOG_SIZE + 1)
  <2>1. CASE Full(frameLog.size)
    <3>1. Goto(t, "pop") /\ "pop" \in Steps \ {"push"}
      BY <2>1, <1>0 DEF Steps
    <3> QED
      BY <3>1, <1>0, LengthKept
  <2>2. CASE ~Full(frameLog.size)
    <3>1. frameLog \in Logs /\ frameLog' \in Logs /\ pc \in [Tasks -> Steps]
          /\ Goto(t, "push") /\ "push" \in Steps
      BY <2>2, <1>0 DEF TypeOK, Steps, Logs
    <3>2. PICK o \in {0, 1} :
              /\ LogLength = frameLog.size + (IF pc[t] = "push" THEN 1 ELSE 0) + o
              /\ LogLength' = frameLog'.size + (IF "push" = "push" THEN 1 ELSE 0) + o
      BY <3>1, LengthOf
    <3>3. FRAME_LOG_SIZE \in Nat /\ frameLog.size \in Int
          /\ 0 <= frameLog.size /\ frameLog.size < FRAME_LOG_SIZE
      BY <2>2, <3>1, BusAssumption DEF Full, Logs
    <3> QED
      BY <1>0, <3>2, <3>3
  <2> QED
    BY <2>1, <2>2
<1>3. TypeOK'
  BY <1>0, <1>1, <1>2 DEF TypeOK, Steps
<1>4. AttemptsOK' /\ AnswerIsMine'
  BY <1>0 DEF BusInv, Types, AttemptsOK, AnswerIsMine
<1>5. AloneInv'
  <2>1. alone'[t] /\ Listening(t)' => OwnTraffic(t)'
    BY <1>0, <1>1 DEF BusInv, AloneInv, Busy, Listening, OwnTraffic
  <2> QED
    BY <1>0, <1>1, <2>1, OneMoves DEF Busy
<1> QED
  BY <1>3, <1>4, <1>5

LEMMA PopOldestKeeps ==
    ASSUME BusInv, NEW t \in Tasks, PopOldest(t)
    PROVE  TypeOK' /\ AttemptsOK' /\ AloneInv' /\ AnswerIsMine'
<1>0. TypeOK /\ pc[t] = "pop" /\ Goto(t, "push") /\ "push" \in Steps
      /\ req' = req /\ attempt' = attempt /\ outcome' = outcome /\ entry' = entry
      /\ got' = got /\ alone' = alone /\ onWire' = onWire /\ rx' = rx
      /\ frameLog' = [frameLog EXCEPT !.size = @ - 1]
  BY DEF BusInv, Types, Steps, PopOldest
<1>1. pc' \in [Tasks -> Steps] /\ pc'[t] = "push" /\ \A u \in Others(t) : pc'[u] = pc[u]
  BY <1>0, GotoTypes
<1>2. frameLog \in Logs /\ frameLog' \in Logs /\ pc \in [Tasks -> Steps]
      /\ frameLog'.size = frameLog.size - 1
  BY <1>0 DEF TypeOK, Steps, Logs
<1>3. LogLength' \in 0..(FRAME_LOG_SIZE + 1)
  <2>1. PICK o \in {0, 1} :
              /\ LogLength = frameLog.size + (IF pc[t] = "push" THEN 1 ELSE 0) + o
              /\ LogLength' = frameLog'.size + (IF "push" = "push" THEN 1 ELSE 0) + o
    BY <1>0, <1>2, LengthOf
  <2>2. LogLength' = LogLength
    BY <1>0, <1>2, <2>1 DEF Logs
  <2> QED
    BY <1>0, <2>2 DEF TypeOK
<1>4. TypeOK'
  BY <1>0, <1>1, <1>2, <1>3 DEF TypeOK, Steps, Logs
<1>5. AttemptsOK' /\ AnswerIsMine'
  BY <1>0 DEF BusInv, Types, AttemptsOK, AnswerIsMine
<1>6. AloneInv'
  <2>1. alone'[t] /\ Listening(t)' => OwnTraffic(t)'
    BY <1>0, <1>1 DEF BusInv, AloneInv, Busy, Listening, OwnTraffic
  <2> QED
    BY <1>0, <1>1, <2>1, OneMoves DEF Busy
<1> QED
  BY <1>4, <1>5, <1>6

(* The entry is in the log, and the read goes on, or back, or ends.        *)
LEMMA PushEntryKeeps ==
    ASSUME BusInv, NEW t \in Tasks, PushEntry(t)
    PROVE  TypeOK' /\ AttemptsOK' /\ AloneInv' /\ AnswerIsMine'
<1>0. TypeOK /\ pc[t] = "push" /\ alone' = alone /\ onWire' = onWire /\ rx' = rx
      /\ frameLog' = [size |-> frameLog.size + 1, last |-> entry[t]]
  BY DEF BusInv, Types, PushEntry
<1>1. PICK where \in {"recv", "send", "idle"} : Goto(t, where)
  BY DEF PushEntry, Retry, Return
<1>2. where \in Steps /\ pc' \in [Tasks -> Steps] /\ pc'[t] = where
      /\ \A u \in Others(t) : pc'[u] = pc[u]
  BY <1>1, GotoTypes DEF Steps
<1>3. frameLog \in Logs /\ frameLog' \in Logs /\ pc \in [Tasks -> Steps]
      /\ frameLog'.size = frameLog.size + 1
  BY <1>0 DEF TypeOK, Steps, Logs
<1>4. LogLength' \in 0..(FRAME_LOG_SIZE + 1)
  <2>1. PICK o \in {0, 1} :
              /\ LogLength = frameLog.size + (IF pc[t] = "push" THEN 1 ELSE 0) + o
              /\ LogLength' = frameLog'.size + (IF where = "push" THEN 1 ELSE 0) + o
    BY <1>1, <1>2, <1>3, LengthOf
  <2>2. LogLength' = LogLength
    BY <1>0, <1>1, <1>3, <2>1 DEF Logs
  <2> QED
    BY <1>0, <2>2 DEF TypeOK
<1>5. SUFFICES /\ req' \in [Tasks -> Request] /\ got' \in [Tasks -> Request]
               /\ attempt' \in [Tasks -> 0..MAX_READ_ATTEMPTS]
               /\ entry' \in [Tasks -> Entries] /\ outcome' \in [Tasks -> Outcomes]
               /\ AttemptsOK' /\ AnswerIsMine' /\ AloneInv'
  BY <1>0, <1>2, <1>3, <1>4 DEF TypeOK, Steps, Logs, Outcomes
<1>6. CASE entry[t] = "tx" /\ Goto(t, "recv")
           /\ UNCHANGED <<outcome, attempt, entry, req, got>>
  <2>1. alone'[t] => OwnTraffic(t)'
    BY <1>0, <1>6 DEF BusInv, AloneInv, Busy, Listening, OwnTraffic
  <2>2. AloneInv'
    BY <1>0, <1>2, <2>1, OneMoves DEF Busy
  <2> QED
    BY <1>0, <1>6, <2>2 DEF TypeOK, Outcomes, BusInv, Types, AttemptsOK, AnswerIsMine
<1>7. CASE attempt[t] < MaxAttempts(t) /\ Retry(t)
           /\ entry' = [entry EXCEPT ![t] = "tx"] /\ UNCHANGED <<outcome, req, got>>
  <2>1. attempt' = [attempt EXCEPT ![t] = @ + 1] /\ Goto(t, "send")
    BY <1>7 DEF Retry
  <2>2. attempt[t] \in Nat /\ attempt[t] + 1 <= MaxAttempts(t)
        /\ attempt[t] + 1 \in 0..MAX_READ_ATTEMPTS
    BY <1>0, <1>7, AttemptsPossible, BusAssumption DEF TypeOK
  <2>3. attempt' \in [Tasks -> 0..MAX_READ_ATTEMPTS] /\ attempt'[t] = attempt[t] + 1
        /\ \A u \in Others(t) : attempt'[u] = attempt[u]
    BY <1>0, <2>1, <2>2 DEF TypeOK, Others
  <2>4. AttemptsOK'
    BY <2>2, <2>3 DEF BusInv, Types, AttemptsOK, Others
  <2>5. entry' \in [Tasks -> Entries] /\ AnswerIsMine'
    BY <1>0, <1>7 DEF TypeOK, Entries, BusInv, AnswerIsMine
  <2>6. ~Listening(t)'
    BY <1>2, <2>1, <1>0 DEF Listening, Goto, TypeOK
  <2>7. AloneInv'
    BY <1>0, <1>2, <2>6, OneMoves DEF Busy
  <2> QED
    BY <1>0, <1>7, <2>3, <2>4, <2>5, <2>7 DEF TypeOK, Outcomes
<1>8. CASE entry[t] # "tx" /\ Return(t)
  <2>1. /\ outcome' = [outcome EXCEPT ![t] = Result[entry[t]]]
        /\ attempt' = [attempt EXCEPT ![t] = 0] /\ entry' = [entry EXCEPT ![t] = "tx"]
        /\ req' = [req EXCEPT ![t] = Ask(Polled, 1)]
        /\ got' = [got EXCEPT ![t] = req'[t]] /\ Goto(t, "idle")
    BY <1>8 DEF Return
  <2>2. Ask(Polled, 1) \in Request
    BY BusAssumption DEF Ask, Request
  <2>3. entry[t] \in {"data", "exception", "timeout"}
    BY <1>0, <1>8 DEF TypeOK, Entries
  <2>4. Result[entry[t]] \in Outcomes
    BY <2>3 DEF Result, Outcomes
  <2>5. outcome' \in [Tasks -> Outcomes] /\ entry' \in [Tasks -> Entries]
        /\ attempt' \in [Tasks -> 0..MAX_READ_ATTEMPTS]
    BY <1>0, <2>1, <2>4, BusAssumption DEF TypeOK, Outcomes, Entries
  <2>6. req' \in [Tasks -> Request] /\ req'[t] = Ask(Polled, 1)
    BY <1>0, <2>1, <2>2 DEF TypeOK
  <2>7. got' \in [Tasks -> Request]
    BY <1>0, <2>1, <2>2, <2>6 DEF TypeOK
  <2>8. AttemptsOK'
    <3>1. ASSUME NEW u \in Tasks PROVE attempt'[u] <= MaxAttempts(u)
      <4>1. MaxAttempts(u) \in Nat /\ attempt[u] <= MaxAttempts(u)
        BY AttemptsPossible DEF BusInv, Types, AttemptsOK
      <4>2. attempt'[u] = (IF u = t THEN 0 ELSE attempt[u])
        BY <1>0, <2>1 DEF TypeOK
      <4> QED
        BY <4>1, <4>2
    <3> QED
      BY <3>1 DEF AttemptsOK
  <2>9. AnswerIsMine'
    <3>1. ASSUME NEW u \in Tasks, entry'[u] = "data", alone'[u]
          PROVE  got'[u] = req'[u]
      <4>1. u # t
        BY <1>0, <2>1, <3>1 DEF TypeOK
      <4>2. got'[u] = got[u] /\ req'[u] = req[u] /\ entry'[u] = entry[u]
        BY <1>0, <2>1, <4>1 DEF TypeOK
      <4> QED
        BY <1>0, <3>1, <4>2 DEF BusInv, AnswerIsMine
    <3> QED
      BY <3>1 DEF AnswerIsMine
  <2>10. ~Listening(t)'
    BY <1>0, <1>2, <2>1 DEF Listening, Goto, TypeOK
  <2>11. AloneInv'
    BY <1>0, <1>2, <2>10, OneMoves DEF Busy
  <2> QED
    BY <2>5, <2>6, <2>7, <2>8, <2>9, <2>11
<1> QED
  BY <1>6, <1>7, <1>8 DEF PushEntry

LEMMA ReadStepKeeps ==
    ASSUME BusInv, NEW t \in Tasks, ReadStep(t)
    PROVE  BusInv'
<1>1. TypeOK' /\ AttemptsOK' /\ AloneInv' /\ AnswerIsMine'
  BY TransmitKeeps, ClearEchoKeeps, TestRoomKeeps, PopOldestKeeps, PushEntryKeeps,
     ReceiveKeeps DEF ReadStep, logFrame
<1>2. scan' = scan /\ Busy(t) /\ \E where \in Steps : Goto(t, where)
  BY DEF ReadStep, Transmit, ClearEcho, logFrame, TestRoom, PopOldest, PushEntry, Retry,
         Return, Accept, Refuse, Timeout, Tear, Hear, Busy, Steps
<1>3. ScanTypeOK'
  BY <1>2 DEF BusInv, Types, ScanTypeOK
<1>4. Turns'
  BY <1>2, GotoTypes DEF BusInv, Turns, Busy, Others
<1> QED
  BY <1>1, <1>3, <1>4 DEF BusInv, Types

(* A slave answers a read that it heard.                                   *)
LEMMA AnswerKeeps ==
    ASSUME BusInv, NEW w \in onWire, NEW frame \in Answers(w), Answer(w, frame)
    PROVE  TypeOK' /\ AttemptsOK' /\ AloneInv' /\ AnswerIsMine'
<1>0. TypeOK /\ pc' = pc /\ req' = req /\ attempt' = attempt /\ outcome' = outcome
      /\ entry' = entry /\ got' = got /\ alone' = alone /\ frameLog' = frameLog
      /\ onWire' = onWire \ {w} /\ rx' \in {frame, Garbled}
  BY DEF BusInv, Types, Answer, reads
<1>1. w.to \in Request /\ frame \in Inputs /\ Garbled \in Inputs
  BY <1>0 DEF TypeOK, Waiting, Answers, Inputs, Data
<1>2. LogLength' = LogLength
  BY <1>0 DEF LogLength, Adding
<1>3. TypeOK'
  BY <1>0, <1>1, <1>2 DEF TypeOK
<1>4. AttemptsOK' /\ AnswerIsMine'
  BY <1>0 DEF BusInv, Types, AttemptsOK, AnswerIsMine
<1>5. rx'.kind = "data" => rx'.to = w.to
  BY <1>0 DEF Answers, Data, Exception, Garbled
<1>6. \A t \in Tasks : OwnTraffic(t) => OwnTraffic(t)'
  BY <1>0, <1>5 DEF OwnTraffic
<1>7. AloneInv'
  BY <1>0, <1>6 DEF BusInv, AloneInv, Busy, Listening
<1> QED
  BY <1>3, <1>4, <1>7

-----------------------------------------------------------------------------
(* The scan and its reads.  A web read that a sound scan waits for is the  *)
(* only one that moves: what it logs shows.                                *)
LEMMA WebReadsAlone ==
    ASSUME ScanInv, NEW t \in Tasks, ReadStep(t),
           (scan.at = "wait" /\ scan.sound /\ alone["web"])'
    PROVE  t = "web" /\ scan' = scan /\ scan.at = "wait" /\ scan.sound /\ alone["web"]
<1>1. scan' = scan /\ Busy(t) /\ scan.at = "wait" /\ scan.sound /\ "web" \in Tasks
  BY DEF ReadStep, Transmit, ClearEcho, logFrame, TestRoom, PopOldest, PushEntry,
         Accept, Refuse, Timeout, Tear, Hear, Busy, ScanInv, BusInv, Types, ScanTypeOK
<1>2. alone["web"]
  BY <1>1 DEF ReadStep, Transmit, ClearEcho, logFrame, TestRoom, PopOldest, PushEntry,
         Accept, Refuse, Timeout, Tear, Hear, ScanInv, BusInv, Types, TypeOK
<1>3. t = "web"
  BY <1>1, <1>2 DEF ScanInv, WaitInv, Others
<1> QED
  BY <1>1, <1>2, <1>3

LEMMA ReadStepTells ==
    ASSUME ScanInv, NEW t \in Tasks, ReadStep(t)
    PROVE  WaitInv' /\ Tallied'
<1>1. Tallied'
  BY DEF ScanInv, Tallied, ReadStep, Transmit, ClearEcho, logFrame, TestRoom, PopOldest,
         PushEntry, Accept, Refuse, Timeout, Tear, Hear
<1>2. SUFFICES ASSUME (scan.at = "wait" /\ scan.sound /\ alone["web"])'
               PROVE  WaitInv'
  BY <1>1 DEF WaitInv
<1>3. t = "web" /\ scan' = scan /\ scan.at = "wait" /\ scan.sound /\ alone["web"]
  BY <1>2, WebReadsAlone
<1>4. (\A u \in Others("web") : ~Busy(u)) /\ LogTells
  BY <1>3 DEF ScanInv, WaitInv
<1>5. pc \in [Tasks -> Steps] /\ outcome \in [Tasks -> Outcomes]
      /\ entry \in [Tasks -> Entries] /\ attempt \in [Tasks -> 0..MAX_READ_ATTEMPTS]
      /\ frameLog \in Logs /\ scan.before \in Int /\ FRAME_LOG_SIZE \in Nat
  BY BusAssumption DEF ScanInv, BusInv, Types, TypeOK, ScanTypeOK, Scans, Steps, Logs, Outcomes
<1>6. \A u \in Others("web") : ~Busy(u)'
  <2>1. \E where \in Steps : Goto("web", where)
    BY <1>3 DEF ReadStep, Transmit, ClearEcho, logFrame, TestRoom, PopOldest, PushEntry, Retry,
           Return, Accept, Refuse, Timeout, Tear, Hear, Steps
  <2> QED
    BY <1>3, <1>4, <2>1, GotoTypes DEF ScanInv, Busy
<1>7. SUFFICES LogTells'
  BY <1>6 DEF WaitInv
<1>8. CASE Transmit("web")
  <2>1. pc'["web"] = "echo" /\ frameLog' = frameLog /\ attempt' = attempt
        /\ pc["web"] = "send"
    BY <1>3, <1>5, <1>8 DEF Transmit, Goto
  <2> QED
    BY <1>3, <1>4, <2>1 DEF LogTells
<1>9. CASE ClearEcho("web")
  <2>1. pc'["web"] = "test" /\ attempt' = attempt /\ pc["web"] = "echo"
        /\ frameLog' = frameLog /\ entry'["web"] = "tx"
    BY <1>3, <1>5, <1>9 DEF ClearEcho, Goto
  <2> QED
    BY <1>3, <1>4, <1>5, <2>1 DEF LogTells, Logs
<1>10. ASSUME NEW what \in {"data", "exception", "timeout"}, Hear("web", what)
       PROVE  LogTells'
  <2>1. pc'["web"] = "test" /\ attempt' = attempt /\ pc["web"] = "recv"
        /\ frameLog' = frameLog /\ entry'["web"] = what /\ what # "tx"
    BY <1>3, <1>5, <1>10 DEF Hear, Goto
  <2> QED
    BY <1>3, <1>4, <1>5, <2>1 DEF LogTells
<1>11. CASE TestRoom("web")
  <2>1. pc["web"] = "test" /\ attempt' = attempt /\ frameLog' = frameLog /\ entry' = entry
    BY <1>11 DEF TestRoom
  <2>2. frameLog.size = scan.before + (IF entry["web"] = "tx" THEN 0 ELSE 1)
    BY <1>4, <2>1 DEF LogTells
  <2>3. ~Full(frameLog.size)
    BY <1>4, <1>5, <2>2 DEF LogTells, Full
  <2>4. pc'["web"] = "push"
    BY <1>3, <1>5, <1>11, <2>3 DEF TestRoom, Goto
  <2> QED
    BY <1>3, <1>4, <2>1, <2>2, <2>4 DEF LogTells
<1>12. ~PopOldest("web")
  BY <1>4 DEF LogTells, PopOldest
<1>13. CASE PushEntry("web")
  <2>1. pc["web"] = "push" /\ frameLog' = [size |-> frameLog.size + 1, last |-> entry["web"]]
        /\ frameLog.size = scan.before + (IF entry["web"] = "tx" THEN 0 ELSE 1)
        /\ attempt["web"] = 1 /\ MaxAttempts("web") = 1
        /\ 0 <= scan.before /\ scan.before + 2 <= FRAME_LOG_SIZE
    BY <1>4, <1>13 DEF LogTells, PushEntry, MaxAttempts
  <2>2. CASE entry["web"] = "tx"
    <3>1. pc'["web"] = "recv" /\ attempt' = attempt
      BY <1>3, <1>5, <1>13, <2>1, <2>2 DEF PushEntry, Goto
    <3>2. frameLog'.size = scan.before + 1
      BY <1>5, <2>1, <2>2
    <3> QED
      BY <1>3, <2>1, <3>1, <3>2 DEF LogTells
  <2>3. CASE entry["web"] # "tx"
    <3>1. Return("web")
      BY <1>13, <2>1, <2>3 DEF PushEntry
    <3>2. entry["web"] \in {"data", "exception", "timeout"}
      BY <1>3, <1>5, <2>3 DEF Entries
    <3>3. outcome'["web"] = Result[entry["web"]] /\ pc'["web"] = "idle"
      BY <1>3, <1>5, <3>1 DEF Return, Goto
    <3>4. outcome'["web"] \in DOMAIN Told /\ entry["web"] = Told[outcome'["web"]]
      BY <3>2, <3>3 DEF Result, Told
    <3>5. frameLog' = [size |-> scan.before + 2, last |-> Told[outcome'["web"]]]
      <4>1. frameLog.size + 1 = scan.before + 2
        BY <1>5, <2>1, <2>3
      <4> QED
        BY <2>1, <3>4, <4>1
    <3> QED
      BY <1>3, <2>1, <3>3, <3>4, <3>5 DEF LogTells
  <2> QED
    BY <2>2, <2>3
<1>14. CASE Accept("web") \/ Refuse("web") \/ Timeout("web") \/ Tear("web")
  BY <1>10, <1>14 DEF Accept, Refuse, Timeout, Tear
<1> QED
  BY <1>3, <1>8, <1>9, <1>11, <1>12, <1>13, <1>14 DEF ReadStep, logFrame

(* The poller's read ends the web task's being alone.                      *)
LEMMA PollReadKeeps == ScanInv /\ PollRead => ScanInv'
<1> SUFFICES ASSUME ScanInv, PollRead PROVE ScanInv'
  OBVIOUS
<1>1. PICK r \in 1..Regs : Start("poller", Ask(Polled, r))
  BY DEF PollRead
<1>2. "poller" \in Tasks /\ frameLog' = frameLog /\ scan' = scan
      /\ Ask(Polled, r) \in Request
  BY BusAssumption DEF PollRead, Ask, Request
<1>3. TypeOK' /\ AttemptsOK' /\ AloneInv' /\ AnswerIsMine'
  BY <1>1, <1>2, StartKeeps DEF ScanInv
<1>4. ScanTypeOK' /\ Turns' /\ Tallied'
  BY <1>1, <1>2 DEF ScanInv, BusInv, Types, TypeOK, ScanTypeOK, Turns, Tallied, Start, Goto
<1>5. WaitInv'
  BY <1>1, <1>2 DEF ScanInv, BusInv, Types, ScanTypeOK, WaitInv, Start
<1> QED
  BY <1>3, <1>4, <1>5 DEF ScanInv, BusInv, Types

LEMMA ProbeKeeps == ScanInv /\ Probe => ScanInv'
<1> SUFFICES ASSUME ScanInv, Probe PROVE ScanInv'
  OBVIOUS
<1>1. PICK s \in Typed, r \in 1..Regs : Start("web", Ask(s, r))
  BY DEF Probe
<1>2. "web" \in Tasks /\ frameLog' = frameLog /\ scan' = scan /\ scan.at = "none"
      /\ Ask(s, r) \in Request
  BY BusAssumption DEF Probe, Ask, Request
<1>3. TypeOK' /\ AttemptsOK' /\ AloneInv' /\ AnswerIsMine'
  BY <1>1, <1>2, StartKeeps DEF ScanInv
<1>4. ScanTypeOK' /\ Turns' /\ Tallied' /\ WaitInv'
  BY <1>2 DEF ScanInv, BusInv, Types, ScanTypeOK, Turns, Tallied, WaitInv
<1> QED
  BY <1>3, <1>4 DEF ScanInv, BusInv, Types

(* A test starts with room in the log for what its read may leave there.   *)
LEMMA TestSlaveKeeps == ScanInv /\ TestSlave => ScanInv'
<1> SUFFICES ASSUME ScanInv, TestSlave PROVE ScanInv'
  OBVIOUS
<1> USE DEF Scans
<1>1. scan \in Scans /\ LogLength \in 0..(FRAME_LOG_SIZE + 1)
      /\ frameLog \in Logs /\ "web" \in Tasks /\ pc \in [Tasks -> Steps]
      /\ attempt \in [Tasks -> 0..MAX_READ_ATTEMPTS] /\ scan.at = "test"
  BY DEF TestSlave, ScanInv, BusInv, Types, TypeOK, ScanTypeOK, Logs, Steps
<1>2. Start("web", Ask(scan.slave, scan.reg)) /\ frameLog' = frameLog
  BY DEF TestSlave
<1>3. Ask(scan.slave, scan.reg) \in Request
  BY <1>1, BusAssumption DEF Ask, Request, Addresses
<1>4. TypeOK' /\ AttemptsOK' /\ AloneInv' /\ AnswerIsMine'
  BY <1>1, <1>2, <1>3, StartKeeps DEF ScanInv
<1>5. /\ scan'.at = "wait" /\ scan'.before = frameLog.size
      /\ scan'.found = scan.found /\ scan'.answered = scan.answered
      /\ scan'.sound => scan.sound /\ frameLog.size + 2 <= FRAME_LOG_SIZE
  BY <1>1 DEF TestSlave
<1>6. ScanTypeOK' /\ Turns' /\ Tallied'
  <2>1. frameLog.size \in Int
    BY <1>1 DEF Logs
  <2>2. (scan.sound /\ frameLog.size + 2 <= FRAME_LOG_SIZE) \in BOOLEAN
    OBVIOUS
  <2>3. ScanTypeOK'
    BY <1>1, <2>1, <2>2 DEF TestSlave, ScanTypeOK
  <2> QED
    BY <1>5, <2>3 DEF Turns, Tallied, ScanInv
<1>7. WaitInv'
  <2>1. SUFFICES ASSUME scan'.sound, alone'["web"] PROVE WaitInv'
    BY DEF WaitInv
  <2>2. pc'["web"] = "send" /\ attempt'["web"] = 1
        /\ \A u \in Others("web") : pc'[u] = pc[u]
    BY <1>1, <1>2 DEF Start, Goto, Others
  <2>3. \A u \in Others("web") : pc[u] = "idle"
    BY <1>1, <1>2, <2>1 DEF Start, Others
  <2>4. 0 <= frameLog.size
    <3>1. \A u \in Tasks : pc[u] # "push"
      BY <1>1, <1>2, <2>3 DEF Start, Others
    <3>2. LogLength = frameLog.size
      BY <1>1, <3>1, LengthIdle
    <3> QED
      BY <1>1, <3>2
  <2>5. LogTells'
    BY <1>2, <1>5, <2>1, <2>2, <2>4 DEF LogTells
  <2> QED
    BY <2>2, <2>3, <2>5 DEF WaitInv, Busy
<1> QED
  BY <1>4, <1>6, <1>7 DEF ScanInv, BusInv, Types

(* What the log tells of a sound test is whether the slave answered.       *)
LEMMA TestDoneKeeps == ScanInv /\ TestDone => ScanInv'
<1> SUFFICES ASSUME ScanInv, TestDone PROVE ScanInv'
  OBVIOUS
<1> DEFINE answered == outcome["web"] \in {"ok", "refused"}
           sound == scan.sound /\ alone["web"]
           next == Responded \/ scan.reg = Regs
           over == next /\ NextAddress(scan.slave) > scan.last
           heard == {a \in {scan.slave} : Responded}
           replied == {a \in {scan.slave} : answered}
<1> USE DEF Scans
<1>1. scan \in Scans
      /\ scan.at = "wait" /\ "web" \in Tasks /\ pc["web"] = "idle"
      /\ alone \in [Tasks -> BOOLEAN]
      /\ pc' = pc /\ req' = req /\ attempt' = attempt /\ outcome' = outcome /\ got' = got
      /\ alone' = alone /\ entry' = entry /\ onWire' = onWire /\ rx' = rx
      /\ frameLog' = frameLog
  BY DEF TestDone, ScanInv, BusInv, Types, TypeOK, ScanTypeOK, reads
<1>2. TypeOK' /\ AttemptsOK' /\ AloneInv' /\ AnswerIsMine'
  BY <1>1 DEF ScanInv, BusInv, Types, TypeOK, AttemptsOK, AloneInv, OwnTraffic, Listening,
              AnswerIsMine, Busy, LogLength, Adding
<1>3. scan' = [scan EXCEPT
             !.at = IF over THEN "done" ELSE "test",
             !.slave = IF next THEN NextAddress(scan.slave) ELSE scan.slave,
             !.reg = IF next THEN 1 ELSE scan.reg + 1, !.before = 0,
             !.found = IF sound THEN scan.found \cup heard ELSE {},
             !.answered = IF sound THEN scan.answered \cup replied ELSE {},
             !.sound = sound]
  BY DEF TestDone
<1>4. ScanTypeOK'
  <2>1. AddressRange \in Nat \ {0} /\ Regs \in Nat \ {0}
    BY BusAssumption
  <2>2. \A s \in Addresses : NextAddress(s) \in Addresses
    BY <2>1 DEF NextAddress, Addresses
  <2>3. (IF next THEN 1 ELSE scan.reg + 1) \in 1..Regs
        /\ (IF next THEN NextAddress(scan.slave) ELSE scan.slave) \in Addresses
    BY <1>1, <2>1, <2>2
  <2>4. (IF sound THEN scan.found \cup heard ELSE {}) \subseteq Addresses
        /\ (IF sound THEN scan.answered \cup replied ELSE {}) \subseteq Addresses
    BY <1>1
  <2>5. sound \in BOOLEAN
    OBVIOUS
  <2> HIDE DEF over, answered, next, heard, replied, sound
  <2>6. scan' = [at |-> IF over THEN "done" ELSE "test",
             slave |-> IF next THEN NextAddress(scan.slave) ELSE scan.slave,
             last |-> scan.last, reg |-> IF next THEN 1 ELSE scan.reg + 1, before |-> 0,
             found |-> IF sound THEN scan.found \cup heard ELSE {},
             answered |-> IF sound THEN scan.answered \cup replied ELSE {},
             sound |-> sound]
    BY <1>1, <1>3
  <2>7. (IF over THEN "done" ELSE "test") \in {"none", "test", "wait", "done"}
        /\ scan.last \in Addresses /\ 0 \in Int
    BY <1>1
  <2> QED
    BY <1>1, <2>3, <2>4, <2>5, <2>6, <2>7 DEF ScanTypeOK
<1>5. Turns' /\ WaitInv'
  <2> HIDE DEF over, answered, next, heard, replied, sound
  <2>1. scan'.at \in {"test", "done"}
    BY <1>1, <1>3
  <2> QED
    BY <1>1, <2>1 DEF Turns, WaitInv
<1>6. Tallied'
  <2>1. SUFFICES ASSUME sound PROVE Responded <=> answered
    <3>1. scan'.sound = sound
          /\ scan'.found = (IF sound THEN scan.found \cup heard ELSE {})
          /\ scan'.answered = (IF sound THEN scan.answered \cup replied ELSE {})
      <4> HIDE DEF over, answered, next, heard, replied, sound
      <4> QED
        BY <1>1, <1>3
    <3> QED
      BY <2>1, <3>1 DEF Tallied, ScanInv
  <2>2. outcome["web"] \in DOMAIN Told /\ 0 <= scan.before
        /\ frameLog = [size |-> scan.before + 2, last |-> Told[outcome["web"]]]
    BY <1>1, <2>1 DEF ScanInv, WaitInv, LogTells
  <2>3. Exceeds(frameLog.size, scan.before)
    BY <1>1, <2>2 DEF Exceeds
  <2> QED
    BY <2>2, <2>3 DEF Responded, Told
<1> QED
  BY <1>2, <1>4, <1>5, <1>6 DEF ScanInv, BusInv, Types

Fresh(at, first, end) ==
    [at |-> at, slave |-> first, last |-> end, reg |-> 1, before |-> 0,
     found |-> {}, answered |-> {}, sound |-> TRUE]
LEMMA FreshScan ==
    ASSUME NEW at \in {"none", "test", "done"}, NEW first \in Addresses,
           NEW end \in Addresses
    PROVE  Fresh(at, first, end) \in Scans
<1>1. 1 \in 1..Regs /\ 0 \in Int /\ {} \in SUBSET Addresses
  BY BusAssumption
<1> QED
  BY <1>1 DEF Fresh, Scans

LEMMA PageKeeps == ScanInv /\ (StartScan \/ EndScan) => ScanInv'
<1> SUFFICES ASSUME ScanInv, StartScan \/ EndScan PROVE ScanInv'
  OBVIOUS
<1>1. /\ pc' = pc /\ req' = req /\ attempt' = attempt /\ outcome' = outcome /\ got' = got
      /\ alone' = alone /\ entry' = entry /\ onWire' = onWire /\ rx' = rx
      /\ frameLog' = frameLog
  BY DEF StartScan, EndScan, reads
<1>2. TypeOK' /\ AttemptsOK' /\ AloneInv' /\ AnswerIsMine'
  BY <1>1 DEF ScanInv, BusInv, Types, TypeOK, AttemptsOK, AloneInv, OwnTraffic, Listening,
              AnswerIsMine, Busy, LogLength, Adding
<1>3. 0 \in Addresses /\ Typed \subseteq Addresses
  BY BusAssumption DEF Addresses
<1>4. ScanTypeOK' /\ WaitInv' /\ Tallied'
  <2>1. CASE EndScan
    <3>1. scan' = Fresh("none", 0, 0)
      BY <2>1 DEF EndScan, NoScan, Fresh
    <3> QED
      BY <1>3, <3>1, FreshScan DEF ScanTypeOK, WaitInv, Tallied, Fresh
  <2>2. CASE StartScan
    <3>1. PICK first \in Typed, end \in Typed :
            scan' = [NoScan EXCEPT !.at = IF first <= end THEN "test" ELSE "done",
                                   !.slave = first, !.last = end]
      BY <2>2 DEF StartScan
    <3>2. PICK at \in {"test", "done"} : scan' = Fresh(at, first, end)
      BY <3>1 DEF NoScan, Fresh
    <3>3. first \in Addresses /\ end \in Addresses /\ at \in {"none", "test", "done"}
      BY <1>3, <3>1, <3>2
    <3>4. scan' \in Scans
      BY <3>2, <3>3, FreshScan
    <3> QED
      BY <2>2, <3>2, <3>3, <3>4 DEF ScanTypeOK, WaitInv, Tallied, Fresh, StartScan
  <2> QED
    BY <2>1, <2>2
<1>5. Turns'
  <2>1. CASE StartScan
    BY <1>1, <2>1 DEF Turns, StartScan
  <2>2. CASE EndScan
    BY <2>2 DEF Turns, EndScan, NoScan
  <2> QED
    BY <2>1, <2>2
<1> QED
  BY <1>2, <1>4, <1>5 DEF ScanInv, BusInv, Types

(* The page empties the log, perhaps while the poller is about to add.     *)
LEMMA ClearFrameLogKeeps == ScanInv /\ ClearFrameLog => ScanInv'
<1> SUFFICES ASSUME ScanInv, ClearFrameLog PROVE ScanInv'
  OBVIOUS
<1>1. /\ pc' = pc /\ req' = req /\ attempt' = attempt /\ outcome' = outcome /\ got' = got
      /\ alone' = alone /\ entry' = entry /\ onWire' = onWire /\ rx' = rx /\ scan' = scan
      /\ scan.at = "none" /\ "web" \in Tasks /\ pc["web"] = "idle"
      /\ frameLog' = [size |-> 0, last |-> "none"]
  BY DEF ClearFrameLog, reads, EmptyLog
<1>2. LogLength' \in 0..(FRAME_LOG_SIZE + 1)
  BY <1>1, BusAssumption DEF LogLength, Adding
<1>3. TypeOK'
  BY <1>1, <1>2 DEF ScanInv, BusInv, Types, TypeOK
<1>4. AttemptsOK' /\ AloneInv' /\ AnswerIsMine'
  BY <1>1 DEF ScanInv, BusInv, Types, AttemptsOK, AloneInv, OwnTraffic, Listening,
              AnswerIsMine, Busy
<1>5. ScanTypeOK' /\ Turns' /\ WaitInv' /\ Tallied'
  BY <1>1 DEF ScanInv, BusInv, Types, ScanTypeOK, Turns, WaitInv, Tallied
<1> QED
  BY <1>3, <1>4, <1>5 DEF ScanInv, BusInv, Types

LEMMA SlaveKeeps ==
    ASSUME ScanInv, NEW w \in onWire, \E frame \in Answers(w) : Answer(w, frame)
    PROVE  ScanInv'
<1>1. TypeOK' /\ AttemptsOK' /\ AloneInv' /\ AnswerIsMine'
  BY AnswerKeeps DEF ScanInv
<1>2. pc' = pc /\ attempt' = attempt /\ outcome' = outcome /\ alone' = alone
      /\ entry' = entry /\ frameLog' = frameLog /\ scan' = scan
  BY DEF Answer, reads
<1>3. ScanTypeOK' /\ Turns' /\ WaitInv' /\ Tallied'
  BY <1>2 DEF ScanInv, BusInv, Types, ScanTypeOK, Turns, WaitInv, LogTells, Tallied, Busy
<1> QED
  BY <1>1, <1>3 DEF ScanInv, BusInv, Types

LEMMA ScanInvNext == ScanInv /\ [Next]_vars => ScanInv'
<1> SUFFICES ASSUME ScanInv, [Next]_vars PROVE ScanInv'
  OBVIOUS
<1>1. CASE PollRead
  BY <1>1, PollReadKeeps
<1>2. CASE Probe
  BY <1>2, ProbeKeeps
<1>3. CASE ClearFrameLog
  BY <1>3, ClearFrameLogKeeps
<1>4. CASE StartScan \/ EndScan
  BY <1>4, PageKeeps
<1>5. CASE TestSlave
  BY <1>5, TestSlaveKeeps
<1>6. CASE TestDone
  BY <1>6, TestDoneKeeps
<1>7. ASSUME NEW t \in Tasks, ReadStep(t) PROVE ScanInv'
  BY <1>7, ReadStepKeeps, ReadStepTells DEF ScanInv
<1>8. ASSUME NEW w \in onWire, \E frame \in Answers(w) : Answer(w, frame) PROVE ScanInv'
  BY <1>8, SlaveKeeps
<1>9. CASE UNCHANGED vars
  BY <1>9 DEF vars, reads, ScanInv, BusInv, Types, TypeOK, ScanTypeOK, AttemptsOK, Turns,
              AloneInv, OwnTraffic, Listening, AnswerIsMine, WaitInv, LogTells, Tallied, Busy,
              LogLength, Adding
<1> QED
  BY <1>1, <1>2, <1>3, <1>4, <1>5, <1>6, <1>7, <1>8, <1>9 DEF Next, ScanStep

LEMMA BusInvariant == Spec => []ScanInv
  BY BusInvInit, ScanInvNext, PTL DEF Spec

(* Every state the client, the scan and the wire reach is well formed: no  *)
(* read has more attempts than MAX_READ_ATTEMPTS, and however the two      *)
(* tasks' logFrame and clearFrameLog interleave, the frame log is never    *)
(* more than one entry over its size.                                      *)
THEOREM BusTypes == Spec => []TypeOK
<1>1. ScanInv => TypeOK
  BY DEF ScanInv, BusInv, Types
<1> QED
  BY <1>1, BusInvariant, PTL

(* readHoldingRegisters: a read that had the bus to itself and succeeds    *)
(* returns the registers it asked for, of the slave it asked, if no other  *)
(* read was still to be answered when it began to listen.  An answer to an *)
(* earlier attempt of the read may come at any time, or never.             *)
THEOREM ReadAloneIsMine == Spec => []AnswerIsMine
<1>1. ScanInv => AnswerIsMine
  BY DEF ScanInv, BusInv
<1> QED
  BY <1>1, BusInvariant, PTL

(* "scan_slaves": a scan that had the bus to itself and room in the frame  *)
(* log finds the slaves that answered it, and no other.                    *)
THEOREM ScanFindsAll == Spec => []ScanFindsResponders
<1>1. ScanInv => ScanFindsResponders
  BY DEF ScanInv, Tallied, ScanFindsResponders
<1> QED
  BY <1>1, BusInvariant, PTL
=============================================================================
