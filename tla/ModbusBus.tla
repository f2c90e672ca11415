------------------------------ MODULE ModbusBus ------------------------------
(***************************************************************************)
(* The Modbus RTU client (lib/modbus_client) on its serial port, the slave *)
(* scan of the diagnostics page (lib/webui) and the slaves on the wire.    *)
(*                                                                         *)
(* The poller task and the web task call the same client, which no lock    *)
(* guards: a transaction is split at the points where the other task, or   *)
(* an answer, can get in.  A frame is what it answers: the client accepts  *)
(* any frame with a good CRC and the expected length, whoever sent it, and *)
(* all requests here ask for equally many registers.  A slave may answer   *)
(* long after the client has given up waiting.                             *)
(***************************************************************************)
EXTENDS Integers, FiniteSets

CONSTANTS
    Tasks,       \* subset of {"poller", "web"} that use the bus
    Polled,      \* the slave the poller reads
    AddressRange,    \* slave addresses are counted modulo this (uint8_t)
    Typed,       \* addresses the page sends, to probe or to scan from or to
    Alive,       \* slaves that are on the wire
    Regs,        \* register blocks: of a poll, and the scan's testRegisters
    MAX_READ_ATTEMPTS,
    FRAME_LOG_SIZE,
    MaxWaiting   \* bound: requests the slaves still have to answer

ASSUME BusAssumption ==
    /\ Tasks \subseteq {"poller", "web"} /\ AddressRange \in Nat \ {0}
    /\ Typed \subseteq 0..(AddressRange - 1)
    /\ Polled \in Nat /\ Alive \subseteq Nat /\ Regs \in Nat \ {0}
    /\ MAX_READ_ATTEMPTS \in Nat \ {0} /\ FRAME_LOG_SIZE \in Nat \ {0}
    /\ MaxWaiting \in Nat

VARIABLES
    pc, req, attempt, outcome,  \* per task: its read
    entry,       \* per task: what it logs of the frame it sent or received
    got,         \* per task, history: what the accepted frame answers
    alone,       \* per task, history: it has had the bus to itself
    onWire,      \* requests that slaves have heard and not answered yet
    rx,          \* frames in the receive FIFO
    frameLog,    \* number of logged frames and kind of the last one
    scan         \* the web task's scan; history: slaves that answered it, and
                 \* were its reads alone, with room in the log

reads == <<pc, req, attempt, outcome, entry, got, alone>>
vars == <<reads, onWire, rx, frameLog, scan>>

Request == [slave : Nat, reg : 1..Regs]
Ask(s, r) == [slave |-> s, reg |-> r]
NoFrame == [kind |-> "none"]
Exception == [kind |-> "exception"]
Garbled == [kind |-> "garbled"]
Data(q) == [kind |-> "data", to |-> q]
Inputs == {NoFrame, Exception, Garbled} \cup [kind : {"data"}, to : Request]
Waiting == [to : Request, id : 1..MaxWaiting]
Entries == {"tx", "data", "exception", "timeout"}
EmptyLog == [size |-> 0, last |-> "none"]
Addresses == 0..(AddressRange - 1)

NoScan == [at |-> "none", slave |-> 0, last |-> 0, reg |-> 1, before |-> 0,
           found |-> {}, answered |-> {}, sound |-> TRUE]

Init ==
    /\ pc = [t \in Tasks |-> "idle"]
    /\ req = [t \in Tasks |-> Ask(Polled, 1)]
    /\ got = req
    /\ attempt = [t \in Tasks |-> 0] /\ entry = [t \in Tasks |-> "tx"]
    /\ alone = [t \in Tasks |-> TRUE]
    /\ outcome = [t \in Tasks |-> "none"]
    /\ onWire = {} /\ rx = NoFrame /\ frameLog = EmptyLog
    /\ scan = NoScan

Goto(t, where) == pc' = [pc EXCEPT ![t] = where]

-----------------------------------------------------------------------------
(* readWithRetry: the poller retries, the diagnostics page does not.  A    *)
(* read has the bus to itself if the other task is idle throughout and,    *)
(* whenever it begins to listen, no other read is still to be answered.    *)
MaxAttempts(t) == IF t = "poller" THEN MAX_READ_ATTEMPTS ELSE 1

Start(t, q) ==
    /\ pc[t] = "idle" /\ Goto(t, "send")
    /\ req' = [req EXCEPT ![t] = q] /\ attempt' = [attempt EXCEPT ![t] = 1]
    /\ outcome' = [outcome EXCEPT ![t] = "none"]
    /\ alone' = [u \in Tasks |->
                   IF u = t THEN \A v \in Tasks \ {t} : pc[v] = "idle"
                   ELSE alone[u] /\ pc[u] = "idle"
                        /\ ~(u = "web" /\ scan.at = "wait")]
    /\ got' = [got EXCEPT ![t] = q]
    /\ UNCHANGED <<entry, onWire, rx>>

PollRead ==
    /\ "poller" \in Tasks
    /\ \E r \in 1..Regs : Start("poller", Ask(Polled, r))
    /\ UNCHANGED <<frameLog, scan>>

Probe ==
    /\ "web" \in Tasks /\ scan.at = "none"
    /\ \E s \in Typed, r \in 1..Regs : Start("web", Ask(s, r))
    /\ UNCHANGED <<frameLog, scan>>

ClearFrameLog ==
    /\ "web" \in Tasks /\ scan.at = "none" /\ pc["web"] = "idle"
    /\ frameLog' = EmptyLog
    /\ UNCHANGED <<reads, onWire, rx, scan>>

(* sendFrame: drop what is in the FIFO; transmit; drop the echo, and what  *)
(* else has come meanwhile.  The slave that hears the request will answer. *)
Copy(q, n) == [to |-> q, id |-> n]
Hears(q) ==
    /\ q.slave \in Alive /\ Cardinality(onWire) < MaxWaiting
    /\ \E n \in 1..MaxWaiting :
          /\ Copy(q, n) \notin onWire /\ \A m \in 1..(n - 1) : Copy(q, m) \in onWire
          /\ onWire' = onWire \cup {Copy(q, n)}
Transmit(t) ==
    /\ pc[t] = "send" /\ Goto(t, "echo")
    /\ rx' = NoFrame
    /\ Hears(req[t]) \/ UNCHANGED onWire
    /\ UNCHANGED <<req, attempt, outcome, entry, got, alone, frameLog, scan>>

(* Mutant of ClearEcho: only the input before the request is dropped.      *)
Own(t) == \A w \in onWire : w.to = req[t]
KeepEcho(t) ==
    /\ pc[t] = "echo" /\ Goto(t, "test") /\ entry' = [entry EXCEPT ![t] = "tx"]
    /\ alone' = [alone EXCEPT ![t] = @ /\ Own(t)]
    /\ UNCHANGED <<req, attempt, outcome, got, onWire, rx, frameLog, scan>>
ClearEcho(t) ==
    /\ pc[t] = "echo" /\ Goto(t, "test") /\ entry' = [entry EXCEPT ![t] = "tx"]
    /\ alone' = [alone EXCEPT ![t] = @ /\ Own(t)]
    /\ rx' = NoFrame
    /\ UNCHANGED <<req, attempt, outcome, got, onWire, frameLog, scan>>

(* A slave answers at any time after it heard the request, or never.       *)
(* Frames with no gap between them are one to the reader, which fails the  *)
(* CRC.  (One that was garbled on the way is as good as none.)             *)
Answers(w) == {Data(w.to), Exception}
Answer(w, frame) ==
    /\ Copy(w.to, w.id + 1) \notin onWire      \* of equal requests, any
    /\ onWire' = onWire \ {w}
    /\ rx' = IF rx = NoFrame THEN frame ELSE Garbled
    /\ UNCHANGED <<reads, frameLog, scan>>

(* receiveFrame and parseReadResponse.                                     *)
Hear(t, what) ==
    /\ pc[t] = "recv" /\ Goto(t, "test")
    /\ entry' = [entry EXCEPT ![t] = what]
    /\ UNCHANGED <<req, attempt, outcome, alone, onWire, frameLog, scan>>

Accept(t) ==
    /\ rx.kind = "data" /\ Hear(t, "data")
    /\ got' = [got EXCEPT ![t] = rx.to] /\ rx' = NoFrame

Refuse(t) ==
    /\ rx \in {Exception, Garbled}
    /\ Hear(t, IF rx = Exception THEN "exception" ELSE "timeout")
    /\ rx' = NoFrame /\ UNCHANGED got

Timeout(t) == rx = NoFrame /\ Hear(t, "timeout") /\ UNCHANGED <<got, rx>>

(* Two readers share the bytes of a frame.                                 *)
Tear(t) ==
    /\ rx # NoFrame /\ \E u \in Tasks \ {t} : pc[u] = "recv"
    /\ Hear(t, "timeout") /\ rx' = Garbled /\ UNCHANGED got

(* logFrame tests the size, drops the oldest entry and adds one, on two    *)
(* tasks and with no lock.  An entry dropped from a log that was cleared   *)
(* meanwhile makes its length negative, which size_t shows as huge.        *)
(* Mutant of Full: the log grows past its size.                            *)
FullLate(n) == n > FRAME_LOG_SIZE \/ n < 0
Full(n) == n >= FRAME_LOG_SIZE \/ n < 0

TestRoom(t) ==
    /\ pc[t] = "test" /\ Goto(t, IF Full(frameLog.size) THEN "pop" ELSE "push")
    /\ UNCHANGED <<req, attempt, outcome, entry, got, alone, onWire, rx, frameLog, scan>>

PopOldest(t) ==
    /\ pc[t] = "pop" /\ Goto(t, "push")
    /\ frameLog' = [frameLog EXCEPT !.size = @ - 1]
    /\ UNCHANGED <<req, attempt, outcome, entry, got, alone, onWire, rx, scan>>

(* The frame is logged: go on to the answer, back off for another attempt, *)
(* or return, which ends the locals of the read.  Mutant of Retry: it does *)
(* not count.                                                              *)
RetryForEver(t) == Goto(t, "send") /\ UNCHANGED attempt
Retry(t) == Goto(t, "send") /\ attempt' = [attempt EXCEPT ![t] = @ + 1]
Result == [data |-> "ok", exception |-> "refused", timeout |-> "failed"]
Return(t) ==
    /\ Goto(t, "idle")
    /\ outcome' = [outcome EXCEPT ![t] = Result[entry[t]]]
    /\ attempt' = [attempt EXCEPT ![t] = 0] /\ entry' = [entry EXCEPT ![t] = "tx"]
    /\ req' = [req EXCEPT ![t] = Ask(Polled, 1)] /\ got' = [got EXCEPT ![t] = req'[t]]
PushEntry(t) ==
    /\ pc[t] = "push"
    /\ frameLog' = [size |-> frameLog.size + 1, last |-> entry[t]]
    /\ \/ /\ entry[t] = "tx" /\ Goto(t, "recv")
          /\ UNCHANGED <<outcome, attempt, entry, req, got>>
       \/ /\ entry[t] \in {"exception", "timeout"} /\ attempt[t] < MaxAttempts(t)
          /\ Retry(t) /\ entry' = [entry EXCEPT ![t] = "tx"]
          /\ UNCHANGED <<outcome, req, got>>
       \/ /\ entry[t] # "tx"
          /\ entry[t] # "data" => attempt[t] = MaxAttempts(t)
          /\ Return(t)
    /\ UNCHANGED <<alone, onWire, rx, scan>>

logFrame(t) == TestRoom(t) \/ PopOldest(t) \/ PushEntry(t)

ReadStep(t) ==
    \/ Transmit(t) \/ ClearEcho(t) \/ logFrame(t)
    \/ Accept(t) \/ Refuse(t) \/ Timeout(t) \/ Tear(t)

-----------------------------------------------------------------------------
(* handleDiagnosticsAPI, "scan_slaves": for every address, registers until *)
(* one is answered; an answer shows as growth of the frame log.            *)
StartScan ==
    /\ "web" \in Tasks /\ scan.at = "none" /\ pc["web"] = "idle"
    /\ \E start, end \in Typed :
          scan' = [NoScan EXCEPT !.at = IF start <= end THEN "test" ELSE "done",
                                 !.slave = start, !.last = end]
    /\ UNCHANGED <<reads, onWire, rx, frameLog>>

TestSlave ==
    /\ scan.at = "test"
    /\ Start("web", Ask(scan.slave, scan.reg))
    /\ scan' = [scan EXCEPT !.at = "wait", !.before = frameLog.size,
                             !.sound = @ /\ frameLog.size + 2 <= FRAME_LOG_SIZE]
    /\ UNCHANGED frameLog

(* Mutant of Responded: a timeout counts as a response.                    *)
Exceeds(m, n) == IF (m < 0) = (n < 0) THEN m > n ELSE m < n     \* as size_t
RespondedAny == Exceeds(frameLog.size, scan.before) /\ frameLog.last # "tx"
Responded ==
    Exceeds(frameLog.size, scan.before) /\ frameLog.last \in {"data", "exception"}

(* Mutant of NextAddress: the address is tested again.                     *)
SameAddress(s) == s
NextAddress(s) == (s + 1) % AddressRange

TestDone ==
    /\ scan.at = "wait" /\ pc["web"] = "idle"
    /\ LET next == Responded \/ scan.reg = Regs
           over == next /\ NextAddress(scan.slave) > scan.last
           answered == outcome["web"] \in {"ok", "refused"}
           sound == scan.sound /\ alone["web"]
       IN scan' = [scan EXCEPT
             !.at = IF over THEN "done" ELSE "test",
             !.slave = IF next THEN NextAddress(@) ELSE @,
             !.reg = IF next THEN 1 ELSE @ + 1, !.before = 0,
             !.found = IF sound THEN @ \cup {a \in {scan.slave} : Responded} ELSE {},
             !.answered = IF sound THEN @ \cup {a \in {scan.slave} : answered} ELSE {},
             !.sound = sound]
    /\ UNCHANGED <<reads, onWire, rx, frameLog>>

(* The page shows the result.                                              *)
EndScan ==
    /\ scan.at = "done" /\ scan' = NoScan
    /\ UNCHANGED <<reads, onWire, rx, frameLog>>

ScanStep == TestSlave \/ TestDone \/ EndScan

Next ==
    \/ PollRead \/ Probe \/ ClearFrameLog \/ StartScan \/ ScanStep
    \/ \E t \in Tasks : ReadStep(t)
    \/ \E w \in onWire : \E frame \in Answers(w) : Answer(w, frame)

Spec == Init /\ [][Next]_vars

(* A task in a transaction runs on: its waits are bounded by the clock.    *)
Fairness == (\A t \in Tasks : WF_vars(ReadStep(t))) /\ WF_vars(ScanStep)
FairSpec == Spec /\ Fairness

-----------------------------------------------------------------------------
(* The frame log is over its size by one entry at most, although two tasks *)
(* may both find room for the last one; an entry that is being added is    *)
(* counted.  (Once over it stays so, as each further entry replaces one.)  *)
Adding(t) == IF t \in Tasks /\ pc[t] = "push" THEN 1 ELSE 0
LogLength == frameLog.size + Adding("poller") + Adding("web")
TypeOK ==
    /\ pc \in [Tasks -> {"idle", "send", "echo", "test", "pop", "push", "recv"}]
    /\ req \in [Tasks -> Request] /\ got \in [Tasks -> Request]
    /\ attempt \in [Tasks -> 0..MAX_READ_ATTEMPTS] /\ entry \in [Tasks -> Entries]
    /\ alone \in [Tasks -> BOOLEAN]
    /\ outcome \in [Tasks -> {"none", "ok", "refused", "failed"}]
    /\ onWire \subseteq Waiting /\ rx \in Inputs
    /\ frameLog \in [size : Int, last : Entries \cup {"none"}]
    /\ LogLength \in 0..(FRAME_LOG_SIZE + 1)

(* A read that had the bus to itself and succeeds returns the registers it *)
(* asked for, of the slave it asked, if no earlier read was still to be    *)
(* answered when it began to listen.  The client compares neither          *)
(* (ModbusClient.cpp:545), so it rests on the echo being dropped with all  *)
(* that came before it.  An answer that comes later still, to a read the   *)
(* client gave up, is taken for the answer to this one.                    *)
AnswerIsMine ==
    \A t \in Tasks : entry[t] = "data" /\ alone[t] => got[t] = req[t]

(* "The actual telemetry read below is the source of truth -- if the       *)
(* device is unreachable, it will fail with the right error"               *)
(* (Poller.cpp:96-98).                                                     *)
UnreachableFails ==
    Polled \notin Alive => \A t \in Tasks : t = "poller" => outcome[t] # "ok"

(* A scan lists a slave if, and only if, it answered, as long as the       *)
(* poller keeps off the bus and the frame log has room: the scan sees an   *)
(* answer only as growth of a log that stops growing when it is full.      *)
ScanFindsResponders ==
    scan.sound => scan.found = scan.answered

(* Every read ends, whatever the slaves do and whoever else takes the      *)
(* bytes, and every scan that is to end before the largest address: the    *)
(* one with `addr <= 255` never does.                                      *)
ReadsEnd == \A t \in Tasks : pc[t] # "idle" ~> pc[t] = "idle"
ScanEnds == scan.at # "none" /\ scan.last # AddressRange - 1 ~> scan.at = "none"
=============================================================================
