------------------------------ MODULE ConsoleLog ------------------------------
(***************************************************************************)
(* The console of the web interface (lib/webui): a ring of recent lines    *)
(* and the WebSocket clients that watch it.                                *)
(*                                                                         *)
(* logCallback is a sink of the logger: it runs on the task that logs, has *)
(* no lock, and sends to the clients before it moves the index on.  The    *)
(* web task logs too while it connects a client, and the WebSocket library *)
(* reports a client it finds gone from whichever call found it, so that a  *)
(* line can be logged inside of logging another.                           *)
(*                                                                         *)
(* What a task still has to do is a sequence of steps.  An event the       *)
(* library reports puts its handler in front of it.  Of two accesses to    *)
(* shared variables in a row, only those another task can tell apart are   *)
(* separate steps.                                                         *)
(***************************************************************************)
EXTENDS Integers, Sequences, FiniteSets, SequencesExt

CONSTANTS
    Loggers,                \* tasks that log, besides the web task
    Web,                    \* the web task
    LOG_BUFFER_SIZE,
    REPLAY,                 \* lines sent to a new client
    MAX_WEBSOCKET_CLIENTS,
    Sockets,                \* clients of the WebSocket library, by number
    Addresses,
    MaxLines,               \* bound: lines logged
    MaxEvents,              \* bound: clients that come, leave or fail
    MaxTogether             \* bound: both together, but for a line of the last event

ASSUME ConsoleAssumption ==
    /\ Web \notin Loggers
    /\ LOG_BUFFER_SIZE \in Nat \ {0} /\ REPLAY \in 1..LOG_BUFFER_SIZE
    /\ MAX_WEBSOCKET_CLIENTS \in 1..255 /\ 255 \notin Sockets   \* both in a uint8_t
    /\ Addresses # {} /\ MaxLines \in Nat
    /\ MaxEvents \in Nat /\ MaxTogether \in Nat

VARIABLES
    lines,                  \* how many lines reached the console; their names
    logBuffer,              \* per slot: whose line its header and its text are
    logBufferIndex, logBufferCount,
    todo,                   \* per task: its steps
    local,                  \* per task: the value loaded last
    wsClients,              \* slots: a socket and its address, or Free
    connectedClients,       \* uint8_t
    open, gone,             \* sockets the library holds; and those not there in fact
    address,                \* of the open sockets (remoteIP)
    missing,                \* history, per socket: lines it was to get and did not yet
    during,                 \* history: lines begun since the replay that is under way
                            \* was measured
    overtaken,              \* history: sockets whose replay the ring may have overtaken
    orderly,                \* history: lines logged one after another since two
                            \* callbacks overlapped, LOG_BUFFER_SIZE at most
    overlap, unbroken,      \* history: do some now; has none ever
    contended,                  \* history: two tasks had clients to add or remove
    events                  \* how many clients came, left or failed

ring == <<logBuffer, logBufferIndex, logBufferCount>>
registry == <<wsClients, connectedClients>>
sockets == <<open, gone, address>>
viewers == <<missing, during, overtaken>>
past == <<orderly, overlap, unbroken>>
tally == <<contended, events>>
consoleVars == <<lines, ring, todo, local, registry, sockets, viewers, past, tally>>

ConsoleTasks == Loggers \cup {Web}
Free == [id |-> 255]
Empty == [head |-> 0, text |-> 0]
Places == 1..MAX_WEBSOCKET_CLIENTS
Least(a, b) == IF a < b THEN a ELSE b

ConsoleInit ==
    /\ lines = 0
    /\ logBuffer = [i \in 0..(LOG_BUFFER_SIZE - 1) |-> Empty]
    /\ logBufferIndex = 0 /\ logBufferCount = 0
    /\ todo = [t \in ConsoleTasks |-> <<>>] /\ local = [t \in ConsoleTasks |-> 0]
    /\ wsClients = [i \in Places |-> Free] /\ connectedClients = 0
    /\ open = {} /\ gone = {}
    /\ address = [s \in Sockets |-> CHOOSE a \in Addresses : TRUE]
    /\ missing = [s \in Sockets |-> {}] /\ during = 0 /\ overtaken = {} /\ events = 0
    /\ orderly = <<>> /\ overlap = FALSE /\ unbroken = TRUE /\ contended = FALSE

-----------------------------------------------------------------------------
(* Steps and what is left of them.                                         *)
Do(what) == [do |-> what]
On(what, s) == [do |-> what, socket |-> s]
AtPlace(what, i) == [do |-> what, place |-> i]

Step(t) == Head(todo[t])
About(t, what) == todo[t] # <<>> /\ Step(t).do = what
Then(t, steps) == todo' = [todo EXCEPT ![t] = steps \o Tail(@)]
Done(t) == Then(t, <<>>)
Load(t, value) == local' = [local EXCEPT ![t] = value]
LeftOf(t, kinds) == Cardinality({k \in DOMAIN todo[t] : todo[t][k].do \in kinds})

(* ESPLogger::print: the sink is called if the level, which can be set at  *)
(* any time, lets the line pass.                                           *)
Callback ==
    <<Do("head"), Do("text"), Do("format"), Do("advance"), Do("test"), Do("count")>>
Ahead == Cardinality(UNION {{t} \X {k \in DOMAIN todo[t] : todo[t][k].do = "head"} :
                               t \in ConsoleTasks})
Room == lines + Ahead + events < MaxTogether
Line == {<<>>} \cup (IF Room /\ lines + Ahead < MaxLines THEN {Callback} ELSE {})

(* Callbacks that have begun and are not over.                             *)
Begun(t) == LeftOf(t, {"count"}) - LeftOf(t, {"head"})
Inside == {t \in ConsoleTasks : Begun(t) > 0}
UnderWay == IF Inside = {} THEN 0 ELSE 1

-----------------------------------------------------------------------------
Log(t) ==
    /\ todo[t] = <<>>
    /\ \E line \in Line : todo' = [todo EXCEPT ![t] = line]
    /\ UNCHANGED <<lines, ring, local, registry, sockets, viewers, past, tally>>

(* logCallback().  Each access reads the index anew.                       *)
Replayed == {s \in Sockets : \E k \in DOMAIN todo[Web] :
                    todo[Web][k].do = "resend" /\ todo[Web][k].socket = s}
Overtaking(n) == n > LOG_BUFFER_SIZE - REPLAY
Claims(s) == \E i \in Places : wsClients[i].id = s
StoreHead(t) ==
    /\ About(t, "head")
    /\ lines' = lines + 1
    /\ logBuffer' = [logBuffer EXCEPT ![logBufferIndex].head = lines']
    /\ Load(t, lines')
    /\ Done(t)
    /\ IF Inside = {}
       THEN /\ missing' = [s \in Sockets |-> missing[s] \cup {x \in {lines'} : Claims(s)}]
            /\ UNCHANGED past
       ELSE /\ missing' = [s \in Sockets |-> {}]
            /\ orderly' = <<>> /\ overlap' = TRUE /\ unbroken' = FALSE
    /\ during' = IF Replayed = {} THEN 0 ELSE Least(during + 1, LOG_BUFFER_SIZE)
    /\ overtaken' = IF Overtaking(during') THEN overtaken \cup Replayed ELSE overtaken
    /\ UNCHANGED <<logBufferIndex, logBufferCount, registry, sockets, tally>>

StoreText(t) ==
    /\ About(t, "text")
    /\ logBuffer' = [logBuffer EXCEPT ![logBufferIndex].text = local[t]]
    /\ Load(t, 0)
    /\ Done(t)
    /\ UNCHANGED <<lines, logBufferIndex, logBufferCount, registry, sockets, viewers, past,
                   tally>>

(* broadcastLogMessage(): the message is put together, unless nobody       *)
(* listens, and sent to one client after the other.  The index, which is   *)
(* stored in Advance, is loaded next.                                      *)
Listened == connectedClients > 0

Format(t) ==
    /\ About(t, "format")
    /\ IF Listened
       THEN /\ Then(t, <<[do |-> "send", entry |-> logBuffer[logBufferIndex]]>>)
            /\ UNCHANGED local
       ELSE Done(t) /\ Load(t, logBufferIndex)
    /\ UNCHANGED <<lines, ring, registry, sockets, viewers, past, tally>>

Show(e, s) == IF e.head = e.text THEN missing[s] \ {e.head} ELSE missing[s]
Send(t) ==
    /\ About(t, "send") /\ gone = {}
    /\ missing' = [s \in Sockets |->
                      IF s \in open THEN Show(Step(t).entry, s) ELSE missing[s]]
    /\ Load(t, logBufferIndex)
    /\ Done(t)
    /\ UNCHANGED <<lines, ring, registry, sockets, during, overtaken, past, tally>>

(* Mutant of Advanced: the index is not taken modulo the size.             *)
NotWrapped(i) == i + 1
Advanced(i) == (i + 1) % LOG_BUFFER_SIZE
Advance(t) ==
    /\ About(t, "advance")
    /\ logBufferIndex' = Advanced(local[t])
    /\ Load(t, logBufferCount)
    /\ Done(t)
    /\ UNCHANGED <<lines, logBuffer, logBufferCount, registry, sockets, viewers, past,
                   tally>>

(* The count is loaded for its test, and loaded again to be counted up, by *)
(* when another task may have reached the limit; it then passes it.        *)
(* Mutant of BelowLimit: the limit is one too low.                         *)
OneShort(n) == n + 1 < LOG_BUFFER_SIZE
BelowLimit(n) == n < LOG_BUFFER_SIZE
AtLimit == -1
TestCount(t) ==
    /\ About(t, "test")
    /\ Load(t, IF BelowLimit(local[t]) THEN logBufferCount ELSE AtLimit)
    /\ Done(t)
    /\ UNCHANGED <<lines, ring, registry, sockets, viewers, past, tally>>

(* The line is over: the last one begun, if no other overlapped it.        *)
LastOf(s, n) == IF n < 0 THEN <<>> ELSE SubSeq(s, Len(s) - Least(Len(s), n) + 1, Len(s))
Count(t) ==
    /\ About(t, "count")
    /\ logBufferCount' = IF local[t] = AtLimit THEN logBufferCount ELSE local[t] + 1
    /\ Load(t, 0)
    /\ Done(t)
    /\ overlap' = (overlap /\ (Inside # {t} \/ Begun(t) > 1))
    /\ orderly' = IF overlap THEN <<>> ELSE LastOf(Append(orderly, lines), LOG_BUFFER_SIZE)
    /\ UNCHANGED <<lines, logBuffer, logBufferIndex, registry, sockets, viewers, unbroken,
                   tally>>

logCallback(t) == StoreHead(t) \/ StoreText(t) \/ Format(t) \/ Send(t) \/ Advance(t)
                  \/ TestCount(t) \/ Count(t)

-----------------------------------------------------------------------------
(* The clients' slots.  ++ and -- load and store; both then log.  A slot   *)
(* may be named in place of the client it holds when it is read.           *)
RegistrySteps == {"add", "remove", "forget", "clear", "up", "down"}
Contend(t) ==
    contended' = (contended \/ \E u \in ConsoleTasks \ {t} : LeftOf(u, RegistrySteps) > 0)
Subject(t) ==
    IF "place" \in DOMAIN Step(t) THEN wsClients[Step(t).place].id ELSE Step(t).socket
SlotOf(s) ==
    CHOOSE i \in Places : wsClients[i].id = s /\ \A j \in 1..(i - 1) : wsClients[j].id # s

addWebSocketClient(t) ==
    /\ About(t, "add")
    /\ Contend(t)
    /\ IF Claims(Free.id)
       THEN /\ wsClients' = [wsClients EXCEPT ![SlotOf(Free.id)] =
                                [id |-> Step(t).socket, ip |-> Step(t).ip]]
            /\ Load(t, connectedClients)
            /\ Then(t, <<Do("up")>>)
       ELSE Done(t) /\ UNCHANGED <<wsClients, local>>
    /\ UNCHANGED <<lines, ring, connectedClients, sockets, viewers, past, events>>

(* Mutant of Known: `connected` is not tested beside the id.               *)
IdMatches(s) == Claims(s)
Known(s) == s # Free.id /\ Claims(s)

removeWebSocketClient(t) ==
    /\ About(t, "remove") \/ About(t, "forget")
    /\ Contend(t)
    /\ IF Known(Subject(t))
       THEN Then(t, <<AtPlace("clear", SlotOf(Subject(t))), Do("down")>>)
       ELSE Done(t)
    /\ UNCHANGED <<lines, ring, local, registry, sockets, viewers, past, events>>

ClearSlot(t) ==
    /\ About(t, "clear")
    /\ wsClients' = [wsClients EXCEPT ![Step(t).place] = Free]
    /\ Load(t, connectedClients)
    /\ Done(t)
    /\ UNCHANGED <<lines, ring, connectedClients, sockets, viewers, past, tally>>

CountClients(t) ==
    /\ About(t, "up") \/ About(t, "down")
    /\ connectedClients' = (local[t] + (IF About(t, "up") THEN 1 ELSE -1)) % 256
    /\ Load(t, 0)
    /\ \E line \in Line : Then(t, line)
    /\ UNCHANGED <<lines, ring, wsClients, sockets, viewers, past, tally>>

-----------------------------------------------------------------------------
(* Events of the library, and their handlers in onWebSocketEvent().        *)
Event == Room /\ events < MaxEvents /\ events' = events + 1
Close(s) == open' = open \ {s} /\ gone' = gone \ {s}
DISCONNECTED(s) == {line \o <<On("remove", s)>> : line \in Line}

(* A browser leaves; whichever call looks at its socket next reports it:   *)
(* the web task's loop() or its sends, or a broadcast on any task.         *)
Leave(s) ==
    /\ Event
    /\ s \in open \ gone /\ gone' = gone \cup {s}
    /\ UNCHANGED <<lines, ring, todo, local, registry, open, address, viewers, past, contended>>

Notice(t, s) ==
    /\ s \in gone /\ Close(s)
    /\ \/ About(t, "send")
       \/ About(t, "resend") /\ Step(t).socket = s
       \/ t = Web /\ todo[t] = <<>>
    /\ \E steps \in DISCONNECTED(s) : todo' = [todo EXCEPT ![t] = steps \o @]
    /\ UNCHANGED <<lines, ring, local, registry, address, viewers, past, tally>>

(* ERROR: the client loses its slot and stays connected.                   *)
ErrorEvent(s) ==
    /\ Event
    /\ todo[Web] = <<>> /\ s \in open
    /\ \E steps \in DISCONNECTED(s) : todo' = [todo EXCEPT ![Web] = steps]
    /\ UNCHANGED <<lines, ring, local, registry, sockets, viewers, past, contended>>

FromAddress(a) == Cardinality({i \in Places : wsClients[i] # Free /\ wsClients[i].ip = a})
Refused(a) == FromAddress(a) >= 3 \/ connectedClients >= MAX_WEBSOCKET_CLIENTS

(* CONNECTED.  The slots are then visited in turn for older clients.       *)
Visits(s, a) == [i \in Places |-> [do |-> "visit", place |-> i, socket |-> s, ip |-> a]]
Welcome(s, a) ==
    <<[do |-> "add", socket |-> s, ip |-> a]>> \o Visits(s, a) \o <<On("replay", s)>>
Accept(s, a) ==
    /\ Event
    /\ todo[Web] = <<>> /\ s \notin open
    /\ open' = open \cup {s} /\ address' = [address EXCEPT ![s] = a]
    /\ missing' = [missing EXCEPT ![s] = {}]
    /\ \E line \in Line :
          todo' = [todo EXCEPT ![Web] =
                       line \o IF Refused(a) THEN <<On("disconnect", s)>> ELSE Welcome(s, a)]
    /\ UNCHANGED <<lines, ring, local, registry, gone, during, overtaken, past, contended>>

(* Mutant of Duplicate: the loop starts one slot late.                     *)
NotTheFirst(i, s, a) ==
    i > 1 /\ wsClients[i] # Free /\ wsClients[i].ip = a /\ wsClients[i].id # s
Duplicate(i, s, a) == wsClients[i] # Free /\ wsClients[i].ip = a /\ wsClients[i].id # s

VisitSlot(t) ==
    /\ About(t, "visit")
    /\ LET i == Step(t).place IN
       IF Duplicate(i, Step(t).socket, Step(t).ip)
       THEN \E line \in Line :
                Then(t, line \o <<AtPlace("disconnect", i), AtPlace("forget", i)>>)
       ELSE Done(t)
    /\ UNCHANGED <<lines, ring, local, registry, sockets, viewers, past, tally>>

(* disconnect() reports a client that was connected before it returns.     *)
disconnect(t) ==
    /\ About(t, "disconnect")
    /\ IF Subject(t) \in open
       THEN Close(Subject(t)) /\ \E steps \in DISCONNECTED(Subject(t)) : Then(t, steps)
       ELSE Done(t) /\ UNCHANGED <<open, gone>>
    /\ UNCHANGED <<lines, ring, local, registry, address, viewers, past, tally>>

(* The replay: its extent is measured once, its entries are read in turn.  *)
(* A line under way may have taken the place of the oldest of them: the    *)
(* index has moved on and the count has not.  Mutant of FirstIndex: one    *)
(* off.                                                                    *)
OneOff(n) == (logBufferIndex - n + 1 + LOG_BUFFER_SIZE) % LOG_BUFFER_SIZE
FirstIndex(n) == (logBufferIndex - n + LOG_BUFFER_SIZE) % LOG_BUFFER_SIZE
Replay(t) ==
    /\ About(t, "replay")
    /\ LET s == Step(t).socket
           n == Least(logBufferCount, REPLAY)
           latest == LastOf(orderly, Least(Len(orderly), REPLAY) - UnderWay)
       IN  /\ Then(t, [i \in 1..n |-> [do |-> "resend", socket |-> s,
                                index |-> (FirstIndex(n) + i - 1) % LOG_BUFFER_SIZE]])
           /\ missing' = [missing EXCEPT ![s] = ToSet(latest)]
           /\ overtaken' = (overtaken \ {s}) \cup {x \in {s} : Overtaking(UnderWay)}
    /\ during' = UnderWay
    /\ UNCHANGED <<lines, ring, local, registry, sockets, past, tally>>

Resend(t) ==
    /\ About(t, "resend")
    /\ LET s == Step(t).socket IN
       /\ s \notin gone
       /\ missing' = IF s \notin open THEN missing
                     ELSE [missing EXCEPT ![s] = Show(logBuffer[Step(t).index], s)]
    /\ Done(t)
    /\ UNCHANGED <<lines, ring, local, registry, sockets, during, overtaken, past, tally>>

Registering(t) == addWebSocketClient(t) \/ removeWebSocketClient(t) \/ ClearSlot(t)
                  \/ CountClients(t)
Connecting(t) == VisitSlot(t) \/ disconnect(t) \/ Replay(t) \/ Resend(t)

ConsoleNext ==
    \/ \E t \in ConsoleTasks :
          \/ Log(t) \/ logCallback(t) \/ Registering(t) \/ Connecting(t)
          \/ \E s \in Sockets : Notice(t, s)
    \/ \E s \in Sockets :
          \/ Leave(s) \/ ErrorEvent(s)
          \/ \E a \in Addresses : Accept(s, a)

ConsoleSpec == ConsoleInit /\ [][ConsoleNext]_consoleVars

-----------------------------------------------------------------------------
(* What handleLogsAPI() lists, and what a replay would send now.           *)
LogsAPI ==
    LET recent == Least(logBufferCount, LOG_BUFFER_SIZE)
        start == IF logBufferCount < LOG_BUFFER_SIZE THEN 0 ELSE logBufferIndex
        offset == logBufferCount - recent
    IN  [i \in 1..recent |-> logBuffer[(start + offset + i - 1) % LOG_BUFFER_SIZE]]
Recent ==
    LET n == Least(logBufferCount, REPLAY)
    IN  [i \in 1..n |-> logBuffer[(FirstIndex(n) + i - 1) % LOG_BUFFER_SIZE]]
Whole(s) == [i \in DOMAIN s |-> [head |-> s[i], text |-> s[i]]]

(* The console's variables have their types: above all, the index stays    *)
(* within the buffer although it is updated without a lock.  The count     *)
(* does not, once two lines overlapped.                                    *)
ConsoleTypeOK ==
    /\ logBufferIndex \in 0..(LOG_BUFFER_SIZE - 1) /\ logBufferCount \in Nat
    /\ logBuffer \in [0..(LOG_BUFFER_SIZE - 1) -> [head : 0..lines, text : 0..lines]]
    /\ wsClients \in [Places -> [id : Sockets, ip : Addresses] \cup {Free}]
    /\ connectedClients \in 0..255
    /\ gone \subseteq open /\ open \subseteq Sockets /\ lines \in 0..MaxLines
    /\ missing \in [Sockets -> SUBSET (1..lines)]

(* Callbacks that overlap, on two tasks or one inside of the other, tear   *)
(* entries and skip or reuse slots; but a buffer's worth of lines after, a *)
(* new console is sent the latest lines again, in order, and the log page  *)
(* lists all that the buffer holds, in order too if the count is not past  *)
(* its limit: past it, it stays so, and the page begins with the wrong     *)
(* line.  Until two callbacks overlap the count keeps its limit, and both  *)
(* are right at all times.                                                 *)
ConsoleHeals ==
    (Inside = {} /\ (unbroken \/ Len(orderly) = LOG_BUFFER_SIZE)) =>
        /\ Recent = Whole(LastOf(orderly, REPLAY))
        /\ unbroken \/ logBufferCount <= LOG_BUFFER_SIZE => LogsAPI = Whole(orderly)

(* A client that has a slot and has had its replay misses none of the      *)
(* lines it was to get, those of the replay and those logged after it was  *)
(* measured: unless lines overlapped, two tasks changed the slots at once, *)
(* or so many were logged during the replay that they overtook it.         *)
Connected(s) == Claims(s) /\ s \in open \ gone
Watching(s) ==
    Connected(s) /\ \A t \in ConsoleTasks : LeftOf(t, {"add", "replay", "resend"}) = 0
ConsoleSeesAll ==
    \A s \in Sockets :
        (Watching(s) /\ ~contended /\ s \notin overtaken)
            => missing[s] \cap ToSet(orderly) = {}

(* The count of clients, which decides whether lines are sent at all and   *)
(* whether a client is refused, is the number of slots taken.              *)
ClientsCounted ==
    (~contended /\ \A t \in ConsoleTasks : LeftOf(t, {"up", "down"}) = 0)
        => connectedClients = Cardinality({i \in Places : wsClients[i] # Free})

(* Once a connection is dealt with, no two clients of its address are      *)
(* connected and hold a slot: whatever another task did to the slots       *)
(* meanwhile, the older was found and dropped.                             *)
Holds(s, a) == \E i \in Places : wsClients[i] = [id |-> s, ip |-> a]
OneConsolePerAddress ==
    todo[Web] = <<>> =>
        \A a \in Addresses : Cardinality({s \in open : address[s] = a /\ Holds(s, a)}) <= 1
=============================================================================
