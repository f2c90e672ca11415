------------------------------- MODULE Logger -------------------------------
(***************************************************************************)
(* The logger (lib/ESPLogger) with the two sinks the firmware registers    *)
(* in setup(), before there are tasks: the log store and the web console.  *)
(*                                                                         *)
(* print() calls the sinks in turn on the task that logs, and neither      *)
(* touches a variable of the other.  So whatever the tasks do, what one    *)
(* sink goes through is an interleaving of calls of that sink: it is       *)
(* enough to follow either of them.                                        *)
(***************************************************************************)
EXTENDS LogCapture, ConsoleLog

VARIABLE watched            \* the sink that is followed

loggerVars == <<vars, consoleVars, watched>>
Sinks == {"store", "console"}

LoggerInit == Init /\ ConsoleInit /\ watched \in Sinks
FollowStore == watched = "store" /\ Next /\ UNCHANGED <<consoleVars, watched>>
FollowConsole == watched = "console" /\ ConsoleNext /\ UNCHANGED <<vars, watched>>
LoggerNext == FollowStore \/ FollowConsole

LoggerSpec == LoggerInit /\ [][LoggerNext]_loggerVars

(* Both sinks stay within the types of their variables.                    *)
LoggerTypeOK == TypeOK /\ ConsoleTypeOK /\ watched \in Sinks
=============================================================================
