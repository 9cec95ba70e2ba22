------------------------------ MODULE ShellTimers ------------------------------
(***************************************************************************)
(* The timers of the module shell, each a thread of its own that sleeps,   *)
(* runs a command and sends its output to a channel or nick.  The thread   *)
(* of the bot starts those marked for it at the INIT reply, stops all      *)
(* after an ERROR, and any of them by !timer or when the module goes: to   *)
(* stop one it cancels the thread and waits in pthread_join.               *)
(*                                                                         *)
(* The threads share the server with the bot's own: Script::send_text      *)
(* looks at the parameters of the line last parsed (cmd[2]) and at the     *)
(* table of DCCs to find where a text goes.                                *)
(***************************************************************************)
EXTENDS Naturals, FiniteSets, SequencesExt

CONSTANTS
  Order,           \* the timers of the configuration, in the order of the list
  FLAGS_START,     \* those that INIT starts
  RESULT_LINE_MAX, \* lines sent for one run of a command
  DCC_MAX,         \* bound: chats
  MaxConnects      \* bound

ASSUME ShellAssumption == Order \in Seq(ToSet(Order))

VARIABLES
  shellTimers, \* timers not deleted yet
  alive,     \* timer_type::alive
  thread,    \* thread[t]: the one t_id stands for
  cancelled, \* timers whose thread pthread_cancel was called for
  lines,     \* lines_sent of a thread that works
  strays,    \* threads no t_id stands for any more
  todo,      \* timers the bot's thread still has to stop (the first one now)
  why,       \* why it does: one of Stops; "none", or "command runs" that it waits for
  joins,     \* whether it waits in pthread_join
  conn,      \* "down", "open" until the INIT reply, "ready"
  connects,  \* connections so far
  chats,     \* DCC chats that are open: 1 .. chats
  line,      \* where the last line came from: 0 the server, k the k-th chat
  wrote,     \* history: where the last text of a thread went
  quiet,     \* history: the bot has stopped all timers after an ERROR
  noThread   \* whether a thread that never was has been cancelled

shellVars == <<shellTimers, alive, thread, cancelled, lines, strays, todo, why, joins, conn, connects,
               chats, line, wrote, quiet, noThread>>

Timers == ToSet(Order)

ShellInit ==
  /\ shellTimers = Timers
  /\ alive = [t \in Timers |-> FALSE]
  /\ thread = [t \in Timers |-> "none"]
  /\ cancelled = {} /\ lines = [t \in Timers |-> 0] /\ strays = 0
  /\ todo = << >> /\ why = "none" /\ joins = FALSE
  /\ conn = "down" /\ connects = 0 /\ chats = 0 /\ line = 0
  /\ wrote = "none" /\ quiet = FALSE /\ noThread = FALSE

Active(t) == thread[t] \in {"sleeps", "works"}
Stops     == {"error", "command", "unload"}
BotFree   == why = "none" /\ ~noThread

threadVars == <<cancelled, lines, wrote>>
stopVars   == <<shellTimers, todo, why, joins, noThread>>
lineVars   == <<chats, line>>

-----------------------------------------------------------------------------
(* The bot's thread.                                                        *)

\* What pthread_create returns is not looked at: alive is set all the same.
start(S) ==
  \E created \in SUBSET S :
    /\ alive' = [t \in Timers |-> alive[t] \/ t \in S]
    /\ thread' = [t \in Timers |-> IF t \in created THEN "sleeps" ELSE thread[t]]
    /\ strays' = strays + Cardinality({t \in created : Active(t)})
    /\ quiet' = FALSE

Connect ==
  /\ BotFree /\ conn = "down" /\ connects < MaxConnects
  /\ conn' = "open" /\ connects' = connects + 1 /\ line' = 0
  /\ UNCHANGED <<alive, thread, strays, chats, quiet, threadVars, stopVars>>

\* The timers that are alive are started once more.
shell_reply_Wrong ==
  /\ BotFree /\ conn = "open"
  /\ conn' = "ready" /\ line' = 0
  /\ start(FLAGS_START \cap shellTimers)
  /\ UNCHANGED <<connects, chats, threadVars, stopVars>>

shell_reply ==
  /\ BotFree /\ conn = "open"
  /\ conn' = "ready" /\ line' = 0
  /\ start({t \in FLAGS_START \cap shellTimers : ~alive[t]})
  /\ UNCHANGED <<connects, chats, threadVars, stopVars>>

\* Another line of the server, or of a chat: irc_parse, dcc_chat_work.
Line ==
  /\ BotFree /\ conn = "ready"
  /\ line' \in 0..chats
  /\ UNCHANGED <<alive, thread, strays, conn, connects, chats, quiet, threadVars, stopVars>>

\* The table is filled up when a chat in its middle ends.
Chats ==
  /\ BotFree /\ conn = "ready"
  /\ \/ chats < DCC_MAX /\ chats' = chats + 1
     \/ chats > 0 /\ chats' = chats - 1
  /\ UNCHANGED <<alive, thread, strays, conn, connects, line, quiet, threadVars, stopVars>>

cmd_timer_start ==
  /\ BotFree /\ conn = "ready"
  /\ line' \in 0..chats
  /\ \E t \in shellTimers : ~alive[t] /\ start({t})
  /\ UNCHANGED <<conn, connects, chats, threadVars, stopVars>>

cmd_timer_stop ==
  /\ BotFree /\ conn = "ready"
  /\ line' \in 0..chats
  /\ \E t \in shellTimers : alive[t] /\ todo' = << t >>
  /\ why' = "command"
  /\ UNCHANGED <<shellTimers, alive, thread, strays, joins, conn, connects, chats, quiet, noThread, threadVars>>

\* The first timer is not looked at.
shell_event_Wrong ==
  /\ BotFree /\ conn # "down" /\ shellTimers # {}
  /\ conn' = "down" /\ chats' = 0 /\ line' = 0
  /\ todo' = Tail(Order) /\ why' = "error"
  /\ UNCHANGED <<shellTimers, alive, thread, strays, joins, connects, quiet, noThread, threadVars>>

\* An ERROR: irc_restart, and then the module's function for events.
shell_event ==
  /\ BotFree /\ conn # "down" /\ shellTimers # {}
  /\ conn' = "down" /\ chats' = 0 /\ line' = 0
  /\ todo' = Order /\ why' = "error"
  /\ UNCHANGED <<shellTimers, alive, thread, strays, joins, connects, quiet, noThread, threadVars>>

\* Any other end of a connection: a read error, a time-out, a nick in use.
irc_restart ==
  /\ BotFree /\ conn # "down"
  /\ conn' = "down" /\ chats' = 0
  /\ UNCHANGED <<alive, thread, strays, connects, line, quiet, threadVars, stopVars>>

shell_stop ==
  /\ BotFree /\ shellTimers # {}
  /\ todo' = Order /\ why' = "unload"
  /\ UNCHANGED <<shellTimers, alive, thread, strays, joins, conn, connects, quiet, noThread, lineVars, threadVars>>

\* A command of the configuration, run by the bot's thread until it ends.
shell_cmd ==
  /\ BotFree /\ conn = "ready" /\ shellTimers # {}
  /\ line' \in 0..chats /\ why' = "command runs"
  /\ UNCHANGED <<shellTimers, alive, thread, strays, todo, joins, conn, connects, chats, quiet, noThread, threadVars>>

shell_cmd_ends ==
  /\ why = "command runs"
  /\ why' = "none"
  /\ UNCHANGED <<shellTimers, alive, thread, strays, todo, joins, conn, connects, lineVars, quiet, noThread, threadVars>>

\* pthread_cancel is left out.
stop_Wrong ==
  /\ why \in Stops /\ todo # << >> /\ ~joins /\ ~noThread
  /\ alive[Head(todo)]
  /\ alive' = [alive EXCEPT ![Head(todo)] = FALSE]
  /\ noThread' = (thread[Head(todo)] = "none")
  /\ joins' = TRUE
  /\ UNCHANGED <<shellTimers, thread, cancelled, lines, strays, todo, why, conn, connects, lineVars, wrote, quiet>>

\* timer_type::stop, as far as pthread_join.  With no thread there is no t_id.
stop ==
  /\ why \in Stops /\ todo # << >> /\ ~joins /\ ~noThread
  /\ alive[Head(todo)]
  /\ alive' = [alive EXCEPT ![Head(todo)] = FALSE]
  /\ noThread' = (thread[Head(todo)] = "none")
  /\ cancelled' = cancelled \cup {Head(todo)}
  /\ joins' = TRUE
  /\ UNCHANGED <<shellTimers, thread, lines, strays, todo, why, conn, connects, lineVars, wrote, quiet>>

\* The thread has ended, or the timer was not alive: the next one.
Stopped ==
  /\ why \in Stops /\ todo # << >> /\ ~noThread
  /\ IF joins THEN thread[Head(todo)] = "over" ELSE ~alive[Head(todo)]
  /\ thread' = [thread EXCEPT ![Head(todo)] = "none"]
  /\ cancelled' = cancelled \ {Head(todo)}
  /\ shellTimers' = IF why = "unload" THEN shellTimers \ {Head(todo)} ELSE shellTimers
  /\ todo' = Tail(todo) /\ joins' = FALSE
  /\ UNCHANGED <<alive, lines, strays, why, conn, connects, lineVars, wrote, quiet, noThread>>

StopEnds ==
  /\ why \in Stops /\ todo = << >>
  /\ why' = "none" /\ quiet' = (quiet \/ why = "error")
  /\ UNCHANGED <<shellTimers, alive, thread, strays, todo, joins, conn, connects, lineVars, noThread, threadVars>>

-----------------------------------------------------------------------------
(* wait_thread.                                                             *)

botVars == <<shellTimers, alive, strays, todo, why, joins, conn, connects, lineVars, quiet, noThread>>

Wake(t) ==
  /\ thread[t] = "sleeps" /\ t \notin cancelled
  /\ thread' = [thread EXCEPT ![t] = "works"]
  /\ lines' = [lines EXCEPT ![t] = 0]
  /\ UNCHANGED <<cancelled, wrote, botVars>>

\* Script::send_text as execute_command calls it, also to say that the rest is muted.
SendText(t) ==
  /\ thread[t] = "works" /\ t \notin cancelled
  /\ lines[t] <= RESULT_LINE_MAX
  /\ lines' = [lines EXCEPT ![t] = @ + 1]
  /\ wrote' = CASE line = 0      -> "destination"
                [] line \in 1..chats -> "chat"
                [] OTHER         -> "past the table"
  /\ UNCHANGED <<thread, cancelled, botVars>>

\* The command has ended, or could not be run, or has said enough.
Finish(t) ==
  /\ thread[t] = "works" /\ t \notin cancelled
  /\ thread' = [thread EXCEPT ![t] = IF alive[t] THEN "sleeps" ELSE "over"]
  /\ UNCHANGED <<threadVars, botVars>>

\* sleep, read, write and waitpid are points where a cancelled thread ends.
Cancelled(t) ==
  /\ Active(t) /\ t \in cancelled
  /\ thread' = [thread EXCEPT ![t] = "over"]
  /\ UNCHANGED <<threadVars, botVars>>

ShellNext ==
  \/ Connect \/ shell_reply \/ Line \/ Chats \/ cmd_timer_start \/ cmd_timer_stop
  \/ shell_cmd \/ shell_cmd_ends \/ shell_event \/ irc_restart \/ shell_stop \/ stop \/ Stopped \/ StopEnds
  \/ \E t \in Timers : Wake(t) \/ SendText(t) \/ Finish(t) \/ Cancelled(t)

ShellSpec == ShellInit /\ [][ShellNext]_shellVars

\* The bot's thread and a thread that was cancelled go on; a command may run for ever.
ShellFairness ==
  /\ WF_shellVars(stop) /\ WF_shellVars(Stopped) /\ WF_shellVars(StopEnds)
  /\ \A t \in Timers : WF_shellVars(Cancelled(t))

ShellFairSpec == ShellSpec /\ ShellFairness

-----------------------------------------------------------------------------
(* Properties                                                               *)

ShellTypeOK ==
  /\ shellTimers \subseteq Timers /\ alive \in [Timers -> BOOLEAN]
  /\ thread \in [Timers -> {"none", "sleeps", "works", "over"}]
  /\ cancelled \subseteq Timers /\ lines \in [Timers -> 0..(RESULT_LINE_MAX + 1)]
  /\ strays \in Nat /\ todo \in Seq(Timers) /\ joins \in BOOLEAN
  /\ why \in Stops \cup {"none", "command runs"}
  /\ conn \in {"down", "open", "ready"} /\ connects \in 0..MaxConnects
  /\ chats \in 0..DCC_MAX /\ line \in 0..DCC_MAX /\ quiet \in BOOLEAN

(* Every thread belongs to a timer that is there, is alive or is being       *)
(* waited for, and no timer has two: reconnections without an ERROR start    *)
(* none twice, and the module never frees a timer under its thread.          *)
ThreadHasTimer ==
  /\ strays = 0
  /\ \A t \in Timers : Active(t) =>
       t \in shellTimers /\ (alive[t] \/ (todo # << >> /\ Head(todo) = t /\ joins))

(* After an ERROR of the server no timer runs until an INIT or !timer starts *)
(* one.  Other ends of a connection stop none: see StopsOnConnectionError.   *)
QuietAfterError == quiet => \A t \in Timers : ~Active(t)

(* No command of a timer runs after an ERROR of the server, for a timer that *)
(* is gone or was stopped, or twice at a time, however connections end:      *)
(* shell_reply, shell_event, shell_stop, timer_type::stop.                   *)
ThreadsAreStopped == QuietAfterError /\ ThreadHasTimer

(* shell.cpp:500: "stops timers on connection error".  Once the bot is done  *)
(* with the end of a connection no timer runs.                               *)
\* The code does not keep this promise (README, section 7).
StopsOnConnectionError == conn = "down" /\ BotFree => \A t \in Timers : ~Active(t)

(* The bot comes back from stopping timers, also from a command that never   *)
(* ends by itself, or what it cancelled was no thread.                       *)
StopReturns == why \in Stops ~> (why = "none" \/ noThread)

================================================================================
