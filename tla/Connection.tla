----------------------------- MODULE Connection -----------------------------
(***************************************************************************)
(* The life of one bot's connection to IRC: NetServer::work, irc_connect   *)
(* and irc_restart, the parts of Net they call, and the script handlers    *)
(* (Script::irc_reply, Script::irc_event, !server) that end a connection   *)
(* or belong to the session that lives on top of it.                       *)
(*                                                                         *)
(* Bot::work calls NetServer::work over and over.  Each call is one step   *)
(* here; what the network and the server did since the last call is the    *)
(* choice between the disjuncts.  Absolute times never matter, only their  *)
(* differences, so a timestamp of the code is kept as its age: the clock   *)
(* of the module is the growth of the ages.                                *)
(*                                                                         *)
(* A definition whose name ends in _Wrong is a plausible mistake in the    *)
(* one that follows it; no action uses it.  The properties are tested      *)
(* against these mistakes.                                                 *)
(***************************************************************************)
EXTENDS Integers, FiniteSets

CONSTANTS
  TIME_RETRY,    \* seconds between attempts to connect
  TIME_STONED,   \* seconds of silence after which the server is dead
  TIME_WARP,     \* a larger gap between two calls of work is a date change
  change_time,   \* seconds added to the system time by "changetime"
  conf_hosts,    \* number of "host" lines in the configuration
  MaxHosts,      \* bound: hosts in the ring after !server <hostname>
  Reliable,      \* hosts that always resolve and accept the connection
  virtualhost,   \* whether "virtualhost" is set, so create_tcp binds
  nickserv_pass, \* whether "nickserv" is set
  Channels,      \* the channels of the configuration
  Users,         \* the registered users
  DateChanges,   \* amounts by which the system date may be changed
  MaxDates,      \* bound: number of date changes
  MaxGap,        \* bound: seconds between two calls of work
  ConnectMax,    \* bound: seconds after which the kernel gives up connect()
  AgeCap         \* bound: ages are not told apart beyond it

ASSUME LimitsAssumption ==
  /\ TIME_RETRY \in Nat \ {0} /\ TIME_STONED \in Nat \ {0}
  /\ TIME_WARP \in Nat /\ change_time \in Int
  /\ conf_hosts \in Nat \ {0} /\ MaxHosts \in Nat /\ conf_hosts <= MaxHosts
  /\ virtualhost \in BOOLEAN /\ nickserv_pass \in BOOLEAN
  /\ DateChanges \subseteq Int /\ MaxDates \in Nat
  /\ MaxGap \in Nat \ {0} /\ ConnectMax \in Nat

\* Ages at the cap are beyond both limits, and stay so when the date changes.
ASSUME AgeCapAssumption == AgeCap \in Nat /\ AgeCap > TIME_STONED
ASSUME DateAssumption == \A j \in DateChanges : AgeCap + MaxDates * j > TIME_RETRY

VARIABLES
  sock,          \* the descriptor: "none" is -1, "stale" one that was closed
  connecting,
  connected,
  host_num,      \* hosts allocated so far, they are 1..host_num
  next,          \* host_type::next, the circular list of hosts
  host_current,
  try_age,       \* time_now - last_try
  quiet,         \* bot->time_now - time_read
  gap,           \* the present - time_now of the last call of work
  dates,         \* date changes so far
  server_jumped,
  exist,         \* services.exist
  identified,    \* services.identified
  joined,        \* the channels with joined = 1
  ids            \* the users with id = true

\* History variables, read by no action.
VARIABLES
  idle,          \* seconds since the last attempt, read error, timeout or ERROR
  silence,       \* real seconds since the last line or attempt
  ahead,         \* seconds by which the date was set ahead since time_read was set
  target,        \* the host !server <hostname> asked for, until it is tried, or 0
  collided       \* a nick collision came in between

link    == <<sock, connecting, connected>>
ring    == <<host_num, next>>
session == <<exist, identified, joined, ids>>
asked   == <<target, collided>>
history == <<idle, silence, ahead, asked>>
vars    == <<link, ring, host_current, try_age, quiet, gap, dates,
             server_jumped, session, history>>

-----------------------------------------------------------------------------
(* The circular list of hosts. *)

\* The configuration's hosts, each added before host_current, the first one.
ConfRing == [h \in 1..conf_hosts |-> IF h = conf_hosts THEN 1 ELSE h + 1]

\* The host whose next is cur: where the recursion of host_add ends.
Last(nxt, cur) == CHOOSE h \in DOMAIN nxt : nxt[h] = cur

\* The new host points to the head of the list.
host_add_Wrong(nxt, cur, new) ==
  [h \in DOMAIN nxt \cup {new} |->
     IF h = new THEN 1 ELSE IF h = Last(nxt, cur) THEN new ELSE nxt[h]]

\* host_add splices the new host in between Last and host_current.
host_add(nxt, cur, new) ==
  [h \in DOMAIN nxt \cup {new} |->
     IF h = new THEN cur ELSE IF h = Last(nxt, cur) THEN new ELSE nxt[h]]

-----------------------------------------------------------------------------
Init ==
  /\ sock = "none" /\ connecting = FALSE /\ connected = FALSE
  /\ host_num = conf_hosts /\ next = ConfRing /\ host_current = 1
  /\ try_age = AgeCap                     \* last_try = 0
  /\ quiet = 0 /\ gap = 0 /\ dates = 0
  /\ server_jumped = FALSE
  /\ exist = nickserv_pass /\ identified = FALSE
  /\ joined = {} /\ ids = {}
  /\ idle = AgeCap /\ silence = 0
  /\ ahead = 0 /\ target = 0 /\ collided = FALSE

(* The clock. *)

Older(age, d) == IF age + d > AgeCap THEN AgeCap ELSE age + d

\* A second passes between two calls of work.
Tick ==
  /\ gap < MaxGap
  /\ try_age' = Older(try_age, 1) /\ idle' = Older(idle, 1)
  /\ quiet' = quiet + 1 /\ silence' = Older(silence, 1) /\ gap' = gap + 1
  /\ UNCHANGED <<link, ring, host_current, dates, server_jumped, session,
                 ahead, asked>>

\* The system date is set j seconds ahead, or back when j < 0.
ChangeDate(j) ==
  /\ dates < MaxDates
  /\ dates' = dates + 1
  /\ try_age' = Older(try_age, j) /\ idle' = Older(idle, j)
  /\ quiet' = quiet + j /\ gap' = gap + j
  /\ ahead' = IF j > 0 THEN ahead + j ELSE ahead
  /\ UNCHANGED <<link, ring, host_current, server_jumped, session,
                 silence, asked>>

-----------------------------------------------------------------------------
(* irc_connect and irc_restart. *)

\* time_read is not refreshed while the bot waits to connect.
Connect_Wrong(h, age, fd, since) ==
  /\ connected' = FALSE
  /\ quiet' = quiet /\ silence' = 0 /\ ahead' = 0
  /\ UNCHANGED <<ring, asked>>
  /\ host_current' = h /\ idle' = since
  /\ IF age < TIME_RETRY
       THEN sock' = fd /\ connecting' = FALSE /\ try_age' = age
       ELSE sock' = "open" /\ connecting' = TRUE /\ try_age' = 0

\* irc_connect with the socket closed, on host h, last_try of the given age.
\* fd is what sock holds until then, since the value of the history idle.
Connect(h, age, fd, since) ==
  /\ connected' = FALSE
  /\ quiet' = 0 /\ silence' = 0 /\ ahead' = 0
  /\ UNCHANGED ring
  /\ \/ /\ age < TIME_RETRY
        /\ sock' = fd /\ connecting' = FALSE /\ host_current' = h
        /\ try_age' = age /\ idle' = since
        /\ UNCHANGED target
     \/ /\ age >= TIME_RETRY
        /\ try_age' = 0 /\ idle' = 0
        /\ target' = IF h = target THEN 0 ELSE target
        /\ \/ /\ h \notin Reliable                   \* resolvehost failed
              /\ sock' = fd /\ connecting' = FALSE /\ host_current' = next[h]
           \/ /\ sock' = "none"                      \* socket() failed
              /\ connecting' = FALSE /\ host_current' = h
           \/ /\ virtualhost                         \* its resolve or bind failed
              /\ sock' = "stale" /\ connecting' = FALSE /\ host_current' = h
           \/ /\ sock' = "open" /\ connecting' = TRUE /\ host_current' = h

\* The users stay identified.
irc_restart_Wrong ==
  /\ exist' = nickserv_pass /\ identified' = FALSE
  /\ joined' = {} /\ UNCHANGED ids

\* What irc_restart does to the session (it also closes the socket).
irc_restart ==
  /\ exist' = nickserv_pass /\ identified' = FALSE
  /\ ids' = {} /\ joined' = {}

\* last_try is not set, so the time the bot was connected counts as waiting.
Lose_Wrong ==
  /\ irc_restart
  /\ sock' = "none" /\ connecting' = FALSE /\ connected' = FALSE
  /\ host_current' = next[host_current]
  /\ idle' = 0 /\ gap' = 0
  /\ UNCHANGED <<ring, try_age, quiet, dates, server_jumped, silence, ahead, asked>>

\* A lost connection: restart, go to the next host and wait TIME_RETRY.
Lose ==
  /\ irc_restart
  /\ sock' = "none" /\ connecting' = FALSE /\ connected' = FALSE
  /\ host_current' = next[host_current]
  /\ try_age' = 0 /\ idle' = 0
  /\ gap' = 0
  /\ UNCHANGED <<ring, quiet, dates, server_jumped, silence, ahead, asked>>

-----------------------------------------------------------------------------
(* NetServer::work while not connected. *)

WorkIdle ==
  /\ ~connected /\ ~connecting
  /\ Connect(host_current, try_age, sock, idle)
  /\ gap' = 0
  /\ UNCHANGED <<dates, server_jumped, session, collided>>

\* A refused connection is not closed, or is tried again on the same host.
WorkConnecting_Wrong(closes) ==
  /\ ~connected /\ connecting
  /\ \/ /\ host_current \notin Reliable
        /\ sock' = IF closes THEN "none" ELSE "open"
        /\ connecting' = FALSE
        /\ UNCHANGED <<host_current, connected>>
     \/ /\ connecting' = FALSE /\ connected' = TRUE
        /\ UNCHANGED <<sock, host_current>>
  /\ gap' = 0
  /\ UNCHANGED <<ring, try_age, quiet, dates, server_jumped, session, history>>

WorkConnecting_Leaks_Wrong == WorkConnecting_Wrong(FALSE)
WorkConnecting_SameHost_Wrong == WorkConnecting_Wrong(TRUE)

\* openhost: still connecting, refused, or connected.
WorkConnecting ==
  /\ ~connected /\ connecting
  /\ \/ /\ quiet < ConnectMax
        /\ UNCHANGED <<link, host_current>>
     \/ /\ host_current \notin Reliable
        /\ sock' = "none" /\ connecting' = FALSE
        /\ host_current' = next[host_current]
        /\ UNCHANGED connected
     \/ /\ connecting' = FALSE /\ connected' = TRUE
        /\ UNCHANGED <<sock, host_current>>
  /\ gap' = 0
  /\ UNCHANGED <<ring, try_age, quiet, dates, server_jumped, session, history>>

-----------------------------------------------------------------------------
(* NetServer::work while connected. *)

\* readln returned 1: a line was read, and time_read set.
Line == quiet' = 0 /\ silence' = 0 /\ ahead' = 0 /\ gap' = 0

\* readln returned 0 and the server is not timed out; a DCC may still act.
NoLine ==
  /\ quiet <= TIME_STONED
  /\ gap' = 0
  /\ UNCHANGED <<quiet, silence, ahead>>

\* The connection goes on as it is.
Same == UNCHANGED <<link, host_current, try_age, dates, idle>>

\* readln returned -1.
WorkReadError == connected /\ Lose

\* The date change is noticed, but time_read is left in the past.
WorkStoned_Wrong ==
  /\ connected /\ quiet > TIME_STONED
  /\ \/ /\ gap > TIME_WARP
        /\ gap' = 0
        /\ Same
        /\ UNCHANGED <<ring, quiet, server_jumped, session, silence, ahead, asked>>
     \/ /\ gap <= TIME_WARP
        /\ Lose

\* Nothing heard for more than TIME_STONED: a date change, or a dead server.
WorkStoned ==
  /\ connected /\ quiet > TIME_STONED
  /\ \/ /\ gap > TIME_WARP
        /\ quiet' = 0 - change_time        \* time_read = time_now
        /\ ahead' = IF quiet' > 0 THEN quiet' ELSE 0
        /\ gap' = 0
        /\ Same
        /\ UNCHANGED <<ring, server_jumped, session, silence, asked>>
     \/ /\ gap <= TIME_WARP
        /\ Lose

\* Nothing to read, or a line that changes nothing here.
WorkQuiet ==
  /\ connected
  /\ Line \/ NoLine
  /\ Same
  /\ UNCHANGED <<ring, server_jumped, session, asked>>

\* INIT (001) and PING: identify to NickServ, once a connection.
reply_init ==
  /\ connected /\ Line
  /\ identified' = (identified \/ exist)
  /\ Same
  /\ UNCHANGED <<ring, server_jumped, exist, joined, ids, asked>>

\* No such nick or command: services are missing.  NickServ's notice asking
\* for identification: they are back.
Services(present) ==
  /\ connected /\ Line
  /\ exist' = present
  /\ Same
  /\ UNCHANGED <<ring, server_jumped, identified, joined, ids, asked>>

\* The bot's own JOIN, and its own KICK or PART, on channel c.
OwnJoin(c) ==
  /\ connected /\ Line
  /\ joined' = joined \cup {c}
  /\ Same
  /\ UNCHANGED <<ring, server_jumped, exist, identified, ids, asked>>

OwnLeave(c) ==
  /\ connected /\ Line
  /\ joined' = joined \ {c}
  /\ Same
  /\ UNCHANGED <<ring, server_jumped, exist, identified, ids, asked>>

\* User u is identified (!pass, !id, or the password of a DCC chat), or is not
\* any more (QUIT, NICK, RPL_WATCHOFFLINE).
SetId(u, id) ==
  /\ connected
  /\ Line \/ (id /\ NoLine)
  /\ ids' = IF id THEN ids \cup {u} ELSE ids \ {u}
  /\ Same
  /\ UNCHANGED <<ring, server_jumped, exist, identified, joined, asked>>

\* !server next: leave it to event_error to go to the next host.
scriptcmd_server_next ==
  /\ connected
  /\ Line \/ NoLine
  /\ server_jumped' = TRUE
  /\ Same
  /\ UNCHANGED <<ring, session, asked>>

\* host_current is the new host itself, so that event_error's next is past it.
scriptcmd_server_Wrong ==
  /\ connected /\ host_num < MaxHosts
  /\ Line \/ NoLine
  /\ host_num' = host_num + 1
  /\ next' = host_add(next, host_current, host_num + 1)
  /\ host_current' = host_num + 1
  /\ server_jumped' = TRUE
  /\ target' = host_num + 1 /\ collided' = FALSE
  /\ UNCHANGED <<link, try_age, dates, session, idle>>

\* !server <hostname>: host_add returns the host before the new one, so that
\* event_error's next is the new one.
scriptcmd_server ==
  /\ connected /\ host_num < MaxHosts
  /\ Line \/ NoLine
  /\ host_num' = host_num + 1
  /\ next' = host_add(next, host_current, host_num + 1)
  /\ host_current' = Last(next, host_current)
  /\ server_jumped' = TRUE
  /\ target' = host_num + 1 /\ collided' = FALSE
  /\ UNCHANGED <<link, try_age, dates, session, idle>>

\* ERROR from the server.
event_error ==
  /\ connected
  /\ irc_restart
  /\ server_jumped' = FALSE
  /\ Connect(next[host_current], IF server_jumped THEN TIME_RETRY + 1 ELSE 0, "none", 0)
  /\ gap' = 0
  /\ UNCHANGED <<dates, collided>>

\* ERR_NICKNAMEINUSE: connect again, to the same host and with last_try as it
\* was, also when !server asked for the one after it.
reply_nicknameinuse ==
  /\ connected
  /\ irc_restart
  /\ Connect(host_current, try_age, "none", idle)
  /\ gap' = 0
  /\ collided' = (target # 0)
  /\ UNCHANGED <<dates, server_jumped>>

work ==
  \/ WorkIdle \/ WorkConnecting
  \/ WorkReadError \/ WorkStoned \/ WorkQuiet
  \/ reply_init \/ reply_nicknameinuse \/ event_error
  \/ scriptcmd_server_next \/ scriptcmd_server
  \/ \E present \in BOOLEAN : Services(present)
  \/ \E c \in Channels : OwnJoin(c) \/ OwnLeave(c)
  \/ \E u \in Users, id \in BOOLEAN : SetId(u, id)

Next ==
  \/ Tick
  \/ \E j \in DateChanges : ChangeDate(j)
  \/ work

Spec == Init /\ [][Next]_vars

-----------------------------------------------------------------------------
(* Properties. *)

FlagsOK ==
  /\ connecting \in BOOLEAN /\ connected \in BOOLEAN
  /\ server_jumped \in BOOLEAN
  /\ exist \in BOOLEAN /\ identified \in BOOLEAN /\ collided \in BOOLEAN

RingOK ==
  /\ host_num \in conf_hosts..MaxHosts
  /\ next \in [1..host_num -> 1..host_num]
  /\ host_current \in 1..host_num
  /\ target \in 0..host_num

ClockOK ==
  /\ try_age \in Int /\ quiet \in Int /\ gap \in Int /\ dates \in 0..MaxDates
  /\ idle \in Int /\ silence \in Int /\ ahead \in Nat

SessionOK ==
  /\ sock \in {"none", "open", "stale"}
  /\ joined \subseteq Channels /\ ids \subseteq Users

TypeOK == FlagsOK /\ RingOK /\ ClockOK /\ SessionOK

\* The flags tell the truth about the descriptor: it is open exactly while the
\* bot is connecting or connected, so none is leaked and none used closed.
SocketMatchesFlags ==
  /\ ~(connecting /\ connected)
  /\ (connecting \/ connected) <=> (sock = "open")

\* Nothing of a session outlives its connection, however it ended: no channel
\* stays joined, no user identified, and NickServ is asked again.
SessionEndsWithConnection ==
  ~connected => joined = {} /\ ids = {} /\ ~identified

\* The hosts stay one cycle: going to the next one stays within no set of hosts but
\* that of all, so that it reaches them all, from wherever it begins.
RingIsOneCycle ==
  \A S \in SUBSET (1..host_num) :
    (S # {} /\ \A h \in S : next[h] \in S) => S = 1..host_num

\* The server is not hammered: a connection is begun only TIME_RETRY after the
\* last attempt, read error, timeout or ERROR, unless !server asked for it.
BeginsInTime ==
  (connecting' /\ ~connecting) => (idle >= TIME_RETRY \/ server_jumped)

WaitsToReconnect == [][BeginsInTime]_vars

\* After !server <hostname> the bot goes to that host, however the connection ends:
\* until it tries it, it is on the host before it or has it for the next attempt.
\* Only a nick collision has it try the host before once more.
JumpGoesThere ==
  target # 0 =>
    \/ next[host_current] = target /\ (connected \/ collided)
    \/ host_current = target /\ ~connected /\ ~connecting

\* "Make the bot jump to [...] the specified <hostname>": to no other one first.
\* The code does not keep this promise (README, section 7).
JumpIsFirst == target # 0 /\ ~connected => host_current = target

\* The bot stays no longer on a server that it has not heard of: when work last
\* looked, the silence had not passed TIME_STONED, but for what the date was set
\* ahead while it was connecting.
DeadServerIsLeft == connected => quiet - gap <= TIME_STONED + ahead

\* work declares the server dead.
DeclaredDead == connected /\ quiet > TIME_STONED /\ gap <= TIME_WARP

\* A server is declared dead only after a real silence of TIME_STONED, less what the
\* date was set ahead since time_read was set: an earlier change, or one that
\* work noticed, is made up for.
TimeoutIsEarned == DeclaredDead => silence + ahead > TIME_STONED

\* "prevent disconnecting when the system date changes": whenever it does.
\* The code does not keep this promise (README, section 7).
NoFalseTimeout == DeclaredDead => silence > TIME_STONED

-----------------------------------------------------------------------------
(* Bot::work never stops, time passes, and a host that is tried again and     *)
(* again is not refused a socket by the operating system for ever.            *)
Fairness ==
  /\ WF_vars(Tick)
  /\ WF_vars(work)
  /\ SF_vars(WorkIdle /\ connecting')

FairSpec == Spec /\ Fairness

\* While some host can be reached the bot is back on IRC again and again.
Reconnects == []<>connected

=============================================================================
