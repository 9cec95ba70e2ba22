-------------------------------- MODULE ChatLog --------------------------------
(***************************************************************************)
(* What the module log writes of the events of a channel.  A server tells  *)
(* of a QUIT and of a NICK with no channel, and when the module sees it    *)
(* the user is not among those of the channel any more: it goes by the     *)
(* nick that was the last to be deleted there.  The bot's list of those in *)
(* a channel begins empty when it joins, is filled by the answer to its    *)
(* WHO, and leaves out whom it has no place for.                           *)
(***************************************************************************)
EXTENDS Naturals, Sequences, FiniteSets

CONSTANTS
  Nicks,       \* other users
  Channels,    \* where the bot is
  Private,     \* what the logger of all private messages is for (NULL)
  Loggers,     \* what each logger is for, in the order of the list: a channel, Private, or a nick
  C_USERS_MAX, \* places of the list of a channel, besides that of the bot
  MaxEvents    \* bound: events

VARIABLES
  present,            \* nicks in each channel, as the server has it when it tells of an event
  users,              \* those of them in the bot's list
  told,               \* the channels for which the answer to WHO has come
  last_deleted_nick,  \* in each channel
  EVENT,              \* the last event and its nick
  lines,              \* what has been logged of it: for each logger, the kind of line
  events,             \* events so far
  dropped,            \* history: the channels with someone whom the list had no place for
  was,                \* history: the channels he was in before the event,
  surely              \* history: of these, those whose list was complete

chatVars == <<present, users, told, last_deleted_nick, EVENT, lines, events, dropped, was, surely>>

None == "none"

ChatInit ==
  /\ present \in [Channels -> SUBSET Nicks]
  /\ users = [c \in Channels |-> {}] /\ told = {}
  /\ last_deleted_nick = [c \in Channels |-> None]
  /\ EVENT = <<None, None>> /\ lines = {} /\ events = 0
  /\ dropped = {} /\ was = {} /\ surely = {}

In(n) == {c \in Channels : n \in present[c]}

-----------------------------------------------------------------------------
(* The handlers of Script, which come before those of the modules.          *)

\* Channel::user_add of one, or of more in any order: list is what becomes of the list.
user_add(c, ns, list) ==
  /\ list \subseteq users[c] \cup ns /\ users[c] \subseteq list
  /\ IF Cardinality(users[c] \cup ns) <= C_USERS_MAX
       THEN list = users[c] \cup ns /\ UNCHANGED dropped
       ELSE Cardinality(list) = C_USERS_MAX /\ dropped' = dropped \cup {c}
  /\ users' = [users EXCEPT ![c] = list]

\* The nick is not kept.
user_del_Wrong(n, where) ==
  /\ users' = [c \in Channels |-> IF c \in where THEN users[c] \ {n} ELSE users[c]]
  /\ UNCHANGED last_deleted_nick

\* Channel::user_del; one who is not in the list is not deleted.
user_del(n, where) ==
  /\ users' = [c \in Channels |-> IF c \in where THEN users[c] \ {n} ELSE users[c]]
  /\ last_deleted_nick' =
       [c \in Channels |-> IF c \in where /\ n \in users[c] THEN n ELSE last_deleted_nick[c]]

user_change_nick(n, m) ==
  /\ users' = [c \in Channels |-> IF n \in users[c] THEN (users[c] \ {n}) \cup {m} ELSE users[c]]
  /\ last_deleted_nick' = [c \in Channels |-> IF n \in users[c] THEN n ELSE last_deleted_nick[c]]

-----------------------------------------------------------------------------
(* log_event.                                                               *)

\* The first logger for it.
server_what2logger(what) ==
  {i \in DOMAIN Loggers : Loggers[i] = what /\ \A j \in 1 .. i - 1 : Loggers[j] # what}

Log(kind, whats) == lines' = {<<kind, i>> : i \in UNION {server_what2logger(w) : w \in whats}}

\* Of a QUIT and a NICK: in the channels from which he was the last to be deleted.
LastOf(n) == {c \in Channels : last_deleted_nick'[c] = n}

Event(kind, n) ==
  /\ events < MaxEvents /\ events' = events + 1
  /\ EVENT' = <<kind, n>>
  /\ was' = In(n) /\ surely' = In(n) \cap (told \ dropped)

\* JOIN, PART, KICK, TOPIC and MODE have a channel.
Join(n, c) ==
  /\ Event("JOIN", n) /\ n \notin present[c]
  /\ present' = [present EXCEPT ![c] = @ \cup {n}]
  /\ \E list \in SUBSET Nicks : user_add(c, {n}, list)
  /\ Log("JOIN", {c})
  /\ UNCHANGED <<told, last_deleted_nick>>

Leave(kind, n, c) ==
  /\ Event(kind, n) /\ n \in present[c]
  /\ present' = [present EXCEPT ![c] = @ \ {n}]
  /\ user_del(n, {c})
  /\ Log(kind, {c})
  /\ UNCHANGED <<told, dropped>>

Told(kind, n, c) ==
  /\ Event(kind, n)
  /\ Log(kind, {c})
  /\ UNCHANGED <<present, users, told, last_deleted_nick, dropped>>

\* The server tells of those only who are in a channel with the bot.
Quit(n) ==
  /\ Event("QUIT", n) /\ In(n) # {}
  /\ present' = [c \in Channels |-> present[c] \ {n}]
  /\ user_del(n, Channels)
  /\ Log("QUIT", LastOf(n))
  /\ UNCHANGED <<told, dropped>>

Nick(n, m) ==
  /\ Event("NICK", n) /\ In(n) # {} /\ In(m) = {}
  /\ present' = [c \in Channels |-> IF c \in In(n) THEN (present[c] \ {n}) \cup {m} ELSE present[c]]
  /\ user_change_nick(n, m)
  /\ Log("NICK", LastOf(n))
  /\ UNCHANGED <<told, dropped>>

\* A message to a channel, or to the bot: this goes to the logger of all of them and to
\* that of the nick.
Message(n, to) ==
  /\ Event("PRIVMSG", n)
  /\ Log("PRIVMSG", IF to \in Channels THEN {to} ELSE {Private, n})
  /\ UNCHANGED <<present, users, told, last_deleted_nick, dropped>>

\* The lines of the answer to WHO, which come one behind the other.
Who(c) ==
  /\ c \notin told /\ told' = told \cup {c}
  /\ \E list \in SUBSET Nicks : user_add(c, present[c], list)
  /\ UNCHANGED <<present, last_deleted_nick, EVENT, lines, events, was, surely>>

\* The bot is kicked, and joins again: meanwhile anybody may have come or gone.  What was
\* deleted last stays.
Rejoin(c) ==
  /\ users' = [users EXCEPT ![c] = {}]
  /\ told' = told \ {c} /\ dropped' = dropped \ {c}
  /\ \E ns \in SUBSET Nicks : present' = [present EXCEPT ![c] = ns]
  /\ UNCHANGED <<last_deleted_nick, EVENT, lines, events, was, surely>>

ChatNext ==
  \/ \E n \in Nicks :
       \/ Quit(n)
       \/ \E m \in Nicks \ {n} : Nick(n, m)
       \/ \E to \in Channels \cup {Private} : Message(n, to)
       \/ \E c \in Channels :
            \/ Join(n, c)
            \/ \E kind \in {"PART", "KICK"} : Leave(kind, n, c)
            \/ \E kind \in {"TOPIC", "MODE"} : Told(kind, n, c)
  \/ \E c \in Channels : Who(c) \/ Rejoin(c)

ChatSpec == ChatInit /\ [][ChatNext]_chatVars

-----------------------------------------------------------------------------
(* Properties                                                               *)

ChatTypeOK ==
  /\ present \in [Channels -> SUBSET Nicks] /\ users \in [Channels -> SUBSET Nicks]
  /\ {told, dropped, was, surely} \subseteq SUBSET Channels
  /\ last_deleted_nick \in [Channels -> Nicks \cup {None}]
  /\ events \in 0..MaxEvents
  /\ \A l \in lines : l[2] \in DOMAIN Loggers

(* One who quits, or changes his nick, is logged as having done so by the      *)
(* first logger of each channel he was in, once the bot has had the answer to  *)
(* its WHO there and if it has had a place for everybody since it joined.  One *)
(* who is not in its list leaves with no line.                                 *)
QuitIsLogged ==
  EVENT[1] \in {"QUIT", "NICK"} =>
    \A c \in surely : \A i \in server_what2logger(c) : <<EVENT[1], i>> \in lines

(* log.cpp:216: "if it was here".  A QUIT or NICK is logged for a channel he   *)
(* was in when it happened.                                                    *)
\* The code does not keep this promise (README, section 7).
LoggedIfHere ==
  EVENT[1] \in {"QUIT", "NICK"} =>
    \A c \in Channels \ was : \A i \in server_what2logger(c) : <<EVENT[1], i>> \notin lines

================================================================================
