------------------------------- MODULE Channels -------------------------------
(***************************************************************************)
(* What the bot believes of its channels, against what they are: the       *)
(* handlers of Script and the tables of NetServer and Channel on one side, *)
(* the IRC server and the people on the other, two queues in between.      *)
(*                                                                         *)
(* The bot learns who is in a channel from the WHO it sends when it joins  *)
(* and from the events that follow.  It joins again when it is kicked, at  *)
(* every PING while it is out, and for all channels when the connection is *)
(* made again.  The server does what RFC 1459 has it do; it is external,   *)
(* and modelled from what the handlers expect of it.  A nick stands for    *)
(* whoever has it.  A definition whose name ends in _Wrong is a plausible  *)
(* mistake in a later one.                                                 *)
(***************************************************************************)
EXTENDS Integers, Sequences, FiniteSets, SequencesExt

CONSTANTS
  CHANNEL_MAX,  \* channels of the bot's table
  C_USERS_MAX,  \* users of a channel that the bot can keep
  Names,        \* channels
  conf,         \* those of the configuration
  Nicks,
  nick_orig,    \* the bot's nick
  NULL,
  has_services, \* services.exist
  Refusals,     \* why the server may refuse a JOIN
  Beside,       \* modes that may stand before an "o" in a MODE: "none", "b", "n"
  MaxQueue,     \* bound: messages under way when the server or a person acts
  MaxChanges,   \* bound: what people do
  MaxCommands,  \* bound: !join and !part
  MaxRestarts   \* bound: lost connections

ASSUME ChannelsAssumption ==
  /\ CHANNEL_MAX \in Nat /\ C_USERS_MAX \in Nat
  /\ conf \subseteq Names /\ IsFiniteSet(conf) /\ Cardinality(conf) <= CHANNEL_MAX
  /\ IsFiniteSet(Nicks) /\ nick_orig \in Nicks /\ NULL \notin Nicks
  /\ has_services \in BOOLEAN
  /\ Refusals \subseteq {"BANNED", "TOOMANY"} /\ Beside \subseteq {"none", "b", "n"}
  /\ {MaxQueue, MaxChanges, MaxCommands, MaxRestarts} \subseteq Nat

VARIABLES
  \* the bot
  channels,  \* the table of channels, by name
  nick,
  \* the network
  inbox,     \* lines on their way to the bot
  outbox,    \* lines on their way to the server
  \* the server
  members,   \* who is in each channel
  ops,       \* who of them has op
  me,        \* the bot's nick
  \* bounds
  changes, commands, restarts,
  \* histories, read by no action
  owed,      \* who kicked the bot last, and is still there and not kicked back
  races      \* what the bot took for something else

bot     == <<channels, nick>>
server  == <<members, ops, me>>
bounds  == <<changes, commands, restarts>>
history == <<owed, races>>
vars    == <<bot, inbox, outbox, server, bounds, history>>

-----------------------------------------------------------------------------
(* Channel: the list of users, in the order they were added. *)

NewChannel == [joined |-> FALSE, users |-> <<>>, kick_nick |-> NULL]

\* 0 where the code says -1.
user_index(ch, n) == SelectInSeq(ch.users, LAMBDA u : u.nick = n)

\* The nick is added once more.
user_add_Wrong(ch, n, op) == [ch EXCEPT !.users = Append(@, [nick |-> n, op |-> op])]

\* Nothing if the nick is there already, or the list is full.
user_add(ch, n, op) ==
  IF user_index(ch, n) # 0 \/ Len(ch.users) = C_USERS_MAX THEN ch
  ELSE [ch EXCEPT !.users = Append(@, [nick |-> n, op |-> op])]

user_del(ch, n) ==
  LET i == user_index(ch, n) IN IF i = 0 THEN ch ELSE [ch EXCEPT !.users = RemoveAt(@, i)]

user_change_op(ch, n, op) ==
  LET i == user_index(ch, n) IN IF i = 0 THEN ch ELSE [ch EXCEPT !.users[i].op = op]

user_change_nick(ch, n, new) ==
  LET i == user_index(ch, n) IN IF i = 0 THEN ch ELSE [ch EXCEPT !.users[i].nick = new]

\* The users are kept, or the channel still taken to be joined.
Out_Users_Wrong(ch) == [ch EXCEPT !.joined = FALSE]
Out_Joined_Wrong(ch) == [ch EXCEPT !.users = <<>>]

\* What becomes of a channel when the bot is out of it.
Out(ch) == [ch EXCEPT !.users = <<>>, !.joined = FALSE]

-----------------------------------------------------------------------------
Init ==
  /\ channels = [c \in conf |-> NewChannel] /\ nick = nick_orig
  /\ inbox = <<>> /\ outbox = SetToSeq({[cmd |-> "JOIN", c |-> c] : c \in conf})
  /\ \E o \in [Names -> SUBSET (Nicks \ {nick_orig})] :
       members = o /\ ops = [c \in Names |-> IF o[c] = {} THEN {} ELSE {CHOOSE n \in o[c] : TRUE}]
  /\ me = nick_orig
  /\ changes = 0 /\ commands = 0 /\ restarts = 0
  /\ owed = [c \in Names |-> NULL] /\ races = {}

-----------------------------------------------------------------------------
(* The server and the people, as far as the bot can tell. *)

\* Room for one more message, so that the queues stay short.
Room == Len(inbox) + Len(outbox) < MaxQueue

\* What is left of owed when n is not in c any more, or has another nick.
Forget(n, cs) == owed' = [c \in Names |-> IF c \in cs /\ owed[c] = n THEN NULL ELSE owed[c]]

\* Somebody does something that the bot may get wrong for that reason.
PersonActs(race) ==
  /\ Room /\ changes < MaxChanges /\ changes' = changes + 1
  /\ races' = races \cup race
  /\ UNCHANGED <<bot, outbox, commands, restarts>>

\* The message, if the bot is in one of the channels.
Tell(cs, msg) ==
  inbox' = IF \E c \in cs : me \in members[c] THEN Append(inbox, msg) ELSE inbox

\* Those in no channel may have any nick, or none.
Joins(c, n) ==
  /\ PersonActs({}) /\ n # me /\ n \notin members[c]
  /\ members' = [members EXCEPT ![c] = @ \cup {n}]
  /\ ops' = [ops EXCEPT ![c] = IF members[c] = {} THEN {n} ELSE @]
  /\ Tell({c}, [ev |-> "JOIN", c |-> c, who |-> n])
  /\ UNCHANGED <<me, owed>>

\* The bot may be made to leave.
Leaves(c, n) ==
  /\ PersonActs({}) /\ n \in members[c]
  /\ members' = [members EXCEPT ![c] = @ \ {n}] /\ ops' = [ops EXCEPT ![c] = @ \ {n}]
  /\ Tell({c}, [ev |-> "PART", c |-> c, who |-> n])
  /\ Forget(n, {c})
  /\ UNCHANGED me

Quits(n) ==
  LET cs == {c \in Names : n \in members[c]}
  IN  /\ PersonActs({}) /\ n # me /\ cs # {}
      /\ members' = [c \in Names |-> members[c] \ {n}] /\ ops' = [c \in Names |-> ops[c] \ {n}]
      /\ Tell(cs, [ev |-> "QUIT", who |-> n])
      /\ Forget(n, Names)
      /\ UNCHANGED me

\* The bot's own nick may be changed too, by services or a module.
Renames(n, new) ==
  LET cs == {c \in Names : n \in members[c]}
      renamed(S) == IF n \in S THEN (S \ {n}) \cup {new} ELSE S
  IN  /\ PersonActs({}) /\ (n = me \/ cs # {})
      /\ new # me /\ \A c \in Names : new \notin members[c]
      /\ members' = [c \in Names |-> renamed(members[c])]
      /\ ops' = [c \in Names |-> renamed(ops[c])]
      /\ me' = IF n = me THEN new ELSE me
      /\ inbox' = IF n = me \/ \E c \in cs : me \in members[c]
                    THEN Append(inbox, [ev |-> "NICK", who |-> n, new |-> new]) ELSE inbox
      /\ Forget(n, Names)

\* By anybody, the bot for one: on command, or because of the user's level.
Kicks(c, by, n) ==
  /\ PersonActs({}) /\ by \in ops[c] /\ n \in members[c] \ {by}
  /\ members' = [members EXCEPT ![c] = @ \ {n}] /\ ops' = [ops EXCEPT ![c] = @ \ {n}]
  /\ Tell({c}, [ev |-> "KICK", c |-> c, by |-> by, who |-> n])
  /\ IF n = me THEN owed' = [owed EXCEPT ![c] = by] ELSE Forget(n, {c})
  /\ UNCHANGED me

\* MODE c +o n and the like; a mode that stands before the "o" has a parameter
\* of its own ("b") or none ("n").
SetsMode(c, by, sign, before, n) ==
  /\ PersonActs(IF before = "n" THEN {"mode"} ELSE {}) /\ by \in ops[c] /\ n \in members[c]
  /\ ops' = [ops EXCEPT ![c] = IF sign = "+" THEN @ \cup {n} ELSE @ \ {n}]
  /\ Tell({c}, [ev |-> "MODE", c |-> c,
                modes |-> IF before = "none" THEN <<sign, "o">> ELSE <<sign, before, "o">>,
                args |-> IF before = "b" THEN <<NULL, n>> ELSE <<n>>])
  /\ UNCHANGED <<members, me, owed>>

Ping ==
  /\ Room /\ \A i \in DOMAIN inbox : inbox[i].ev # "PING"
  /\ inbox' = Append(inbox, [ev |-> "PING"])
  /\ UNCHANGED <<bot, outbox, server, bounds, history>>

-----------------------------------------------------------------------------
(* The server's answers to the bot. *)

\* The next line from the bot, with that command.
Asked(cmd) ==
  /\ outbox # <<>> /\ Head(outbox).cmd = cmd /\ outbox' = Tail(outbox)
  /\ UNCHANGED <<bot, bounds>>

Answers(msgs) == inbox' = inbox \o msgs

\* The first one in a channel has op.
Accept(c) ==
  /\ Asked("JOIN") /\ c = Head(outbox).c /\ me \notin members[c]
  /\ members' = [members EXCEPT ![c] = @ \cup {me}]
  /\ ops' = [ops EXCEPT ![c] = IF members[c] = {} THEN {me} ELSE @]
  /\ Answers(<<[ev |-> "JOIN", c |-> c, who |-> me]>>)
  /\ races' = IF members[c] = {} THEN races \cup {"first"} ELSE races
  /\ UNCHANGED <<me, owed>>

Refuse(c) ==
  /\ Asked("JOIN") /\ c = Head(outbox).c /\ me \notin members[c]
  /\ \E why \in Refusals : Answers(<<[ev |-> why, c |-> c]>>)
  /\ UNCHANGED <<server, history>>

\* A JOIN to a channel it is in is ignored, a PART from another one refused.
Ignore ==
  /\ \/ Asked("JOIN") /\ me \in members[Head(outbox).c]
     \/ Asked("PART") /\ me \notin members[Head(outbox).c]
  /\ UNCHANGED <<inbox, server, history>>

Part ==
  /\ Asked("PART")
  /\ LET c == Head(outbox).c
     IN  /\ me \in members[c]
         /\ members' = [members EXCEPT ![c] = @ \ {me}] /\ ops' = [ops EXCEPT ![c] = @ \ {me}]
         /\ Answers(<<[ev |-> "PART", c |-> c, who |-> me]>>)
         /\ UNCHANGED <<me, history>>

\* One who is not in the channel is told who is there, or nobody.
Who ==
  /\ Asked("WHO")
  /\ LET c == Head(outbox).c
         replies == SetToSeq({[ev |-> "WHOREPLY", c |-> c, who |-> n, op |-> n \in ops[c]] :
                                n \in members[c]})
         end == <<[ev |-> "ENDOFWHO", c |-> c]>>
     IN  Answers(replies \o end) \/ (me \notin members[c] /\ Answers(end))
  /\ UNCHANGED <<server, history>>

\* The bot kicks, if it has op.
Kick ==
  /\ Asked("KICK")
  /\ LET c == Head(outbox).c
         n == Head(outbox).who
     IN  IF me \in ops[c] /\ n \in members[c]
           THEN /\ members' = [members EXCEPT ![c] = @ \ {n}]
                /\ ops' = [ops EXCEPT ![c] = @ \ {n}]
                /\ Answers(<<[ev |-> "KICK", c |-> c, by |-> me, who |-> n]>>)
                /\ Forget(n, {c})
           ELSE UNCHANGED <<inbox, members, ops, owed>>
  /\ UNCHANGED <<me, races>>

-----------------------------------------------------------------------------
(* The bot: Script::irc_reply and Script::irc_event. *)

\* The next line to the bot, with that event or reply.
Got(ev) ==
  /\ inbox # <<>> /\ Head(inbox).ev = ev /\ inbox' = Tail(inbox)
  /\ UNCHANGED <<server, bounds>>

m == Head(inbox)

Say(cmds) == outbox' = outbox \o cmds

\* channel_get: the channel of the line, if the table has it.
Known == m.c \in DOMAIN channels
channel == channels[m.c]

\* What becomes of it.
InChannel(ch) == channels' = IF Known THEN [channels EXCEPT ![m.c] = ch] ELSE channels

event_join ==
  /\ Got("JOIN")
  /\ InChannel([user_add(channel, m.who, FALSE) EXCEPT !.joined = @ \/ m.who = nick])
  /\ Say(IF m.who = nick /\ Known THEN <<[cmd |-> "WHO", c |-> m.c]>> ELSE <<>>)
  /\ UNCHANGED <<nick, history>>

reply_whoreply ==
  /\ Got("WHOREPLY")
  /\ LET back == Known /\ channel.kick_nick = m.who
     IN  /\ InChannel([user_add(channel, m.who, m.op) EXCEPT !.kick_nick = IF @ = m.who THEN NULL ELSE @])
         /\ Say(IF back THEN <<[cmd |-> "KICK", c |-> m.c, who |-> m.who]>> ELSE <<>>)
         /\ owed' = IF back /\ owed[m.c] = m.who THEN [owed EXCEPT ![m.c] = NULL] ELSE owed
         /\ races' = IF Known /\ ~channel.joined THEN races \cup {"who"} ELSE races
  /\ UNCHANGED nick

reply_endofwho ==
  /\ Got("ENDOFWHO")
  /\ InChannel([channel EXCEPT !.kick_nick = NULL])
  /\ UNCHANGED <<nick, outbox, owed>>
  /\ races' = IF Known /\ ~channel.joined THEN races \cup {"who"} ELSE races

\* The user stays in the lists.
event_quit_Wrong ==
  /\ Got("QUIT")
  /\ UNCHANGED <<bot, outbox, history>>

event_quit ==
  /\ Got("QUIT")
  /\ channels' = [c \in DOMAIN channels |-> user_del(channels[c], m.who)]
  /\ UNCHANGED <<nick, outbox, history>>

event_nick ==
  /\ Got("NICK")
  /\ channels' = [c \in DOMAIN channels |-> user_change_nick(channels[c], m.who, m.new)]
  /\ nick' = IF nick = m.who THEN m.new ELSE nick
  /\ UNCHANGED <<outbox, history>>

\* The nick that was kicked is taken for the one who kicked.
event_kick_Wrong ==
  /\ Got("KICK")
  /\ LET out == nick = m.who
     IN  /\ InChannel(IF out THEN [Out(channel) EXCEPT !.kick_nick = m.who] ELSE user_del(channel, m.who))
         /\ Say(IF out /\ Known THEN <<[cmd |-> "JOIN", c |-> m.c]>> ELSE <<>>)
         /\ UNCHANGED owed
  /\ UNCHANGED <<nick, races>>

\* When it is the bot it forgets the users, remembers who it was, and joins
\* again; but not if it was told to part before.
event_kick ==
  /\ Got("KICK")
  /\ LET out == nick = m.who
     IN  /\ InChannel(IF out THEN [Out(channel) EXCEPT !.kick_nick = m.by] ELSE user_del(channel, m.who))
         /\ Say(IF out /\ Known THEN <<[cmd |-> "JOIN", c |-> m.c]>> ELSE <<>>)
         /\ owed' = IF out /\ ~Known /\ owed[m.c] = m.by
                      THEN [owed EXCEPT ![m.c] = NULL] ELSE owed
  /\ UNCHANGED <<nick, races>>

event_part ==
  /\ Got("PART")
  /\ InChannel(IF nick = m.who THEN Out(channel) ELSE user_del(channel, m.who))
  /\ UNCHANGED <<nick, outbox, history>>

\* The parameter at pos, "" past the last.
Arg(pos) == IF pos <= Len(m.args) THEN m.args[pos] ELSE NULL

\* One letter of the modes: any but a sign is taken to have a parameter.
ModeLetter(st, l) ==
  CASE l \in {"+", "-"} -> [st EXCEPT !.mode = l = "+"]
    [] l = "o" -> [st EXCEPT !.ch = user_change_op(@, Arg(st.pos), st.mode), !.pos = @ + 1]
    [] OTHER -> [st EXCEPT !.pos = @ + 1]

\* All of them, one after the other.
ModeLetters(ch) ==
  LET after[i \in 0..Len(m.modes)] ==
        IF i = 0 THEN [ch |-> ch, mode |-> FALSE, pos |-> 1]
        ELSE ModeLetter(after[i - 1], m.modes[i])
  IN  after[Len(m.modes)].ch

event_mode ==
  /\ Got("MODE")
  /\ InChannel(ModeLetters(channel))
  /\ UNCHANGED <<nick, outbox, history>>

\* JOIN for all channels that are not joined.
JoinAll(chans) == SetToSeq({[cmd |-> "JOIN", c |-> c] : c \in {d \in DOMAIN chans : ~chans[d].joined}})

\* Channels are joined at the start and after kicks only.
event_ping_Wrong ==
  /\ Got("PING")
  /\ UNCHANGED <<bot, outbox, history>>

event_ping ==
  /\ Got("PING")
  /\ Say(JoinAll(channels))
  /\ UNCHANGED <<bot, history>>

\* ChanServ is asked to lift the ban, or for an invitation, and the channel
\* joined again.
reply_bannedfromchan ==
  /\ Got("BANNED")
  /\ Say(IF has_services /\ Known
           THEN <<[cmd |-> "JOIN", c |-> m.c]>> ELSE <<>>)
  /\ UNCHANGED <<bot, history>>

\* channel_del.
Without(c) == [d \in DOMAIN channels \ {c} |-> channels[d]]

reply_toomanychannels ==
  /\ Got("TOOMANY")
  /\ channels' = Without(m.c)
  /\ owed' = [owed EXCEPT ![m.c] = NULL]
  /\ UNCHANGED <<nick, outbox>>
  /\ races' = IF me \in members[m.c] \/ \E i \in DOMAIN outbox : outbox[i] = [cmd |-> "JOIN", c |-> m.c]
                THEN races \cup {"refusal"} ELSE races

-----------------------------------------------------------------------------
(* Commands, given on IRC or on the partyline, and the end of a connection. *)

Commanded == commands < MaxCommands /\ commands' = commands + 1 /\ Room
              /\ UNCHANGED <<nick, inbox, server, changes, restarts>>

scriptcmd_join(c) ==
  /\ Commanded
  /\ c \notin DOMAIN channels /\ Cardinality(DOMAIN channels) < CHANNEL_MAX
  /\ channels' = [d \in DOMAIN channels \cup {c} |-> IF d = c THEN NewChannel ELSE channels[d]]
  /\ Say(<<[cmd |-> "JOIN", c |-> c]>>)
  /\ UNCHANGED history

scriptcmd_part(c) ==
  /\ Commanded
  /\ c \in DOMAIN channels
  /\ channels' = Without(c)
  /\ Say(<<[cmd |-> "PART", c |-> c]>>)
  /\ owed' = [owed EXCEPT ![c] = NULL]
  /\ UNCHANGED races

\* irc_restart, and reply_init once the bot is connected again.  Only kicks that
\* it has seen are remembered.
Reconnect ==
  /\ restarts < MaxRestarts /\ restarts' = restarts + 1
  /\ \A c \in Names : nick_orig \notin members[c] \ {me}
  /\ nick' = nick_orig /\ me' = nick_orig
  /\ channels' = [c \in DOMAIN channels |-> Out(channels[c])]
  /\ inbox' = <<>> /\ outbox' = JoinAll(channels')
  /\ members' = [c \in Names |-> members[c] \ {me}] /\ ops' = [c \in Names |-> ops[c] \ {me}]
  /\ owed' = [c \in Names |-> IF c \in DOMAIN channels /\ channels[c].kick_nick = owed[c]
                                THEN owed[c] ELSE NULL]
  /\ UNCHANGED <<changes, commands, races>>

-----------------------------------------------------------------------------
Person ==
  \/ \E c \in Names, n \in Nicks : Joins(c, n) \/ Leaves(c, n)
  \/ \E n \in Nicks : Quits(n)
  \/ \E n, new \in Nicks : Renames(n, new)
  \/ \E c \in Names, by, n \in Nicks : Kicks(c, by, n)
  \/ \E c \in Names, by, n \in Nicks, sign \in {"+", "-"}, before \in Beside :
       SetsMode(c, by, sign, before, n)

ServerAnswers == \/ \E c \in Names : Accept(c) \/ Refuse(c)
                 \/ Ignore \/ Part \/ Who \/ Kick

Reply == reply_whoreply \/ reply_endofwho \/ reply_bannedfromchan \/ reply_toomanychannels

Event == \/ event_join \/ event_quit \/ event_nick \/ event_kick \/ event_part \/ event_mode
         \/ event_ping

Command == \E c \in Names : scriptcmd_join(c) \/ scriptcmd_part(c)

Next == Person \/ Ping \/ ServerAnswers \/ Reply \/ Event \/ Command \/ Reconnect

Spec == Init /\ [][Next]_vars

\* Lines arrive and are handled; the server sends PINGs, and lets the bot in
\* sooner or later.
FairSpec ==
  /\ Spec
  /\ WF_vars(Reply \/ Event) /\ WF_vars(ServerAnswers) /\ WF_vars(Ping)
  /\ \A c \in Names : SF_vars(Accept(c))

-----------------------------------------------------------------------------
(* Properties. *)

ChannelType ==
  [joined : BOOLEAN, users : Seq([nick : Nicks, op : BOOLEAN]), kick_nick : Nicks \cup {NULL}]

TypeOK ==
  /\ DOMAIN channels \subseteq Names /\ Cardinality(DOMAIN channels) <= CHANNEL_MAX
  /\ \A c \in DOMAIN channels :
       channels[c] \in ChannelType /\ Len(channels[c].users) <= C_USERS_MAX
  /\ nick \in Nicks /\ me \in Nicks
  /\ members \in [Names -> SUBSET Nicks] /\ \A c \in Names : ops[c] \subseteq members[c]
  /\ owed \in [Names -> Nicks \cup {NULL}] /\ races \subseteq {"who", "refusal", "first", "mode"}

\* Nothing is under way: the bot has seen all that happened.
Quiet == inbox = <<>> /\ outbox = <<>>

Users(c) == {channels[c].users[i] : i \in DOMAIN channels[c].users}

\* "if it's inside the channel": once it has seen everything the bot knows its
\* nick and where it is, and is in no channel that is not in its table, unless a
\* refusal was taken for the answer to a later JOIN.
SelfIsTrue ==
  Quiet =>
    /\ nick = me
    /\ "refusal" \notin races =>
         \A c \in Names : me \in members[c] <=> c \in DOMAIN channels /\ channels[c].joined

\* "users inside the channel": the list is who is there.
UsersAreTrue ==
  Quiet => \A c \in DOMAIN channels :
             channels[c].joined => {u.nick : u \in Users(c)} = members[c]

\* "if has op": those who have op are listed as such.
OpsAreTrue ==
  Quiet => \A c \in DOMAIN channels :
             \A u \in Users(c) : u.nick \in members[c] => (u.op <=> u.nick \in ops[c])

\* "ignore if the nick already exists": nobody is in the list twice, so that
\* the first of a nick is the one meant.
NoTwice ==
  \A c \in DOMAIN channels :
    \A i, j \in DOMAIN channels[c].users :
      channels[c].users[i].nick = channels[c].users[j].nick => i = j

\* All of it, unless a WHO was answered after the bot had been kicked, the bot was
\* the first in the channel, or a mode without a parameter stood before others.
TrueButForRaces ==
  /\ "who" \notin races => UsersAreTrue /\ NoTwice
  /\ races \cap {"who", "first", "mode"} = {} => OpsAreTrue

\* "to kick who kicked it": whoever kicked the bot and stayed is kicked back.
KicksBack ==
  Quiet /\ races \cap {"who", "refusal"} = {} =>
    \A c \in DOMAIN channels : me \in members[c] => owed[c] = NULL

\* "the bot is out": not for ever.
Rejoins == \A c \in Names : []<>(c \in DOMAIN channels => channels[c].joined)

=============================================================================
