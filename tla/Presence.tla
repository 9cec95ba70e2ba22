-------------------------------- MODULE Presence --------------------------------
(***************************************************************************)
(* The bot and a server that it asks to tell it who is there.  The core    *)
(* asks to WATCH whoever has identified himself, and takes the identity    *)
(* and the watch back when he is gone; the module watch asks for the nicks *)
(* of its configuration, and again when the core has given one of them up; *)
(* the module getnick takes a nick as soon as its owner leaves it; the     *)
(* module ircop identifies the bot to the server.  Requests and messages   *)
(* are on their way for any time, in order, and are lost when the          *)
(* connection is made again.                                               *)
(***************************************************************************)
EXTENDS Naturals, SequencesExt

CONSTANTS
  Others,     \* nicks of others
  nick_orig,  \* the nick of the bot
  NoNick,     \* of the bot, where the server has refused it
  Finds,      \* whose identity the core finds by a nick, a user and any host: his
              \* whose it is, unless his mask names a host, or that of another
  watch_list, \* of watch: the nicks of its configuration, in order
  Wanted,     \* getnick_nick
  MaxSteps,   \* bound: what the others do
  MaxQueue    \* bound: requests, and messages, on their way when another is made

\* What the constants must be for the properties below.
AllNicks == Others \cup {nick_orig}
WatchAssumption ==
  /\ watch_list \in Seq(Others) /\ Wanted \in Others
  /\ NoNick \notin AllNicks /\ Finds \in [AllNicks -> SUBSET AllNicks]
  /\ MaxSteps \in Nat

VARIABLES
  online, named, watching,  \* the server: the others there, the nick of the bot, its watches
  requests, messages,       \* to the server, and to the bot: of a kind, and about a nick
  nick, ids, supported,     \* the bot: its nick, who is identified, whether a 005 has come
  has_ircop,                \* whether ircop is configured
  up,                       \* whether the program runs
  steps

server == <<online, named, watching>>
bot    == <<nick, ids, supported>>
rest   == <<has_ircop, up, steps>>
watchVars == <<server, requests, messages, bot, rest>>

\* The nicks that server_nick2watch finds.
Watched == ToSet(watch_list)

\* The first messages of a connection, and the nick that the bot gets: somebody else
\* may have its own.
Greeting == <<<<"INIT", nick_orig>>, <<"ISUPPORT", nick_orig>>>>
Refusal  == <<<<"NICKNAMEINUSE", nick_orig>>>>
Welcome(there) == IF nick_orig \in there THEN Refusal ELSE Greeting
NickAt(there)  == IF nick_orig \in there THEN NoNick ELSE nick_orig

WatchInit ==
  /\ online \in SUBSET AllNicks /\ named = NickAt(online) /\ watching = {}
  /\ requests = << >> /\ messages = Welcome(online)
  /\ nick = nick_orig /\ ids = {} /\ supported = FALSE
  /\ has_ircop \in BOOLEAN /\ up = TRUE /\ steps = 0

-----------------------------------------------------------------------------
(* The others, and the server.                                              *)

Taken   == online \cup {named}
Tell(s) == messages' = messages \o s
If(c, m) == IF c THEN <<m>> ELSE << >>

Step ==
  /\ up /\ steps < MaxSteps /\ steps' = steps + 1 /\ Len(messages) < MaxQueue
  /\ UNCHANGED <<requests, bot, has_ircop, up>>

SignOn(n) ==
  /\ Step /\ n \notin Taken /\ online' = online \cup {n}
  /\ Tell(If(n \in watching, <<"WATCHONLINE", n>>))
  /\ UNCHANGED <<named, watching>>

\* With or without a channel that the bot is in.
SignOff(n, near) ==
  /\ Step /\ n \in online /\ online' = online \ {n} /\ (near => named # NoNick)
  /\ Tell(If(near, <<"QUIT", n>>) \o If(n \in watching, <<"WATCHOFFLINE", n>>))
  /\ UNCHANGED <<named, watching>>

Rename(n, m, near) ==
  /\ Step /\ n \in online /\ m \notin Taken /\ online' = (online \ {n}) \cup {m}
  /\ (near => named # NoNick)
  /\ Tell(If(near, <<"NICK", <<n, m>>>>) \o If(n \in watching, <<"WATCHOFFLINE", n>>)
                                         \o If(m \in watching, <<"WATCHONLINE", m>>))
  /\ UNCHANGED <<named, watching>>

\* !pass, or the password of a chat.
Identify(n) ==
  /\ Step /\ n \in online /\ named # NoNick
  /\ Tell(<<<<"pass", n>>>>)
  /\ UNCHANGED server

\* !nick
Command(n) == Step /\ named # NoNick /\ Tell(<<<<"!nick", n>>>>) /\ UNCHANGED server

\* A request reaches the server; those that get no answer of interest are not here.
Serve ==
  /\ up /\ named # NoNick /\ requests # << >> /\ requests' = Tail(requests)
  /\ LET kind == Head(requests)[1]
         n    == Head(requests)[2] IN
       \/ /\ kind = "WATCH+" /\ watching' = watching \cup {n}
          /\ Tell(<<<<IF n \in Taken THEN "WATCHSTARTONLINE" ELSE "WATCHSTARTOFFLINE", n>>>>)
          /\ UNCHANGED <<online, named>>
       \/ /\ kind = "WATCH-" /\ watching' = watching \ {n}
          /\ Tell(<<<<"WATCHSTOP", n>>>>)
          /\ UNCHANGED <<online, named>>
       \/ kind = "NICK" /\ n = named /\ UNCHANGED <<server, messages>>
       \/ /\ kind = "NICK" /\ n \in online
          /\ Tell(<<<<"NICKNAMEINUSE", n>>>>)
          /\ UNCHANGED server
       \/ /\ kind = "NICK" /\ n \notin Taken /\ named' = n
          /\ Tell(<<<<"NICK", <<named, n>>>>>>)
          /\ UNCHANGED <<online, watching>>
  /\ UNCHANGED <<bot, rest>>

-----------------------------------------------------------------------------
(* The bot: the first of the messages.                                      *)

Ask(s) == requests' = requests \o s
It     == Head(messages)[2]

Receive(kinds) ==
  /\ up /\ messages # << >> /\ Head(messages)[1] \in kinds
  /\ messages' = Tail(messages)
  /\ UNCHANGED <<server, has_ircop, steps>>

\* ircop_type does not keep the password it is given; it is read where there is none.
ircop_reply ==
  /\ Receive({"INIT"})
  /\ up' = ~has_ircop
  /\ UNCHANGED <<requests, bot>>

\* The core knows no RPL_ISUPPORT, watch does.
Isupport ==
  /\ Receive({"ISUPPORT"})
  /\ supported' = TRUE
  /\ Ask([i \in DOMAIN watch_list |-> <<"WATCH+", watch_list[i]>>])
  /\ UNCHANGED <<nick, ids, up>>

scriptcmd_pass ==
  /\ Receive({"pass"})
  /\ ids' = ids \cup {It} /\ Ask(<<<<"WATCH+", It>>>>)
  /\ UNCHANGED <<nick, supported, up>>

scriptcmd_nick ==
  /\ Receive({"!nick"})
  /\ Ask(<<<<"NICK", It>>>>)
  /\ UNCHANGED <<bot, up>>

\* The core, which knows the nick and the user but looks for any host; the module
\* only logs.
reply_watchoffline ==
  /\ Receive({"WATCHOFFLINE"})
  /\ ids' = ids \ Finds[It] /\ Ask(<<<<"WATCH-", It>>>>)
  /\ UNCHANGED <<nick, supported, up>>

\* The core has stopped a watch, and this is not looked at.
Watchstop_Wrong ==
  /\ Receive({"WATCHSTOP"})
  /\ UNCHANGED <<requests, bot, up>>

\* What the core has stopped is asked for again.
Watchstop ==
  /\ Receive({"WATCHSTOP"})
  /\ Ask(If(It \in Watched, <<"WATCH+", It>>))
  /\ UNCHANGED <<bot, up>>

\* The module logs, and asks who it is.
Watchonline ==
  /\ Receive({"WATCHONLINE", "WATCHSTARTONLINE", "WATCHSTARTOFFLINE"})
  /\ UNCHANGED <<requests, bot, up>>

event_quit ==
  /\ Receive({"QUIT"})
  /\ ids' = ids \ {It}
  /\ UNCHANGED <<requests, nick, supported, up>>

\* Script::event_nick, then getnick_event: the nick of anybody, the bot included.
event_nick ==
  /\ Receive({"NICK"})
  /\ ids' = ids \ {It[1]}
  /\ nick' = IF nick = It[1] THEN It[2] ELSE nick
  /\ Ask(If(It[1] = Wanted, <<"NICK", Wanted>>))
  /\ UNCHANGED <<supported, up>>

\* irc_restart and irc_connect: nothing of this connection is left, at either end.
\* It is the same answer again for as long as somebody has the nick of the bot.
reply_nicknameinuse ==
  /\ up /\ messages # << >> /\ Head(messages)[1] = "NICKNAMEINUSE"
  /\ nick' = nick_orig /\ ids' = {} /\ supported' = FALSE
  /\ requests' = << >> /\ messages' = Welcome(online)
  /\ named' = NickAt(online) /\ watching' = {}
  /\ UNCHANGED <<online, rest>>

WatchNext ==
  \/ \E n \in AllNicks, near \in BOOLEAN :
       SignOn(n) \/ SignOff(n, near) \/ \E m \in AllNicks : Rename(n, m, near)
  \/ \E n \in Others : Identify(n)
  \/ \E n \in AllNicks : Command(n)
  \/ Serve
  \/ ircop_reply \/ Isupport \/ scriptcmd_pass \/ scriptcmd_nick \/ reply_watchoffline \/ Watchstop \/ Watchonline
  \/ event_quit \/ event_nick \/ reply_nicknameinuse

WatchSpec == WatchInit /\ [][WatchNext]_watchVars

-----------------------------------------------------------------------------
(* Properties                                                               *)

Requests == {"WATCH+", "WATCH-", "NICK"} \X AllNicks
Messages ==
  {"INIT", "ISUPPORT", "pass", "!nick", "QUIT", "NICKNAMEINUSE", "WATCHONLINE", "WATCHOFFLINE",
   "WATCHSTARTONLINE", "WATCHSTARTOFFLINE", "WATCHSTOP"} \X AllNicks
    \cup {"NICK"} \X (AllNicks \X AllNicks)

WatchTypeOK ==
  /\ requests \in Seq(Requests) /\ messages \in Seq(Messages)
  /\ online \subseteq AllNicks /\ watching \subseteq AllNicks /\ ids \subseteq AllNicks
  /\ named \in (AllNicks \cup {NoNick}) \ online /\ nick \in AllNicks
  /\ supported \in BOOLEAN /\ has_ircop \in BOOLEAN /\ up \in BOOLEAN /\ steps \in 0..MaxSteps

\* Who is found by his own nick, whatever his host.
Found == {n \in AllNicks : n \in Finds[n]}

(* When nothing is on its way, the server watches for the bot all the nicks of *)
(* its configuration and all who are identified and found by their nick,       *)
(* although core and module ask for the same nicks and the core takes its      *)
(* requests back; and the bot knows the nick it has.  Who has a mask with a    *)
(* host is not among them: the core takes his watch back when he is gone, and  *)
(* leaves him identified.                                                      *)
StaysWatched ==
  (up /\ requests = << >> /\ messages = << >>) =>
    /\ Watched \cup (ids \cap Found) \subseteq watching
    /\ nick = named

================================================================================
