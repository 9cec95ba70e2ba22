# A verification of mbot

mbot is an IRC bot in C++: one process that keeps one connection for each `bot`
section of its configuration, answers commands of registered users, keeps track
of its channels, offers DCC Chat and file transfers, and is extended by modules
that are loaded while it runs. This directory holds TLA+ modules of its core,
the TLC configurations that check them, and theorems checked by TLAPS. Names of
definitions are those of the code wherever TLA+ allows it. `PROJECT.json` says
which lines each definition stands for.

Contents: 1 inventory, 2 plan, 3 the modules, 4 the runs, 5 fairness, 6 what is
proved, 7 what was found, 8 what is left out.

## 1. Inventory

The program is sequential: `main` calls `Bot::work` for ever, which calls
`NetServer::work` of each server in turn; everything else is called from there.
(The one exception is `mod/shell.cpp`, which starts a thread for each timer.)
What is hard is not parallelism but order: a callback ends the connection it is
called on, deletes the list element it is called from, or reads what an event
between its request and the answer has changed.

| part | state | operations | interacts with |
|---|---|---|---|
| connection (`NetServer`, `Net`, `Services`) | socket, `connecting`, `connected`, ring of hosts, times, identification with services | `work`, `irc_connect`, `irc_restart`, `host_add`, `!server`, numeric replies, ERROR | resets channels, DCCs and users when it ends |
| DCC table (`NetDCC`, `NetServer::dccs`) | DCCs with status, socket, file, index; the table | `dcc_work`, `!chat`, `!get`, `!dcckill`, deletion in `work`, `irc_restart` | commands run from its lines; the party line goes through the whole table |
| channels (`Channel`, `NetServer::channels`, `Script`) | users and ops of each channel, `joined`, who kicked | events JOIN PART KICK QUIT NICK MODE, WHO replies, refusals, `!join`, `!part`, PING | the server's own view, over two queues |
| modules and hooks (`Module`, `List`, `ListVars`, `Script::cmds`) | loaded modules, lists of functions, commands and variables of each server | `!modadd`, `!moddel`, `!loadconf`, `!set`, `!unbind`, walks | every event walks a list of functions in module code |
| users and access (`ListUsers`, `Script`) | masks, passwords, levels, identified | `!useradd`..., `!pass`, `!id`, DCC password, `match_mask_level`, save and load | QUIT, NICK and reconnection reset the identification |
| dispatch and parsing (`Script`, `NetServer::irc_parse`) | current line `cmd[]`, origin of the command | `irc_reply`, `irc_event`, `event_privmsg`, `send_text` | everything |
| line reading (`Net::readln`) | buffer and position | `readln`, `writeln` | connection, DCC, HTTP |
| configuration, logs, pid (`Bot`, `Log`) | text of the configuration, open logs, rotation dates | `parse_conf`, `change_log`, `check_pid` | modules log, `!modadd` |
| texts and masks (`Text`, `Strings`, `utils`) | lines | `match_mask`, `make_generic_mask`, `delete_lines` | users, bans |
| what scripts run (`mod/tcl`, `mod/shell`, `mod/calc`) | lists of timers and binds, a thread for each shell timer, variables of the calculator | walks that call what is in the lists, commands that change them, `start`/`stop` of threads, `calc` | scripts, INIT and ERROR of the connection |
| what answers, remembers and watches (`mod/flood`, `word`, `web`, `log`, `seen`, `watch`, `ircop`, `getnick`) | counters of each channel, a file of words, a running request, log files, a table of nicks and its file, nicks the server watches | one set of commands and events each | the hooks above, the disk, other sites |
| other modules (`alice`, `chanstat`, `extra`, `invite`, `joinmsg`, `urlsniffer`, `whois`) | patterns, statistics, URLs | answers | the hooks above |
| start, compatibility, build (`mbot.cpp`, `missing.cpp`, `configure.in`) | options | fork, signals | none |

What makes each correct, and the hazard that makes it hard (the full list, at
its lines, is under `hazards` in `PROJECT.json`):

* connection: a descriptor is open exactly when a flag says so; a session leaves
  nothing behind however it ends; the server is not hammered; `!server` reaches
  its host; a dead server is left, a live one is not, although the date may be
  changed; some host is always tried again.
* DCC table: deletion while the table is walked loses no DCC and leaves none
  for ever; indices follow; a failing write stops others in the middle of a
  method; nobody reaches the party line but through his password.
* channels: once all lines are handled the table is what the server says;
  between a JOIN and the end of the WHO, between a KICK and the answer to an
  older WHO, and between `!part` and its echo it is easily wrong.
* modules: nothing of an unloaded module is reachable; what is loaded is called
  once, also after reloading, and with an element deleting itself in the walk.
* users: nobody has the level of another; an identification ends with the
  presence of who gave the password.
* scripts: a walk through a list calls each element that is due, once, and none
  that was deleted, although what it calls changes the list; no shell command
  runs for a timer that was stopped or is gone, nor after an ERROR of the server.
* services: a file that is rewritten in place is right after every change, and
  after a crash has lost what was being changed and nothing else, as far as the
  stream's buffer allows; counts and tables at their limits do what they are for;
  an answer goes to who asked.

## 2. Plan

Done, in this order, because the rest runs inside it:

1. `Connection` - the loop of the program and all that ends a connection.
2. `Dcc`, with the abstract `DccSessions` it implements.
3. `Channels`, with the external server.
4. `Modules`, with all 18 modules' conf and stop.
5. `ConnectionProofs`, `DccProofs`.
6. `UserAccess`, with people who come and go and a file that may be cut off, and
   `UserAccessProofs`.
7. `TclTimers`, `TclBinds`, `ShellTimers`, `Words` with the abstract `Dictionary` it
   implements, and `NetHttp` with `Web` on it, composed in `MCScripts`.
8. `FloodControl`, `LogFile`, `ChatLog`, `Seen`, `Presence`, `Calculator` and `Masks`,
   composed in `MCServices`.
9. `SequenceLemmas` (queues, the least of a set of numbers, functions defined step by
   step), and with it `ServicesProofs` (of `FloodControl`, `LogFile`, `ChatLog`, `Seen`
   and `Presence`), `ChannelsProofs` and `ScriptsProofs` (of `ShellTimers`, `TclBinds`
   and `TclTimers`); the sessions of `Dcc`, the access and the file of `UserAccess`, the
   ring of `Connection`.
10. `ModulesProofs`, for which the passes over the configuration and the commands of
   `Modules` became recursive functions.

Next, most important first: `urlsniffer` and `chanstat`; the compositions of
`Connection` with `Channels` and `UserAccess` over one `irc_restart`, as far as
TLC's bounds allow. A theorem worth proving next: IsDictionary.

## 3. The modules

Times are kept as ages, strings as model values or names, the text of messages
is left out. A definition ending in `_Wrong` is a plausible mistake in a later
one, used by no action: the properties are tested against them.

**Connection.** One step is one call of `NetServer::work`, a second that passes
(`Tick`), or a change of the system date (`ChangeDate`). `Connect` is
`irc_connect` with all its failures (resolver, `socket`, bind of the virtual
host, which leaves a closed descriptor in `sock`); `WorkConnecting` is
`openhost`; the handlers that end a connection (`WorkReadError`, `WorkStoned`,
`event_error`, `reply_nicknameinuse`) or belong to the session
(`reply_init`, `Services`, `OwnJoin`, `OwnLeave`, `SetId`) are actions of their
own, each with the line or the DCC activity that triggers it. The ring of hosts
is the pointer `next`; `host_add` splices as the code does. `idle`, `silence`,
`ahead` (by how much the date was set ahead since `time_read` was set), `target`
(the host asked for by `!server`) and `collided` (a nick collision came before it
was tried) are histories that only properties read.

**Dcc** keeps pointers as such: a slot holds an address, which may be of a
deleted DCC and may be used again. Methods of `NetDCC` are sets of outcomes,
because any write may fail and stop that chat and, over the announcement, others.
The loop of `work` is `BeginLoop`, `WorkDcc` or `WorkLine` (a command typed in
a chat runs inside the loop), and `WorkDelete`, which moves the table down and
corrects `index` and `from`. `irc_restart` deletes one DCC after the other, each
chat of which announces its end to the whole table, those deleted before it
included; and it leaves its addresses in the slots, where a later deletion follows
the one past the last slot. What comes of using freed memory is a choice: nothing,
or anything. Where the code has undefined behaviour (freed memory with a
consequence, the slot past the table, `select` on a descriptor of -1) `undefined`
says so and the model stops, which the program need not: nothing is claimed about
what follows. `leftover` says that a deletion has met such an address. `DccSessions`
is what people see: one chat and one send each, stage after stage.

**Channels** composes the bot's handlers with the server, which is external and
modelled from what the handlers expect: it answers JOIN, PART, WHO and KICK,
tells everybody in a channel what happens there, may refuse a JOIN, and answers
a WHO also to those outside. `inbox` and `outbox` are the two directions of
the connection. `owed` remembers who kicked the bot, `races` which of four
known races have occurred: `who` (a WHO answered after the bot was out),
`refusal` (a refusal handled after a later JOIN), `first` (the bot is alone and
therefore has op), `mode` (a mode without a parameter before one with).

**Modules** has a table of what each of the 18 modules adds in its `conf` and
deletes in its `stop`, and the program's own side: `List`, `ListVars`, the two
passes over the configuration (`parse_conf`, `read_conf`), `!modadd`,
`!moddel`, `!loadconf`, `!set`, `!unbind`, and walks through lists one call at a
time, with workers that delete themselves. An element knows the load it
belongs to; calling one whose load is gone is undefined behaviour and stops the
model. The two passes are recursive functions of the lines, and a command one of its
modules. `Careless` names the modules whose `stop` leaves something behind
(`joinmsg`, `shell`, `web`, see 7): properties exempt these and no others.
The six lists are those modules use; core commands and variables are never
deleted by loading or unloading and are left out.

**UserAccess** has the list of `ListUsers` in its order, head first, with the
lookups by pattern (`match_...`) and by exact mask (`abs_...`); which text a mask
fits is a constant (`fits`), as is the text without a host that the answer to
WATCH is looked up with (`offline`). Each command that changes a user is an
action, guarded by `Dispatched` (the level check of `event_privmsg`) and its own
comparison (`Outranks`), and ends in `save_users`: the file cannot be opened, is
written, is cut short by a full disk, which is not noticed, or the program is killed
in the middle of it, leaving some lines and perhaps a part of one. A line is what the
file has of it: `Read` takes it apart at each ":", so that a mask which has one
(`parts`) comes back as a mask, a password and a level, and `load_users` skips those
that start with "#" (`comments`). `odd` says that such a mask was given. `Start` loads
what is there, each line at the head, and ends the program on a part of a line, as
`parse_conf` does. People are external:
they connect, share a channel with the bot, change nick, quit; `Gone` is what
the bot is told of it (QUIT or NICK in a shared channel, WATCH otherwise) and
`earned` who gave a password since. A password is compared as such; `crypt` and
the messages of users are left out.

**TclTimers** is the linked list of `mod/tcl.cpp` with its cells: the walk
(`tcl_timer`) keeps the pointer to the cell whose command it evaluates, has the timer
deleted, and goes on through that cell; the command may add a timer, delete any, or its
own. A freed cell keeps what it held until it is used again; a walk that comes to one
that was used again, or to a timer that was freed, is undefined behaviour and stops the
model. **TclBinds** has the binds in their `List` with its one cursor, and the
procedures that `do_bind_...` calls, which may bind more; a bind of a type that is not
stackable replaces what was bound before (`Rest` is the loop of `bind_del`).
**ShellTimers** has a thread for each timer beside the bot's: it sleeps, tests `alive`,
runs its command and sends what it says through the server that the bot's thread uses;
the bot's thread starts, cancels and joins it (`start`, `stop`). The connection ends by
an ERROR, which stops the timers, or otherwise, which does not. `Order` is the list, all
of which `shell_event` and `shell_stop` walk. The three are extended by MCScripts, so
that each names its own `...Init`, `...Next` and `...Spec`; so are those of MCServices
that have theorems.
**Calculator** evaluates an expression on its stack of symbols, one operator for
each branch of `parse_expsimple`. A value is the tree of the operations that made
it, so that what is compared is the order of evaluation. `Meaning` is the
reference: an expression read by its last operator of the lowest priority, and a name
that is followed by "=" standing for all that follows. CalcIsRight compares the two
where what is assigned begins with a value (`Plain`); elsewhere they differ (section 7).

**FloodControl** has the counters of a channel; `row`, `same`, `rowFree` and
`sameFree` are histories, the true numbers of lines, the latter two since the last
warning, kick or `!set`; `passed` says that a `!set` left a counter above its limit.

**Words** has the file of words line by line with the length of each, the table of
byte positions, and every point of `del_word` at which the program may be killed: the
lines behind the deleted one are copied over it through the buffer of the stream, which
is written when it is full (`Mixed`), at the latest when it is closed (`Overwritten`, the
old end still there), and then the file is cut. A line of which a part was overwritten has
`stale` bytes behind its text; the rest of the old end is a word of its own, which may be
any that is known. A definition is cut at `MSG_SIZE` by `!learn+` (`Cut`), inside of a word
or at a space. What the commands do to a file that was torn is left out, but not what
they would find in it: Words refines **Dictionary**, where each word has a definition or
none, and a kill takes at most the one that was being changed, unless the lines behind
it do not fit into the buffer.

**NetHttp** is a request with its stages and a stream that arrives in pieces; behind
what makes a difference the site may send lines without end (`Drip`). **Web** extends it
by who asked, by the module being taken out while a request is running, and by the
connection to IRC, without which the works of the modules are not called.
**LogFile** has the file, what the stream still keeps, and rotation, in which the file
may fail to be renamed (it is opened again and grows) and the new one to be opened.
**ChatLog** has who is in a channel (`present`) and whom the bot has in its list
(`users`): nobody before the answer to its WHO, nobody it has no place for. The loggers
of an event go by the list and by `last_deleted_nick`. **Seen** has the table and the
file with its last record still in the stream; a NICK makes two records, between which
the program may be killed; the date may be set back. `last` is who did what when, and
`due` who did something in this event and is not recorded yet: both are set from what
happened, not from what is recorded. `kicked` is who was kicked.
**Presence** composes the core, `watch`, `getnick` and `ircop` with a server that answers
WATCH and NICK, and tells of QUIT and NICK if they share a channel; both directions are
queues that are lost when the connection is. Others may have the nick of the bot, which
the server then refuses, connection after connection. Whose identity is found when a
watched nick is gone is a constant (`Finds`): the core looks for `nick!user@*`, which a
mask with a host does not fit, and then he stays identified. **Masks** compares a
pattern with a text as `match_mask` does, with a position in each, and makes the mask
of a ban; `Covers` is the reference. Here a mask is a sequence of characters, which
are what the two functions are about; elsewhere it is a value.

## 4. The runs

Passing runs:

| run | instance | shows |
|---|---|---|
| `connection` | 2 configured hosts, one of them reliable, 2 more by `!server`, 1 channel, 1 user, the date set back or ahead once by 2 s; limits 1 < 2 < 4 s, gaps up to 2 s | SocketMatchesFlags, SessionEndsWithConnection, RingIsOneCycle, DeadServerIsLeft, TimeoutIsEarned, WaitsToReconnect, JumpGoesThere, Reconnects |
| `dcc` | 3 DCCs of 2 people in a table of 4, 1 restart, symmetric in both | TableHoldsAll, IndexIsSlotAtFirst, DccsAreSound, ImplementsSessions |
| `dcc_live` | 1 person, table of 3, 1 restart, no symmetry | DccsEnd |
| `channels` | 1 channel, the bot and 2 nicks, 3 messages under way, 2 changes, 2 commands, 1 restart, both refusals, modes before the op | TypeOK, SelfIsTrue, TrueButForRaces, KicksBack |
| `channels_live` | 2 channels (one by `!join`, with services), 1 person, 1 restart | Rejoins |
| `users` | the owner, and ann under two nicks, each of whom may be connected; 3 masks, one for everybody; 1 change, 1 crash or lost connection | AccessEarned |
| `users_file` | the same entries and two that the file can not hold, nobody moves; 2 changes, 1 crash or lost connection, full disks | OwnersStay, SavedIsKept, LoadsWhatWas |
| `modules` | 2 bots, all 18 modules, 3 loads, 2 configurations and an empty one | TypeOK, HooksBelong, HooksComplete, OwnOnly |
| `scripts` | Tcl: 3 cells, 2 changes, timers of 1 and 2 ticks; 3 binds of 5 types, 1 event, 2 calls. Shell: 2 timers, 1 line each, 2 connections, 1 DCC. Word: 2 words, 3 changes, 1 kill, a buffer and messages that lines exceed. Web: 2 askers, 2 requests, a page of 3 bytes in any pieces, the connection to IRC lost at any time | EachTimerRuns, EachBindIsCalled, ThreadsAreStopped, StopReturns, IsDictionary, NewsAreTrue, RequestEnds |
| `services` | flood: 2 masks, 2 texts, 6 lines, limits 0 to 2, one `!set`; log: 5 lines, 2 days, 1 crash; chat log: 2 nicks, 2 channels with lists of 1, 4 loggers, 3 events; seen: 4 nicks, a table of 2, 1 restart or crash; presence: 2 others, 4 steps, queues of 3; expressions of up to 7 symbols with three priorities, a function, a variable and `ans`; Roman numerals to 1999 and around 10000; masks: patterns of `*`, `?` and a letter against 4 characters, up to 4 each, and users of 3, hosts of 4 characters | FloodIsFair, Kept, QuitIsLogged, SeenIsTrue, StaysWatched, CalcIsRight, MasksAreRight |

The modules of either of the last two share no state. Each behaviour has one `part` that
makes the steps while the others stay at an initial state, so that the runs are
the sums of the instances and not their products.

Runs that find a promise of the repository broken (section 7): `dcc_index`, `log_flush`.
Each checks one property.

Why the bounds are enough. *connection*: the real limits (10, 90, 600 s) matter
only by their order and by a gap that may exceed the smallest, which 1, 2, 4 and
a gap of 2 keep; a host in the middle of the ring needs three, `!server` twice
gives four; ages stop at 5, beyond every limit. *dcc*: deleting the first, the
middle and the last of three, with one more slot to copy from, covers the loop;
a second restart adds no new kind of stale address. A full table is excluded by
the fourth slot because deleting from one is undefined (section 7); deleting one of
three around a restart meets an address that was left in every way. *channels*:
a race needs one message on its way in each direction and one overtaking; with
three under way and two changes all four races occur. *modules*: one reload
of each module next to two others; two bots of which not every module
serves both; two lines of a module that allows them. *users*: two complete
masks that one entry fits, one of which can turn into the other, and an entry
that can be put in front of both, are what the identification depends on; one
change is enough to put it there. *users_file*: two of a change that fails to be saved,
one that is saved, and one that is cut off or short, in any order; OwnersStay does not
depend on the number (section 6). One mask has ":" and one starts with "#". The levels
are -1 to 3 instead of 10, with one level between those of the commands and the
owner's.

*scripts* and *services*: a walk goes wrong at the element it is at, the one before and
the one after, which three cells and binds have; a thread is cancelled while it
sleeps, runs or writes with one line each. Expressions of seven symbols have
three operators of different priorities around each other, or two in braces;
shorter ones are sequences of any symbols, several in a session. Each
count and table has a limit below the number of lines or nicks there are;
each file that may be cut off is so once, at any step, between changes of its
first, last and only line, with more behind it than the buffer holds and less; a page has
a line that arrives in two pieces, one that is too long, and one whose end is late; the
list of a channel has a place for one of two; four characters hold two wildcards with
something before, between or behind them.

`CHECK_DEADLOCK FALSE` is said of Dcc, Modules, UserAccess, MCScripts, MCServices
and LogFile only, which really may stop: after undefined behaviour, after the
program has ended itself (`conf_error`, a user file it cannot read), and when the
bounds are used up.

## 5. Fairness

* Connection: `WF(Tick)` - time passes; `WF(work)` - `main` calls `Bot::work`
  for ever; `SF(WorkIdle /\ connecting')` - a host tried again and again is not
  refused a socket by the operating system for ever. That host 2 resolves and
  accepts is the constant `Reliable`, not fairness; any other host may fail
  for ever, and every connection may be ended at once.
* Dcc: `WF(Work)` - the loop goes on. The peers need do nothing.
* Channels: `WF(Reply \/ Event)` - lines are handled; `WF(ServerAnswers)`,
  `WF(Ping)` - the server answers and sends PINGs, which the timeout of 600 s
  relies on; `SF(Accept(c))` - a channel that is asked for again and again is
  not refused for ever.
* ShellTimers: `WF` of the bot's own steps in `stop`, and of the end of a thread
  that was cancelled - the operating system runs every thread. A command of a
  timer may run for ever.
* Web: `WF` of the worker's call and of time - the loop of the program goes on, and
  comes to the works of the modules while the bot is connected to IRC; `SF` of a call
  in which `connect` is over - the kernel gives up at some time. The site need not send
  anything, and nothing makes the bot stay connected: RequestEnds excepts a bot that
  is without connection again and again, and a site that sends lines without end.
* Modules has no liveness property: a lookup that is never answered keeps its
  worker for ever, in the code as well. Nor has UserAccess: nobody has to do
  anything.

## 6. What is proved

All theorems are about every value of the constants that the named assumptions
of the modules allow. Each names the property it proves in its statement; the runs
check the same property on a small instance.

`ConnectionProofs` (assumptions: LimitsAssumption, AgeCapAssumption,
DateAssumption):

* TypeCorrect, by `TInv`: TypeOK alone is not inductive, since `host_add`
  looks for the host whose `next` is the current one. `TInv` adds that `next`
  is a permutation of the hosts (`Ring`); SpliceKeepsRing and HostAddKeepsRing
  show that the splice keeps it one.
* RingStaysWhole (`RingIsOneCycle`): the hosts are one cycle, that is, no set of
  hosts but all of them is closed under `next` (`OneCycle`). Stated like this it needs
  no recursion: a set that the ring does not leave after the splice has the new host,
  and without that host it is a set that the old ring does not leave
  (SpliceKeepsCycle). `TInv` has to be known, and nothing else.
* SocketFollowsFlags and SessionEnds, together as `SInv`: the end of the session
  hangs on the flags.
* RetryWaits (`WaitsToReconnect`), by `IdleIsTryAge`: the history `idle` is
  always the age of `last_try`, that is, no path forgets to set it.
* JumpReaches (`JumpGoesThere`), inductive with `TInv`: `host_add` keeps the new host
  right behind the one that the command leaves in `host_current`, so whatever ends the
  connection goes on to it; a nick collision goes back to the one before it, and then
  to it.
* TimeoutIsReal (`TimeoutIsEarned`), by `QuietInv`: `time_read` is never older than
  the silence and what the date was set ahead since it was set. Whatever is done to
  the date, no more is claimed, because no more is true (section 7).
* DeadServerLeft (`DeadServerIsLeft`) under `TimelyBounds`: connecting takes
  less than TIME_STONED.

`DccProofs` (assumption: DccAssumption): TypeCorrect, TableSound
(`TableHoldsAll`), IndexCorrect (`IndexIsSlotAtFirst`), DccsCorrect
(`DccsAreSound`) and the refinement SessionsImplemented (`ImplementsSessions`), by
`TableInv`. The slots in use and the DCCs that exist are in bijection (`Sound`)
whatever is in the slots past them. That the indexes are exact (`Clean`) holds until a
deletion meets an address past the last slot (`leftover`), and there is none before a
restart (`Bare`), so that nothing that was deleted is used until then. From the first
restart on TableHoldsAll does not exclude that freed memory is used, IndexIsSlotAtFirst
and the part of DccsAreSound about `from` hold until `leftover`, and no property speaks
of what follows undefined behaviour. The methods are in three layers: each leaves the table alone
(`Keeps`), and all but `dcc_work` can only end DCCs (`Ends`), also those of others, by
an announcement that cannot be written; `dcc_work` takes one to its next stage and
may end others (`Moves`). From this follows what a DCC has open (`Opens`), that a nick
has one chat and one send (`OneEach`), and that each nick's part of a step is one of
`DccSessions` or none (MovesSteps), so that the actions are not expanded twice.

`UserAccessProofs` (assumption: UsersAssumption, which asks of the first file
that no level is above the highest):

* UsersKeepOwners (`OwnersStay`), by `OwnersInv`. The list in the file is part of
  it, since that is what a crash leaves, and so is that every level is at most
  LEVEL_MAX, since "nobody outranks an owner" rests on it. The lookups are only known
  to return an index of the list (`Found`); which one, and so what fits what, does not
  matter.
* AccessIsEarned (`AccessEarned`), by `AccessInv`, which speaks of every entry that is
  identified and not, as the property, of the first that fits somebody: an entry that
  is behind another comes to the front when that one is deleted or its mask changed.
* FileIsKept (`SavedIsKept`) and the action property LoadedWasThere (`LoadsWhatWas`),
  by `FileInv`: every step either saves a list, leaves the lines as they are, or is a
  crash or a start (`Kinds`). The lines are counted (`Alike`), because a start turns
  their order around. A line is read as it was written if its mask has no ":" and does not
  start with "#"; a full disk is told from a save by `saved`.
* All but AccessIsEarned hold as long as no other mask was given (`odd`). Section 7 has
  what comes of one, and of a full disk.

`ServicesProofs`, of five components of MCServices:

* FloodControl (FloodAssumption, that no mask is NoMask and limits are natural
  numbers): TypeCorrect and FloodFair (`FloodIsFair`), by `FInv`. The counters are at
  least the lines let through (`FreeIsCounted`) and at most the lines written
  (`CountsAreOwn`), and never pass a limit unless a `!set` puts it below them (`passed`),
  since each is compared with it before it goes up. The count of equal lines is the
  exception: the line that reaches `flood_maxmask` is not compared, after which it may
  be too high; but then the writer has passed the other limit.
* ChatLog (no assumption): QuitLogged (`QuitIsLogged`), by `CInv`: the property and
  `Complete`, that whoever is present in a channel is listed once the answer to its WHO
  has come and as long as nobody was dropped from its list. QUIT and NICK make the nick
  the last that each channel which lists him deleted, and the log then asks for the
  channels of which this is true. That he was not listed is why a QUIT may be missing
  from a log (`Complete`), that he was deleted before why one may be there too often
  (section 7); the property claims the first kind only where the list is complete.
* LogFile (LogAssumption, that LOG_SIZE is at least one line): LinesKept (`Kept`), by
  `LInv`. It states the lines as a `Chain`: ascending, up to the last one written, with
  none missing but those in `lost`. A chain stays one when the next line is added
  (`ChainAppend`) or lost (`ChainLose`), when its first part is thrown away with the
  old file (`ChainSuffix`) and when its last is lost in a crash (`ChainPrefix`). The
  property lacks that a stream which is not open keeps no line, and that where there is
  no file nothing is open and no line is in it. The limit of the file holds unless it
  could not be renamed (`stuck`).
* Seen (SeenAssumption): SeenTypeCorrect and SeenTrue (`SeenIsTrue`), by `SInv`. The
  table is as good as two files: the one that is there when the stream has written what
  it keeps (`Flushed`), which agrees with the table, and the one that is there now,
  which is true of what was seen before the last change (`AfterCrash`) and is what a
  kill leaves. The record that is overwritten is the oldest that the loop finds
  (OldestFound), unless none is older than now, which happens only when the date was
  set back (`Timely`, `Passed`). Whoever still has to be recorded is the second half of
  the event (`second = due`).
* Presence (WatchAssumption): WatchTypeCorrect and WatchesStay (`StaysWatched`), by
  `WInv`. What the server does not watch for, but should, is on its way, and not taken
  back behind it: a WATCH + with no WATCH - after it among the requests (`Ends`), or a
  message that the bot answers with one. This is the part that the two modules that ask
  for the same nick could break. It is claimed of those identified whose identity can be
  found (`ids \cap Found`), and of the modules unless the server has refused every nick
  of the bot (`named = NoNick`). The NICK messages on their way lead from the nick the bot
  believes to have to the one it has (`NickKnown`), and a refused connection has its
  refusal still to come (`RefusalComes`).

`ModulesProofs` (ModulesAssumption: the modules are among the 18 of the table, each
file has a `bot` line, and a `module` line names one of them):

* TypeCorrect, ListsBelong (`HooksBelong`) and ListsComplete (`HooksComplete`), by
  `MInv`, which AlwaysSound proves. What a list of a server must hold of a loaded module
  is said by the entries of that module alone (`Asked`), a module that is not loaded has
  no entries (`Tidy`), and no load number is given twice (`Distinct`, `Whose`), so that
  what a stop takes away is what its own conf added. The properties lack the busy
  workers, whose entry must be the newest of its server (`NewestBusy`), the names of
  variables, of which no list has one twice (`NamesApart`), and what the walk has called
  so far (`Walking`).
* The table is expanded once, in the lemmas about the kinds of modules there are: all
  else speaks of what a module `Does`. The passes over lines, modules and entries are
  recursive functions over 0 to n; StepsExist says that they are defined, StaysIn that
  they keep what each step keeps.
* the action property OthersKeepTheirs (`OwnOnly`), from the same invariant: what is left
  of a list without the elements of a module (`Others`, which is also how its commands
  are unbound) does not change when one of these comes (OthersAdd) or goes
  (OthersRemove). That a stop which deletes by name finds its own needs that names of
  variables and commands are those of the table (NamedIsMine).

`ChannelsProofs` (ChannelsAssumption, among it that there are finitely many nicks):

* TypeCorrect, by `CType`, with the lines in both queues and the limits of the table
  and of each channel. What a line leaves of the bot is a case of its own for each
  event and reply; a MODE is a recursive function of its letters, of which LettersExist
  proves that it has the values its definition says.
* SelfKnown (`SelfIsTrue`), by `SelfInv`: what the lines under way will tell the bot
  of itself, read in their order and under the nick it has by then (`Follows`), ends in
  what is true; and of a channel of which nothing is under way the table has it right
  (`Agrees`), or has no entry and the server has none or a PART to come (`Outside`).
  The queue of nicks is not part of the state, and is therefore quantified.
* TableIsTrue (`TrueButForRaces`), ListedOnce (nobody is in a list twice) and KickedBack
  (`KicksBack`), by `TrueInv`, which is about the whole list where SelfInv is about the
  bot. For each channel there is a sequence of views (`Chain`), one before each line under
  way and one after the last: what the lines say when they are read in their order. It
  begins with what the bot takes its nick for and ends in the channel as it is. Unless the
  race of a late WHO was met (`Knows`):
    * the list is of people who are in the first view, with op if they have it (`Sees`):
      true when the bot reads it, not when the server wrote the lines;
    * nobody stays missing (`Pending`): the bot is out, has a WHO to send or to wait for,
      or comes in by one of the lines, or whoever is there in the last view is listed or
      is named by a line, and nobody comes or goes behind that (`Synced`);
    * whom it has to kick is remembered (`Owes`): from a place in the lines on, which is its
      own KICK or the first one if he is its kick_nick, nothing makes it forget him before
      a WHO is answered, or before one is sent that will be. For that each JOIN in outbox has
      a WHO behind it, before the next KICK (`JoinsAsk`, `KicksAsk`, `WhoFirst`).
* TableIsTrue has a hypothesis, `Enough`: there are no more nicks than C_USERS_MAX. It
  is needed: once a channel has more people than that the bot knows some of them only,
  which is what the limit is for. ListedOnce and KickedBack do not have it.

`ScriptsProofs`, of three components of MCScripts:

* ShellTimers (ShellAssumption, that the list of the configuration is one): ThreadsStop
  (`ThreadsAreStopped`), by `ThreadsInv`. While the bot stops all of them after an
  ERROR, whoever is alive is still in the rest of the list it walks. Nothing is claimed
  of a connection that ends in another way (section 7).
* TclBinds (no assumption): BindsCalled (`EachBindIsCalled`), by `BindsInv`: whatever is
  behind the cursor was there when the walk began (`FutureIsOld`) and has not been called
  yet (`FutureIsUncalled`), so that none is called twice, and what is before it has been
  called (`PastIsCalled`). `bind_add` at the head moves the cursor by one.
  `bind_del` is a recursive function; RestIsList shows what it is a list of.
* TclTimers (TimersAssumption): TimersRun (`EachTimerRuns`), by `WalkInv`. A timer that
  is due and was not evaluated is still to come (`Comes`): it is not before the cell the
  walk is at or, if that was freed, before the one that this was followed by. Cells
  that the program still has a pointer to never share a number (`CellsAreOwn`), so that
  the deletion of what was evaluated takes out this timer or none; with one kind of
  timers it takes it out if it is there (`RunsOnce`). Once the walk has come to a freed
  cell, only the counts are claimed.

`SequenceLemmas` has what several of these need: that a nonempty set of natural
numbers has a least one, what is in a queue and behind what in it (`Has`, `Ends`) when
it grows and shrinks, and that a function which is defined step by step exists
(StepsExist) and stays where each step stays (StaysIn) - an induction that is needed
once for each recursive function, and stated as a least counterexample.

Only model-checked:

* liveness under fairness (Reconnects, DccsEnd, Rejoins, StopReturns, RequestEnds),
  which is out of the prover's reach;
* CalcIsRight (the expression and its reference are recursive operators) and
  MasksAreRight (an induction over the pattern and the text);
* IsDictionary and NewsAreTrue, whose files and pages are folded over lines and bytes:
  these operators of the libraries take an operator as a parameter, and the provers know
  nothing of what they return.

## 7. What was found

Two runs end in a counterexample.

* `dcc_index` (`IndexIsSlot`): `irc_restart` leaves addresses in `dccs[]`; a later
  deletion (`NetServer.cpp:304`) copies one from beyond `dcc_num` and lowers the index
  of the DCC that has this address now.
* `log_flush` (`AlwaysFlushed`): `change_log` opens the log again with its two modes
  exchanged (`Log.cpp:144`): a log that is always flushed is not after a rotation, and
  one that has the time in each line loses it.

Other promises of the repository that the code does not keep are stated beside the
properties that hold. TLC refutes each in the instance of the passing run, when it takes
the place of the properties in its cfg (`MasksAreKept` and `OldestGoes` as a `PROPERTY`,
the others as an `INVARIANT`).

* `NoFalseTimeout` (`connection`): the test "prevent disconnecting when the system date
  changes" (`NetServer.cpp:275`) is made only once the silence limit has passed, and
  sees only the gap to the previous call of `work`. After a change that leaves
  `time_read` within the limit, or one while the bot is connecting, a live server is
  declared dead earlier by as much. `TimeoutIsEarned` says by how much.
* `JumpIsFirst` (`connection`): `!server` (`scriptcmd.h:85`) leaves `host_current` before
  the new host, for the ERROR to go on to it; when the connection ends by
  ERR_NICKNAMEINUSE instead (`Script.cpp:318`), the bot connects to `host_current`, the
  host before the one asked for, which is then the next (`JumpGoesThere`).
* `SavedOrTold` (`users_file`): "save users to user file, return 0 on failure"
  (`ListUsers.cpp:87`); only the opening of the file is tested. When the disk gets full
  while the lines are written the command says it is done, and the old lines are gone.
* `MasksAreKept` (`users_file`): a mask with ":", which `!useradd` and `!usermask` accept
  (`README:366`, `README:379`), comes back from the file as a mask, a password and a
  level (`ListUsers.cpp:61-76`, `:101`), here the highest level and no password; a mask
  that starts with "#" does not come back.
* `StopsOnConnectionError` (`scripts`): "stops timers on connection error"
  (`shell.cpp:500`); only the server's ERROR is looked at. After a read error, a timeout
  or a nick collision the timers go on, without a connection to answer to.
* `NamesAreDefined` (`services`): `<name>=<expression>` (`README:453-454`) refuses an
  expression with a sign, and "a=b=2" sets b only (`calc.cpp:311`).
* `LimitsHold` (`services`): the counters of flood are compared with the limits by `==`
  (`flood.cpp:123`, `:145`), so that a limit which `!set` puts below a counter is not
  met (`README:495-497`) while the same mask goes on.
* `LoggedIfHere` (`services`): "if it was here" (`log.cpp:216`): a QUIT is also logged in
  a channel that he left earlier, if nobody has left it since.
* `KickedIsSeen` (`services`): of a KICK only the nick of the sender is saved
  (`seen.cpp:301`); `README:589-590` has "saves the nicks" of quit, part, kick, nick and
  join.
* `OldestGoes` (`services`): the loop that is to "seach the oldest" (`seen.cpp:205`)
  overwrites the first record when none is older than now, as after the date was set
  back.

Met while modelling, and not stated as properties. In the core:

* `irc_restart` deletes the DCCs one after the other, and a chat that ends announces
  it to the whole table, those already deleted included (`NetServer.cpp:233-235`,
  `NetDCC.cpp:39-42`, `:263-266`): freed memory is read. A deletion after it in the same call of
  `work` follows such an address (`NetServer.cpp:304-306`);
* `shell_stop` forgets `shell_reply` (`shell.cpp:618`). In the same way
  `joinmsg_conf` adds its function on every `bot` line (twice to the last server's list
  when `!loadconf` brought one bot more) but `joinmsg_stop` deletes one per `joinmsg`
  line, and `web_stop` deletes neither of its variables; when web is loaded again
  `var_add` refuses the name and the old handler stays;
* after `!loadconf` of a file with more bots, `!modadd` applies their sections to
  the last server (`scriptcmd.cpp:79`), although `README:178` has each section
  independent of the others;
* a negative `changetime` beyond TIME_STONED: the branch that should prevent
  a disconnection (`NetServer.cpp:278`) assigns the corrected time to
  `time_read`, which is in system time, and causes it;
* a full DCC table: the deletion reads `dccs[DCC_MAX]` (`NetServer.cpp:304`);
* a chat whose first write fails is stopped and then given the status of
  one that asks for a password or talks (`NetDCC.cpp:125`): it holds its slot,
  without a socket, until its time is up. DccsAreSound is stated so that this is
  allowed;
* `server_jumped` outlives a read error or timeout, so the next ERROR reconnects
  without waiting (WaitsToReconnect allows for it);
* the answer to a WHO sent before a kick fills the list of a channel the bot is
  out of (`Script.cpp:256`); who leaves meanwhile stays in it. The first in a
  channel has op, but the bot lists itself without (`Script.cpp:490`).
  TrueButForRaces excepts these two, and a mode without a parameter before one
  that has one;
* `load_users` adds each line at the head and `save_users` writes from the head
  (`ListUsers.cpp:77`, `:99`): a start turns the list around. Where masks overlap
  the levels change with it: an entry `*!*@*` of level -1 that was after all
  others comes first once the list has been saved and loaded again;
* the answer to WATCH is looked up as `nick!user@*` (`Script.cpp:361`): the entry
  of somebody is not found by it when its mask has a host without wildcards at
  its end, as `*!ann@*.pt`, or another entry fits it first, and he stays
  identified until his complete mask is told to have gone in another way;
  AccessEarned excepts him (`slipped`);
* `README:367` says that `!useradd` overwrites an existing mask; the code refuses
  (`scriptcmd.cpp:963`). `README:385` says that `!id` shows who is identified;
  it shows `cur_mask`, which `irc_restart` leaves when it resets `id`;
* `!usermask` may give two entries one mask, after which the second is
  reached by no command;
* a comment says that `NetHttp` returns 5 for a read error (`Net.cpp:447`); it
  returns 1, the code of the end of a page.

In the modules:

* tcl: `timer_del` compares the kind of the head of the list, not of the timer it
  looks at (`tcl.cpp:1031`), so that with timers of both kinds one may outlive
  `killtimer` or run twice; a bind of type `topc` ends the program when a topic
  is set (`tcl.cpp:890`, `README:721-723`); a flag that comes first in a list of
  flags for `&` or `|` is compared with an uninitialised value
  (`attr2level`, `README:715-718`); `hand2idx` uses a user that may not exist
  (`tcl.cpp:1532`); when a procedure binds its type again, and that type is not
  stackable, the rest of the binds is skipped (`tcl.cpp:559`); `README:709` lacks `unbind`;
* shell: the output of a timer goes to the DCC that gave the last command
  (`shell.cpp:99`, `Script.cpp:149`), which may be another one by then;
* word: `!learn-` refuses a definition whose first word has one letter
  (`README:651-652` does not say so); the lines that are copied over a deleted one are
  written whenever the buffer of the stream is full (`word.cpp:321-322`), so that a kill
  in between may damage the definition of another word; `!learn+` says that a definition
  was changed when it was cut at MSG_SIZE (`word.cpp:439`);
* web: "Another request is being processed." goes to the one who asked before
  (`web.cpp:460`), and a page that consists of a root only is freed twice; the
  README lists commands that do not exist; a site that sends a line within each time
  limit keeps the request for ever, and with it all others (`Net.cpp:475-480`);
* ircop: the password is never stored (`ircop.cpp:38`), and a NULL pointer is
  used at INIT and PING (`README:546-548`);
* log: who is not in the bot's list of a channel, since the WHO is not answered yet or
  the list is full, quits with no line (`log.cpp:216`); a log is not rotated on a day
  without a line between midnight and 6 h (`README:218`); the rename of a rotation is not
  tested (`Log.cpp:129`): when it fails the old file is opened again at each line, and
  grows beyond its size;
* watch: the test for a nick that is configured twice is never true, by the
  precedence of its operators (`watch.cpp:157`); someone who leaves between his
  `!pass` and the server's handling of the WATCH stays identified, since the
  answer 605 is ignored; whose identity is not found as `nick!user@*` (above) stays
  identified while his watch is taken back (`Script.cpp:361-363`), which no document
  denies;
* seen: behind a nick of full size there is no space in the file, and its time
  is read as 0; flood: the README exempts users of level 5 (`README:497`), the
  code those of level 4; whois: a local `line` hides the member of that name;
* calc: an expression that fails may have set a variable already ("a=2=3"), and
  after an error in braces what follows is still evaluated;
  "a==2" is taken as "a=2"; the oldest of VARS_MAX variables is never deleted,
  since no time is less than -1 (`calc.cpp:371`); fact() counts with 16 bits:
  fact(65539) is fact(3);
* `match_mask` takes what follows a `*` where it first comes and does not go back:
  "*ab" does not fit "aab", nor "*A" "a", while letters elsewhere are compared in
  both cases (`utils.cpp:328`). A "?" is a wildcard behind a `*` only, elsewhere it
  fits itself (`utils.cpp:333`), where `README:726` has "only * and ? match
  characters"; this errs on the side of nobody. `make_generic_mask` runs past the
  end of a host without a point that does not end in a digit, as "localhost"
  (`utils.cpp:372`), and makes "*!*user@*" of an IPv6 address that ends in one.

## 8. What is left out

* `missing.cpp` (replacements of library functions), `mbot.cpp` (options, fork and
  the loop), build files and data: no behaviour of the bot's own.
* `alice`, `extra`, `invite`, `joinmsg`, `whois`, `chanstat`, `urlsniffer`: their
  loading, lists and workers are in `Modules`; what they answer is text.
* Most commands of `tcl.cpp` pass arguments to functions of the core that are
  modelled there; the interpreter is a library.
* Texts: `Text`, `Strings` and the functions of `utils` other than those for masks
  work on characters. Which texts fit which masks is a constant of `UserAccess`.
* In what is modelled: help, logging of the bot itself; topics, keys and bans of
  channels; messages of users, and Tcl's use of their list (its `reload` loads the
  file again without clearing the list); the contents of files sent; numbers and
  functions of the calculator, with their errors; several servers in one
  `Bot::work` (they share modules and time only; Modules has two).
* What the commands of `word` make of a file that was torn by a kill.
* Undefined behaviour is never continued: Dcc, Modules, TclTimers, TclBinds and
  ShellTimers stop where the program may go on, so that nothing is said of what
  follows. Dcc goes on only where it takes the freed memory to be as it was.
