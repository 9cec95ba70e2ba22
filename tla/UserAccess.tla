------------------------------ MODULE UserAccess ------------------------------
(***************************************************************************)
(* The registered users of one bot: the list of ListUsers, its file, the   *)
(* commands that change it, and who is taken to be identified.             *)
(*                                                                         *)
(* A user is an entry with a mask that has wildcards; who speaks is known  *)
(* by a complete mask, nick!user@host, and is whoever the first entry is   *)
(* that fits.  An identification holds for the complete mask it was given  *)
(* from, until the bot is told that this one has gone: by QUIT or NICK if  *)
(* they share a channel, by the server's WATCH otherwise.                  *)
(*                                                                         *)
(* A line of the file is mask:password:level:message, and nothing in it is *)
(* escaped: a mask that has a ":" or starts with "#" is read otherwise     *)
(* than it was written.                                                    *)
(*                                                                         *)
(* People and the server are external.  The program may be killed at any   *)
(* time, also while it writes the file, and the disk may be full.  A       *)
(* definition whose name ends in _Wrong is a plausible mistake in a later  *)
(* one.                                                                    *)
(***************************************************************************)
EXTENDS Integers, FiniteSets, SequencesExt

CONSTANTS
  LEVEL_MIN, LEVEL_MAX,
  Full,         \* complete masks of people
  nick,         \* nick[f], the nick of f
  offline,      \* offline[f], the text "nick!user@*" of f
  Renames,      \* pairs of complete masks that differ in the nick only
  Masks,        \* masks of entries
  fits,         \* fits[m], the texts that m fits: match_mask
  parts,        \* parts[m], the mask m split at each ":"
  comments,     \* masks that start with "#", as the comments in the file do
  atoi,         \* atoi[t], the number that the text t starts with, or 0
  Passwords,    \* "" is none
  NULL,
  file_users,   \* the lines of the file at first
  LEVEL,        \* LEVEL[c], the level of command c at first
  Adjusted,     \* commands whose level !cmdlevel may change
  NewLevels,    \* levels that are asked for in !useradd and !userlevel
  NewPasswords, \* passwords that are asked for in !userpass and !setpass
  Chatting,     \* bound: complete masks that open a DCC Chat
  Moving,       \* bound: complete masks that come and go; others are on IRC
  MaxUsers,     \* bound: entries
  MaxChanges,   \* bound: commands that change the list or a level
  MaxBreaks,    \* bound: crashes and lost connections
  MayFill       \* bound: whether the disk may get full

Commands == {"!useradd", "!userdel", "!userpass", "!usermask", "!userlevel", "!setpass",
             "!usermsg", "!setmsg", "!cmdlevel", "!pass", "!chat"}

ASSUME UsersAssumption ==
  /\ LEVEL_MIN \in Int /\ LEVEL_MAX \in Int /\ LEVEL_MIN < 0 /\ 1 < LEVEL_MAX
  /\ LEVEL \in [Commands -> 0..LEVEL_MAX] /\ Adjusted \subseteq Commands
  /\ NewLevels \subseteq Int /\ {MaxUsers, MaxChanges, MaxBreaks} \subseteq Nat
  /\ "" \in Passwords /\ NewPasswords \subseteq Passwords \ {""} 
  /\ Chatting \subseteq Full /\ Moving \subseteq Full
  /\ Renames \subseteq Moving \X Moving /\ NULL \notin Full
  /\ file_users \in Seq([mask : Masks, pass : Passwords, level : Int])
  /\ \A i \in DOMAIN file_users : /\ file_users[i].level <= LEVEL_MAX
                                  /\ file_users[i].mask \notin comments
                                  /\ Len(parts[file_users[i].mask]) = 1

ASSUME PartsAssumption ==
  /\ comments \subseteq Masks
  /\ \A m \in Masks : Len(parts[m]) \in Nat \ {0} /\ parts[m][1] \in Masks
  /\ \A m \in Masks : Len(parts[m]) = 1 => parts[m][1] = m
  /\ \A m \in Masks : Len(parts[m]) > 1 => parts[m][2] \in Passwords
  /\ \A m \in Masks : Len(parts[m]) > 2 => atoi[parts[m][3]] \in Int
  /\ \A p \in Passwords : atoi[p] \in Int

VARIABLES
  users,    \* the list, its head first: [mask, pass, level, id, cur_mask]
  level,    \* the level each command requires
  watched,  \* nicks the server is asked to WATCH
  chat,     \* the DCC Chat of each: "none", "auth", "talk"
  file,     \* [lines, rest]: rest is a last line that was cut off, or NULL
  status,   \* "runs", "killed", or "exited" by itself
  where,    \* each is "off", on "irc", or in a "channel" with the bot
  changes, breaks,
  \* histories, read by no action
  earned,   \* who gave a password since the bot was last told that he went
  slipped,  \* who went without the bot resetting the entry
  saved,    \* the last save: "whole", "not" made, or cut "short" and not noticed
  before,   \* the lines in memory and file when the program was killed
  torn,     \* killed while saving, or a save cut short
  odd       \* a mask was in the list that the file can not hold

memory  == <<users, level, watched, chat>>
bounds  == <<changes, breaks>>
history == <<earned, slipped, saved, before, torn, odd>>
vars    == <<memory, file, status, where, bounds, history>>

-----------------------------------------------------------------------------
(* ListUsers.  An index of 0 stands for NULL. *)

FirstOf(I) == IF \E i \in I : \A j \in I : i <= j
              THEN CHOOSE i \in I : \A j \in I : i <= j ELSE 0

\* The first entry that fits a text, the first with exactly this mask.
match_mask2user(us, text) == FirstOf({i \in DOMAIN us : text \in fits[us[i].mask]})
abs_mask2user(us, mask)   == FirstOf({i \in DOMAIN us : us[i].mask = mask})

match_mask_reallevel(us, text) ==
  LET i == match_mask2user(us, text) IN IF i = 0 THEN 0 ELSE us[i].level

\* The level of an entry counts when it is negative, or for who is identified.
match_mask_level(us, text) ==
  LET i == match_mask2user(us, text)
  IN CASE i = 0                                  -> 0
       [] i # 0 /\ us[i].level < 0               -> us[i].level
       [] i # 0 /\ us[i].level >= 0 /\ us[i].id /\ us[i].cur_mask = text -> us[i].level
       [] OTHER                                  -> 1

\* Any password will do for an entry that has none.
match_check_pass(us, text, pass) ==
  LET i == match_mask2user(us, text) IN i # 0 /\ us[i].pass \in {"", pass}

match_set_id(us, text, id) ==
  LET i == match_mask2user(us, text)
  IN IF i = 0 THEN us
     ELSE [us EXCEPT ![i].id = id, ![i].cur_mask = IF id THEN text ELSE NULL]

Entry(line) == [mask |-> line.mask, pass |-> line.pass, level |-> line.level,
                id |-> FALSE, cur_mask |-> NULL]
LineOf(u)   == [mask |-> u.mask, pass |-> u.pass, level |-> u.level]

\* Masks that the file can not hold.
Odd(mask) == mask \in comments \/ Len(parts[mask]) > 1

\* The first three fields of a line, wherever its mask has a ":".
Read(line) ==
  LET p == parts[line.mask]
  IN CASE Len(p) = 1 -> line
       [] Len(p) = 2 -> [mask |-> p[1], pass |-> p[2], level |-> atoi[line.pass]]
       [] Len(p) > 2 -> [mask |-> p[1], pass |-> p[2], level |-> atoi[p[3]]]

\* Each line is added at the head, comments are skipped.
load_users(lines) ==
  LET list[n \in 0..Len(lines)] ==
        IF n = 0 THEN <<>>
        ELSE IF lines[n].mask \in comments THEN list[n - 1]
        ELSE Cons(Entry(Read(lines[n])), list[n - 1])
  IN list[Len(lines)]

Lines(us) == [i \in DOMAIN us |-> LineOf(us[i])]

\* The file when writing ends after n lines, or somewhere in the next one.
Part(us, n, cut) == [lines |-> SubSeq(Lines(us), 1, n),
                     rest  |-> IF cut THEN Lines(us)[n + 1] ELSE NULL]

-----------------------------------------------------------------------------
Init ==
  /\ users = load_users(file_users) /\ level = LEVEL
  /\ watched = {} /\ chat = [f \in Full |-> "none"]
  /\ file = [lines |-> file_users, rest |-> NULL] /\ status = "runs"
  /\ where = [f \in Full |-> IF f \in Moving THEN "off" ELSE "irc"]
  /\ changes = 0 /\ breaks = 0
  /\ earned = [f \in Full |-> FALSE] /\ slipped = {}
  /\ saved = "whole" /\ before = {} /\ torn = FALSE /\ odd = FALSE

\* Without its connection the bot shares no channel with anybody.
Alone == [f \in Full |-> IF where[f] = "channel" THEN "irc" ELSE where[f]]

\* The program is killed, with the lines of us in memory; it will start anew.
Kill(us, saving) ==
  /\ breaks < MaxBreaks /\ breaks' = breaks + 1
  /\ status' = "killed" /\ where' = Alone
  /\ users' = <<>> /\ level' = LEVEL /\ watched' = {} /\ chat' = [f \in Full |-> "none"]
  /\ earned' = [f \in Full |-> FALSE] /\ slipped' = {} /\ saved' = "whole"
  /\ before' = UNION {ToSet(l) : l \in {Lines(users), Lines(us), file.lines}}
  /\ torn' = (torn \/ saving)

\* us is the new list, and saved: the file can not be opened, is written, or
\* is written up to somewhere in line n + 1, for the disk is full or the
\* program killed.  Only the opening is tested.
save_users(us) ==
  /\ changes < MaxChanges /\ changes' = changes + 1
  /\ odd' = (odd \/ \E i \in DOMAIN us : Odd(us[i].mask))
  /\ \/ /\ users' = us
        /\ UNCHANGED <<level, watched, chat, status, where, breaks, earned, slipped, before>>
        /\ \/ /\ file' = [lines |-> Lines(us), rest |-> NULL]
              /\ saved' = "whole" /\ UNCHANGED torn
           \/ UNCHANGED <<file, torn>> /\ saved' = "not"
           \/ /\ MayFill
              /\ \E n \in 0..(Len(us) - 1), cut \in BOOLEAN : file' = Part(us, n, cut)
              /\ saved' = "short" /\ torn' = TRUE
     \/ /\ Kill(us, TRUE)
        /\ \E n \in 0..(Len(us) - 1), cut \in BOOLEAN : file' = Part(us, n, cut)

-----------------------------------------------------------------------------
(* The commands.  A line of f comes from IRC, or from his DCC Chat. *)

Dispatched(f, c) ==
  /\ status = "runs" /\ (where[f] # "off" \/ chat[f] = "talk")
  /\ match_mask_level(users, f) >= level[c]

\* f has a higher level than the entry with this mask, the i-th.
Outranks(f, mask, i) ==
  /\ i = abs_mask2user(users, mask) /\ i # 0
  /\ match_mask_level(users, f) > users[i].level

scriptcmd_useradd(f, mask, l) ==
  LET own == match_mask_level(users, f)
  IN /\ Dispatched(f, "!useradd") /\ Len(users) < MaxUsers
     /\ abs_mask2user(users, mask) = 0
     /\ own > match_mask_reallevel(users, mask) /\ own > l
     /\ save_users(Cons(Entry([mask |-> mask, pass |-> "", level |-> l]), users))

\* One of the same level may be deleted.
scriptcmd_userdel_Wrong(f, mask) ==
  /\ Dispatched(f, "!userdel")
  /\ LET i == abs_mask2user(users, mask)
     IN /\ i # 0 /\ match_mask_level(users, f) >= users[i].level
        /\ save_users(RemoveAt(users, i))

scriptcmd_userdel(f, mask) ==
  /\ Dispatched(f, "!userdel")
  /\ \E i \in DOMAIN users : Outranks(f, mask, i) /\ save_users(RemoveAt(users, i))

scriptcmd_userpass(f, mask, pass) ==
  /\ Dispatched(f, "!userpass")
  /\ \E i \in DOMAIN users :
       Outranks(f, mask, i) /\ save_users([users EXCEPT ![i].pass = pass])

scriptcmd_usermask(f, mask, new) ==
  /\ Dispatched(f, "!usermask")
  /\ \E i \in DOMAIN users :
       Outranks(f, mask, i) /\ save_users([users EXCEPT ![i].mask = new])

\* The new level is not written to the file.
scriptcmd_userlevel_Wrong(f, mask, l) ==
  /\ Dispatched(f, "!userlevel") /\ l \in LEVEL_MIN..LEVEL_MAX
  /\ \E i \in DOMAIN users :
       /\ Outranks(f, mask, i) /\ match_mask_level(users, f) > l
       /\ users' = [users EXCEPT ![i].level = l]
  /\ changes < MaxChanges /\ changes' = changes + 1
  /\ UNCHANGED <<level, watched, chat, file, status, where, breaks, history>>

scriptcmd_userlevel(f, mask, l) ==
  /\ Dispatched(f, "!userlevel") /\ l \in LEVEL_MIN..LEVEL_MAX
  /\ \E i \in DOMAIN users :
       /\ Outranks(f, mask, i) /\ match_mask_level(users, f) > l
       /\ save_users([users EXCEPT ![i].level = l])

\* For the first entry that fits who asks.
scriptcmd_setpass(f, pass) ==
  LET i == match_mask2user(users, f)
  IN /\ Dispatched(f, "!setpass") /\ i # 0
     /\ save_users([users EXCEPT ![i].pass = pass])

\* The message of an entry is not modelled; setting it saves the list.
scriptcmd_usermsg(f, mask) ==
  /\ Dispatched(f, "!usermsg")
  /\ \E i \in DOMAIN users : Outranks(f, mask, i) /\ save_users(users)

scriptcmd_setmsg(f) ==
  Dispatched(f, "!setmsg") /\ match_mask2user(users, f) # 0 /\ save_users(users)

scriptcmd_cmdlevel(f, c, l) ==
  /\ Dispatched(f, "!cmdlevel") /\ level[c] # l
  /\ changes < MaxChanges /\ changes' = changes + 1
  /\ level' = [level EXCEPT ![c] = l]
  /\ UNCHANGED <<users, watched, chat, file, status, where, breaks, history>>

\* f is identified, and the server asked to tell when his nick goes.
Identify(f) ==
  /\ users' = match_set_id(users, f, TRUE)
  /\ watched' = watched \cup {nick[f]}
  /\ earned' = [earned EXCEPT ![f] = TRUE]
  /\ UNCHANGED <<level, file, status, where, bounds, slipped, saved, before, torn, odd>>

scriptcmd_pass(f, pass) ==
  /\ Dispatched(f, "!pass") /\ match_check_pass(users, f, pass)
  /\ Identify(f) /\ UNCHANGED chat

\* A DCC Chat is opened for registered users; it outlives their connection.
scriptcmd_chat(f) ==
  /\ Dispatched(f, "!chat") /\ f \in Chatting
  /\ match_mask_level(users, f) >= 1 /\ chat[f] = "none"
  /\ chat' = [chat EXCEPT ![f] = "auth"]
  /\ UNCHANGED <<users, level, watched, file, status, where, bounds, history>>

dcc_chat_pass(f, pass) ==
  /\ status = "runs" /\ chat[f] = "auth"
  /\ \/ /\ match_check_pass(users, f, pass)
        /\ Identify(f) /\ chat' = [chat EXCEPT ![f] = "talk"]
     \/ /\ ~match_check_pass(users, f, pass)
        /\ chat' = [chat EXCEPT ![f] = "none"]
        /\ UNCHANGED <<users, level, watched, file, status, where, bounds, history>>

\* A chat ends, whatever its reason.
dcc_stop(f) ==
  /\ status = "runs" /\ chat[f] # "none"
  /\ chat' = [chat EXCEPT ![f] = "none"]
  /\ UNCHANGED <<users, level, watched, file, status, where, bounds, history>>

-----------------------------------------------------------------------------
(* People come and go. *)

event_quit(us, f) ==
  IF match_mask_level(us, f) > 0 THEN match_set_id(us, f, FALSE) ELSE us

\* The identification is kept over a change of nick.
event_nick_Wrong(us, f) == us

event_nick(us, f) ==
  IF match_mask_level(us, f) # 0 THEN match_set_id(us, f, FALSE) ELSE us

\* The server's answer has no host: nick!user@*.
reply_watchoffline(us, f) == match_set_id(us, offline[f], FALSE)

\* An entry that f is identified for, and that is not the first that fits text.
Shadowed(f, text) ==
  \E i \in DOMAIN users : /\ users[i].id /\ users[i].cur_mask = f
                          /\ i # match_mask2user(users, text)

\* f is gone; seen says what becomes of the list if they share a channel, and
\* unheard that this would not reset the entry of f.
Gone(f, seen, unheard) ==
  LET shared == where[f] = "channel"
      asked  == nick[f] \in watched
      us     == IF shared THEN seen ELSE users
  IN /\ users' = IF asked THEN reply_watchoffline(us, f) ELSE us
     /\ watched' = watched \ {nick[f]}
     /\ earned' = [earned EXCEPT ![f] = @ /\ ~shared /\ ~asked]
     /\ slipped' = IF (shared => unheard) /\ (asked => Shadowed(f, offline[f]))
                   THEN slipped \cup {f} ELSE slipped
     /\ UNCHANGED <<level, chat, file, status, bounds, saved, before, torn, odd>>

Moves(f, from, to) ==
  /\ f \in Moving /\ status = "runs" /\ where[f] = from
  /\ where' = [where EXCEPT ![f] = to]

\* Connects, joins, or leaves the last channel shared with the bot.
Comes(f) ==
  /\ Moves(f, "off", "irc") \/ Moves(f, "irc", "channel") \/ Moves(f, "channel", "irc")
  /\ UNCHANGED <<memory, file, status, bounds, history>>

Quits(f) ==
  /\ \E from \in {"irc", "channel"} : Moves(f, from, "off")
  /\ Gone(f, event_quit(users, f), Shadowed(f, f) \/ match_mask_level(users, f) <= 0)

TakesNick(f, g) ==
  /\ status = "runs" /\ where[f] # "off" /\ where[g] = "off" /\ <<f, g>> \in Renames
  /\ where' = [where EXCEPT ![f] = "off", ![g] = where[f]]
  /\ Gone(f, event_nick(users, f), Shadowed(f, f) \/ match_mask_level(users, f) = 0)

-----------------------------------------------------------------------------
(* The connection is lost, or the program killed and started again. *)

irc_restart ==
  /\ status = "runs" /\ breaks < MaxBreaks /\ breaks' = breaks + 1
  /\ users' = [i \in DOMAIN users |-> [users[i] EXCEPT !.id = FALSE]]
  /\ chat' = [f \in Full |-> "none"] /\ watched' = {} /\ where' = Alone
  /\ earned' = [f \in Full |-> FALSE] /\ slipped' = {}
  /\ UNCHANGED <<level, file, status, changes, saved, before, torn, odd>>

Killed == status = "runs" /\ Kill(users, FALSE) /\ UNCHANGED <<file, changes, odd>>

\* What is left of a line is taken for a user.
Start_Wrong ==
  /\ status = "killed" /\ status' = "runs"
  /\ users' = load_users(IF file.rest = NULL THEN file.lines
                         ELSE Append(file.lines, [file.rest EXCEPT !.level = 0]))
  /\ UNCHANGED <<level, watched, chat, file, where, bounds, history>>

\* A line that was cut off ends the program; not if it is taken for a comment,
\* and it may not if its mask has a ":" and the rest enough of them.
Start ==
  /\ status = "killed"
  /\ \/ /\ status' = "runs"
        /\ \/ file.rest = NULL /\ users' = load_users(file.lines)
           \/ /\ file.rest # NULL /\ Odd(file.rest.mask)
              /\ users' = load_users(Append(file.lines, file.rest))
     \/ /\ file.rest # NULL /\ file.rest.mask \notin comments
        /\ status' = "exited" /\ UNCHANGED users
  /\ UNCHANGED <<level, watched, chat, file, where, bounds, history>>

Changes(f) ==
  \/ \E m \in Masks : \/ \E l \in NewLevels : \/ scriptcmd_useradd(f, m, l)
                                              \/ scriptcmd_userlevel(f, m, l)
                      \/ scriptcmd_userdel(f, m) \/ scriptcmd_usermsg(f, m)
                      \/ \E new \in Masks : scriptcmd_usermask(f, m, new)
                      \/ \E pass \in NewPasswords : scriptcmd_userpass(f, m, pass)
  \/ scriptcmd_setmsg(f) \/ \E pass \in NewPasswords : scriptcmd_setpass(f, pass)
  \/ \E c \in Adjusted, l \in 0..LEVEL_MAX : scriptcmd_cmdlevel(f, c, l)

Next ==
  \/ \E f \in Full : \/ Changes(f) \/ scriptcmd_chat(f) \/ dcc_stop(f)
                     \/ \E pass \in Passwords \ {""} : \/ scriptcmd_pass(f, pass)
                                                      \/ dcc_chat_pass(f, pass)
                     \/ Comes(f) \/ Quits(f) \/ \E g \in Full : TakesNick(f, g)
  \/ irc_restart \/ Killed \/ Start

Spec == Init /\ [][Next]_vars

-----------------------------------------------------------------------------
(* Properties. *)

Line == [mask : Masks, pass : Passwords, level : Int]

TypeOK ==
  /\ users \in Seq([mask : Masks, pass : Passwords, level : Int, id : BOOLEAN,
                    cur_mask : Full \cup {NULL}])
  /\ level \in [Commands -> 0..LEVEL_MAX] /\ watched \subseteq {nick[f] : f \in Full}
  /\ chat \in [Full -> {"none", "auth", "talk"}]
  /\ file.lines \in Seq(Line) /\ file.rest \in Line \cup {NULL}
  /\ status \in {"runs", "killed", "exited"}
  /\ where \in [Full -> {"off", "irc", "channel"}]
  /\ earned \in [Full -> BOOLEAN] /\ slipped \subseteq Full
  /\ saved \in {"whole", "not", "short"} /\ before \subseteq Line
  /\ torn \in BOOLEAN /\ odd \in BOOLEAN

(* "Registered users, while not identified with the bot, have the ficticious *)
(* level 1": whoever has more has given a password since the bot was last    *)
(* told that he had gone, by QUIT, NICK, WATCH or the end of the connection; *)
(* except when he went while another entry came first for him, or for the    *)
(* mask without host that WATCH gives, or while his level was 0 or less.     *)
AccessEarned ==
  \A f \in Full : match_mask_level(users, f) > 1 => earned[f] \/ f \in slipped

\* The masks of the users of the highest level, in a list of users or lines.
Owners(us) == {u.mask : u \in {v \in ToSet(us) : v.level = LEVEL_MAX}}

(* No sequence of commands makes a user of the highest level, takes one out  *)
(* or changes his mask, whatever !cmdlevel allows to whom; only a file that  *)
(* was cut off, by a crash or a full disk, may lack some.  That is as long   *)
(* as no mask is given that the file can not hold: after a start, a user     *)
(* with such a mask has another mask, password and level (MasksAreKept).     *)
OwnersStay ==
  status = "runs" /\ ~odd => /\ Owners(users) \subseteq Owners(file_users)
                             /\ torn \/ Owners(users) = Owners(file_users)

\* How often line l is in a list.
Often(lines, l) == Cardinality({i \in DOMAIN lines : lines[i] = l})

(* What would be loaded from the file is what is in memory, unless the last  *)
(* save failed or was cut short, or a mask was given that the file can not   *)
(* hold.  Not so the order: load_users adds each line at the head, so a      *)
(* start turns the list around, and with it which of two entries that fit    *)
(* comes first.                                                              *)
SavedIsKept ==
  status = "runs" /\ saved = "whole" /\ ~odd =>
    LET loaded == Lines(load_users(file.lines))
    IN /\ file.rest = NULL
       /\ \A l \in ToSet(loaded) \cup ToSet(Lines(users)) :
            Often(loaded, l) = Often(Lines(users), l)

(* "save users to user file, return 0 on failure", says ListUsers.cpp: when  *)
(* a save has not failed, all users are in the file.  They are not when the  *)
(* disk gets full, for only the opening of the file is tested.               *)
\* The code does not keep this promise (README, section 7).
SavedOrTold ==
  status = "runs" /\ saved # "not" => Len(file.lines) = Len(users)

(* After a crash, wherever it came, a user has the mask, password and level  *)
(* he had: none comes out of a half-written line.  Not so if a mask was      *)
(* given that the file can not hold.                                         *)
LoadsWhatWas ==
  [][status = "killed" /\ ~odd => ToSet(Lines(users')) \subseteq before]_vars

(* "Add a user with <mask> and <level>", says the README of !useradd: who is *)
(* loaded, after whole saves, is a user who was added or in the first file.  *)
(* He is not when the mask has a ":": load_users takes the parts of the mask *)
(* for the password and the level.                                           *)
\* The code does not keep this promise (README, section 7).
MasksAreKept ==
  [][status = "killed" /\ ~torn => ToSet(Lines(users')) \subseteq before]_vars

===============================================================================
