-------------------------------- MODULE Modules --------------------------------
(***************************************************************************)
(* The modules that are loaded into the running bot and taken out again,   *)
(* and what they leave in the lists of each server: functions called for   *)
(* every event, reply, second and turn of the loop, commands, and          *)
(* variables.  All of these are addresses inside the module's code, which  *)
(* is unmapped when the module goes.                                       *)
(*                                                                         *)
(* !modadd reads the configuration again for the new module alone, from    *)
(* the text that !loadconf may have changed; !moddel has the module take   *)
(* back what it put there.  What each of the modules does in these two     *)
(* moments is the table below, one record per source file.                 *)
(*                                                                         *)
(* The program has one thread: commands come between two walks through a   *)
(* list, and within a walk only a worker that is done deletes itself.      *)
(* Core commands and variables are never taken out, and left out.          *)
(***************************************************************************)
EXTENDS Naturals, FiniteSets, SequencesExt

CONSTANTS
  Mods,       \* modules that can be loaded, of the table
  Files,      \* configurations, as sequences of lines [word, arg]
  NULL,
  MaxLoads    \* bound: modules loaded in one run of the program

VARIABLES
  conf,       \* the text last read
  server_num, \* bots of the configuration the program was started with
  modules,    \* loaded modules, the newest first, as [m, load]
  lists,      \* lists[s][l], the newest element first
  entries,    \* each module's own list of the servers it works for
  loads,      \* how many modules were loaded so far
  walk,       \* the walk through a list that is going on, or NULL
  status      \* "runs", "exited" by conf_error, "undefined" behaviour

vars == <<conf, server_num, modules, lists, entries, loads, walk, status>>

Servers == 1..server_num
Hooks   == {"events", "replies", "timers", "works"}
Lists   == Hooks \cup {"cmds", "vars"}

-----------------------------------------------------------------------------
(* What the modules do.  word: the line that makes an entry for a server.   *)
(* again: what the next one does, "skip" it, make "another" entry or end    *)
(* the program, "error".  at: functions are added with each "entry", with   *)
(* the "first" one or on every "bot" line.  hooks, cmd, var: what is added; *)
(* one name stands for all that come and go together, "" for none.  un...:  *)
(* what is taken out for each entry by the module's stop.  works: whether   *)
(* the command starts a worker.                                             *)

Plain == [word |-> "bot", again |-> "skip", at |-> "entry", hooks |-> {}, cmd |-> "",
          var |-> "", unhooks |-> {}, unvar |-> FALSE, unbind |-> FALSE, works |-> FALSE]

alice    == [Plain EXCEPT !.word = "alice", !.again = "error",
               !.hooks = {"events"}, !.unhooks = {"events"}]
calc     == [Plain EXCEPT !.again = "another", !.cmd = "!calc"]
chanstat == [Plain EXCEPT !.word = "chanstat", !.again = "error", !.hooks = {"events"},
               !.var = "chanstat_refresh", !.unhooks = {"events"}, !.unvar = TRUE]
extra    == [Plain EXCEPT !.hooks = {"events"}, !.cmd = "!ping", !.var = "extra_akickping",
               !.unhooks = {"events"}, !.unvar = TRUE]
flood    == [Plain EXCEPT !.hooks = {"events"}, !.var = "flood_maxmsg",
               !.unhooks = {"events"}, !.unvar = TRUE]
getnick  == [Plain EXCEPT !.hooks = {"events"}, !.var = "getnick_nick",
               !.unhooks = {"events"}, !.unvar = TRUE]
invite   == [Plain EXCEPT !.again = "error", !.cmd = "invite", !.var = "invite_channel",
               !.unvar = TRUE, !.unbind = TRUE]
ircop    == [Plain EXCEPT !.word = "ircop", !.again = "error",
               !.hooks = {"events", "replies"}, !.cmd = "!kill",
               !.unhooks = {"events", "replies"}]
joinmsg  == [Plain EXCEPT !.word = "joinmsg", !.again = "another", !.at = "bot",
               !.hooks = {"events"}, !.unhooks = {"events"}]
\* The function is added for each log of the server.
log_Wrong == [Plain EXCEPT !.word = "log", !.again = "another",
                !.hooks = {"events"}, !.unhooks = {"events"}]
log      == [Plain EXCEPT !.word = "log", !.again = "another", !.at = "first",
               !.hooks = {"events"}, !.unhooks = {"events"}]

\* The replies are forgotten when it stops.
seen_Wrong == [Plain EXCEPT !.word = "seen", !.again = "error",
                 !.hooks = {"events", "replies"}, !.cmd = "!seen", !.unhooks = {"events"}]
seen     == [Plain EXCEPT !.word = "seen", !.again = "error",
               !.hooks = {"events", "replies"}, !.cmd = "!seen",
               !.unhooks = {"events", "replies"}]
shell    == [Plain EXCEPT !.word = "shell", !.hooks = {"events", "replies"},
               !.cmd = "!timer", !.unhooks = {"events"}]
tcl      == [Plain EXCEPT !.hooks = {"events", "replies", "timers"}, !.cmd = "!tcl",
               !.unhooks = {"events", "replies", "timers"}]
urlsniffer == [Plain EXCEPT !.word = "urlsnifferfile", !.again = "error",
                 !.hooks = {"events"}, !.cmd = "!saveurls", !.unhooks = {"events"}]
watch    == [Plain EXCEPT !.word = "watch", !.again = "another", !.at = "first",
               !.hooks = {"replies"}, !.unhooks = {"replies"}]
web      == [Plain EXCEPT !.again = "another", !.cmd = "!slashdot", !.var = "web_pvt",
               !.works = TRUE]
whois    == [Plain EXCEPT !.again = "another", !.cmd = "!whois", !.var = "whois_ripe",
               !.unvar = TRUE, !.works = TRUE]
word     == [Plain EXCEPT !.word = "words", !.again = "error", !.cmd = "??"]

Does == [alice |-> alice, calc |-> calc, chanstat |-> chanstat, extra |-> extra,
         flood |-> flood, getnick |-> getnick, invite |-> invite, ircop |-> ircop,
         joinmsg |-> joinmsg, log |-> log, seen |-> seen, shell |-> shell, tcl |-> tcl,
         urlsniffer |-> urlsniffer, watch |-> watch, web |-> web, whois |-> whois,
         word |-> word]

\* Modules whose stop leaves something behind.
Careless == {"joinmsg", "shell", "web"}

ASSUME ModulesAssumption ==
  /\ Mods \subseteq DOMAIN Does /\ MaxLoads \in Nat
  /\ Files \subseteq Seq([word : STRING, arg : STRING])
  /\ \A f \in Files : /\ \E i \in DOMAIN f : f[i].word = "bot"
                      /\ \A i \in DOMAIN f : f[i].word = "module" => f[i].arg \in Mods

-----------------------------------------------------------------------------
(* List, and what ListVars and Script make of it. *)

\* An element: the address of a function of module m, loaded as number load.
Of(mod, name) == [m |-> mod.m, load |-> mod.load, name |-> name]

Bare(mod) == Of(mod, "")

Add(list, e) == Cons(e, list)

\* The first one of its kind; nothing if there is none.
Del(list, e) == RemoveFirst(list, e)

Named(list, name) == SelectInSeq(list, LAMBDA e : e.name = name)

\* ListVars does not take a name twice, Script does.
var_add(list, e) == IF Named(list, e.name) # 0 THEN list ELSE Add(list, e)

\* var_del and cmd_unbind: the first of that name, whosever it is.
DelNamed(list, name) == RemoveFirstMatch(list, LAMBDA e : e.name = name)

-----------------------------------------------------------------------------
(* The walk through a list: rewind, then next until the end. *)

Rewound(s, l) == [s |-> s, list |-> l, current |-> 0, called |-> <<>>]

\* The place in the list is not corrected, or the walk begins again.
AfterDel_Wrong(w, i) == w
AfterDel_Rewind_Wrong(w, i) == [w EXCEPT !.current = 0]

\* The place of the walk when the element at i is deleted: the one before.
AfterDel(w, i) == [w EXCEPT !.current = IF @ >= i THEN @ - 1 ELSE @]

-----------------------------------------------------------------------------
(* Loading.  st is [lists, entries, modules, status]. *)

\* A module has an entry for s, among its entries es.
Known(es, s) == \E e \in ToSet(es) : e.s = s

\* mod adds its function to some hooks, and its command and variable.
Hooked(ls, mod, hooks) == [l \in Lists |-> IF l \in hooks THEN Add(ls[l], Bare(mod)) ELSE ls[l]]

Bound(ls, mod) ==
  LET d == Does[mod.m]
  IN [l \in Lists |-> IF l = "cmds" /\ d.cmd # "" THEN Add(ls[l], Of(mod, d.cmd))
                      ELSE IF l = "vars" /\ d.var # "" THEN var_add(ls[l], Of(mod, d.var))
                      ELSE ls[l]]

\* A new entry for server s.
NewEntry(st, mod, s, section) ==
  LET d   == Does[mod.m]
      now == d.at = "entry" \/ (d.at = "first" /\ ~Known(st.entries[mod.m], s))
  IN [st EXCEPT
        !.entries[mod.m] = Cons([s |-> s, section |-> section, in_use |-> FALSE], @),
        !.lists[s] = Bound(Hooked(@, mod, IF now THEN d.hooks ELSE {}), mod)]

\* The module's conf, for one line of the section of a bot.
module_conf(st, mod, line, s, section) ==
  LET d     == Does[mod.m]
      st1   == IF d.at = "bot" /\ line.word = "bot"
               THEN [st EXCEPT !.lists[s] = Hooked(@, mod, d.hooks)] ELSE st
      known == Known(st.entries[mod.m], s)
  IN IF st.status # "runs" THEN st
     ELSE IF line.word # d.word \/ (known /\ d.again = "skip") THEN st1
     ELSE IF known /\ d.again = "error" THEN [st1 EXCEPT !.status = "exited"]
     ELSE NewEntry(st1, mod, s, section)

\* The code of e is still there, ms being loaded.
IsIn(e, ms) == \E i \in DOMAIN ms : ms[i].m = e.m /\ ms[i].load = e.load

\* The handler of the variable is called, if there is such a variable.
var_set(list, name, ms) ==
  LET i == Named(list, name)
  IN IF i = 0 \/ IsIn(list[i], ms) THEN "runs" ELSE "undefined"

Bots(file) == Cardinality({i \in DOMAIN file : file[i].word = "bot"})

\* The server whose section line i of the file is in.
Section(file, i) == Cardinality({j \in 1..i : file[j].word = "bot"})

\* A line is told to the modules, the newest first.
Tell(st, line, s) ==
  LET told[k \in 0..Len(st.modules)] ==
        IF k = 0 THEN st ELSE module_conf(told[k - 1], st.modules[k], line, s, s)
  IN told[Len(st.modules)]

\* One line of the configuration, when the program starts.  Nothing is loaded twice.
ParseLine(st, file, i) ==
  LET arg == file[i].arg
  IN IF st.status # "runs" THEN st
     ELSE IF file[i].word = "module"
     THEN IF \E mod \in ToSet(st.modules) : mod.m = arg THEN [st EXCEPT !.status = "exited"]
          ELSE [st EXCEPT !.modules = Cons([m |-> arg, load |-> Len(@) + 1], @)]
     ELSE IF Section(file, i) = 0 THEN st
     ELSE Tell(st, file[i], Section(file, i))

\* Modules are told of every line that follows their own.
parse_conf(file) ==
  LET none == [lists   |-> [s \in 1..Bots(file) |-> [l \in Lists |-> <<>>]],
               entries |-> [m \in Mods |-> <<>>], modules |-> <<>>, status |-> "runs"]
      parsed[i \in 0..Len(file)] == IF i = 0 THEN none ELSE ParseLine(parsed[i - 1], file, i)
  IN parsed[Len(file)]

\* The server a section is for; those past the last bot are read for the last one.
SectionServer(section) == IF section <= server_num THEN section ELSE server_num

\* The rest of !modadd: variables are set for all modules, the rest is for mod.
ReadLine(st, mod, i) ==
  LET sec == Section(conf, i)
      s   == SectionServer(sec)
      set == IF conf[i].word = "set" /\ st.status = "runs"
             THEN [st EXCEPT !.status = var_set(st.lists[s]["vars"], conf[i].arg, st.modules)]
             ELSE st
  IN IF sec = 0 THEN st ELSE module_conf(set, mod, conf[i], s, sec)

read_conf(mod) ==
  LET loaded == [lists |-> lists, entries |-> entries, modules |-> Cons(mod, modules),
                 status |-> status]
      read[i \in 0..Len(conf)] == IF i = 0 THEN loaded ELSE ReadLine(read[i - 1], mod, i)
  IN read[Len(conf)]

-----------------------------------------------------------------------------
Init ==
  \E file \in Files :
    LET r == parse_conf(file)
    IN /\ conf = file /\ server_num = Bots(file)
       /\ modules = r.modules /\ loads = Len(r.modules)
       /\ lists = r.lists /\ entries = r.entries /\ status = r.status
       /\ walk = NULL

\* A command can be carried out.
Free == status = "runs" /\ walk = NULL

\* !modadd.  It refuses a module that is loaded.
ModAdd(m) ==
  LET mod == [m |-> m, load |-> loads + 1]
      r   == read_conf(mod)
  IN /\ Free /\ loads < MaxLoads /\ \A i \in DOMAIN modules : modules[i].m # m
     /\ modules' = r.modules /\ loads' = loads + 1
     /\ lists' = r.lists /\ entries' = r.entries /\ status' = r.status
     /\ UNCHANGED <<conf, server_num, walk>>

\* The module's stop, for one of its entries.
module_stop(ls, mod, e) ==
  LET d == Does[mod.m]
      hooks == d.unhooks \cup (IF e.in_use THEN {"works"} ELSE {})
  IN [ls EXCEPT ![e.s] = [l \in Lists |->
        IF l \in hooks THEN Del(@[l], Bare(mod))
        ELSE IF l = "vars" /\ d.unvar THEN DelNamed(@[l], d.var)
        ELSE IF l = "cmds" /\ d.unbind THEN DelNamed(@[l], d.cmd)
        ELSE @[l]]]

\* x is of mod, as it is loaded.
Mine(x, mod) == x.m = mod.m /\ x.load = mod.load

\* What is left of a list without what is of mod.
Others(list, mod) ==
  LET rest[k \in 0..Len(list)] ==
        IF k = 0 THEN <<>>
        ELSE IF Mine(list[k], mod) THEN rest[k - 1] ELSE Append(rest[k - 1], list[k])
  IN rest[Len(list)]

\* The commands of all modules are unbound.
unbind_all_Wrong(ls, mod) == [s \in Servers |-> [ls[s] EXCEPT !.cmds = <<>>]]

\* Module::~Module unbinds the commands of the module, whoever stopped it.
unbind_all(ls, mod) ==
  [s \in Servers |-> [ls[s] EXCEPT !["cmds"] = Others(@, mod)]]

\* The lists when a module has stopped for each of its entries.
Stopped(mod) ==
  LET es == entries[mod.m]
      stopped[i \in 0..Len(es)] ==
        IF i = 0 THEN lists ELSE module_stop(stopped[i - 1], mod, es[i])
  IN stopped[Len(es)]

\* !moddel
ModDel(mod) ==
  /\ Free /\ Contains(modules, mod)
  /\ lists' = unbind_all(Stopped(mod), mod)
  /\ entries' = [entries EXCEPT ![mod.m] = <<>>]
  /\ modules' = Del(modules, mod)
  /\ UNCHANGED <<conf, server_num, loads, walk, status>>

\* !loadconf; nothing is left of the text if the file cannot be read.
LoadConf(file) ==
  /\ Free /\ conf' = file
  /\ UNCHANGED <<server_num, modules, lists, entries, loads, walk, status>>

\* !unbind
Unbind(s, name) ==
  /\ Free /\ Named(lists[s]["cmds"], name) # 0
  /\ lists' = [lists EXCEPT ![s]["cmds"] = DelNamed(@, name)]
  /\ UNCHANGED <<conf, server_num, modules, entries, loads, walk, status>>

\* !set, or !set without a value: the handler is called as well.
Set(s, name) ==
  /\ Free /\ Named(lists[s]["vars"], name) # 0
  /\ status' = var_set(lists[s]["vars"], name, modules)
  /\ UNCHANGED <<conf, server_num, modules, lists, entries, loads, walk>>

\* Where the newest entry of m for s is; server2... finds this one.
EntryOf(m, s) == SelectInSeq(entries[m], LAMBDA e : e.s = s)

\* A command of a module; that of a module with workers may start one.
Command(s, name) ==
  LET i == Named(lists[s]["cmds"], name)
      e == lists[s]["cmds"][i]
  IN /\ Free /\ i # 0
     /\ IF ~IsIn(e, modules)
        THEN status' = "undefined" /\ UNCHANGED <<lists, entries>>
        ELSE LET n == EntryOf(e.m, s)
             IN /\ Does[e.m].works /\ n # 0 /\ ~entries[e.m][n].in_use
                /\ entries' = [entries EXCEPT ![e.m][n].in_use = TRUE]
                /\ lists' = [lists EXCEPT ![s]["works"] = Add(@, Bare(e))]
                /\ UNCHANGED status
     /\ UNCHANGED <<conf, server_num, modules, loads, walk>>

\* An event, a reply, a new second or a turn of the loop.
Begin(s, l) ==
  /\ Free /\ lists[s][l] # <<>>
  /\ walk' = Rewound(s, l)
  /\ UNCHANGED <<conf, server_num, modules, lists, entries, loads, status>>

Next1 == lists[walk.s][walk.list][walk.current + 1]
Walked == [walk EXCEPT !.current = @ + 1, !.called = Append(@, Next1)]
More   == walk # NULL /\ status = "runs" /\ walk.current < Len(lists[walk.s][walk.list])

\* The next one of the list is called, and leaves the lists alone.
Call ==
  /\ More
  /\ IF IsIn(Next1, modules) THEN walk' = Walked /\ UNCHANGED status
     ELSE status' = "undefined" /\ UNCHANGED walk
  /\ UNCHANGED <<conf, server_num, modules, lists, entries, loads>>

\* A worker that is done, or finds no entry for the server, deletes itself.
CallDone ==
  /\ More /\ walk.list = "works" /\ IsIn(Next1, modules)
  /\ LET n == EntryOf(Next1.m, walk.s)
         works == lists[walk.s]["works"]
     IN /\ lists' = [lists EXCEPT ![walk.s]["works"] = Del(@, Next1)]
        /\ walk' = AfterDel(Walked, SelectInSeq(works, LAMBDA e : e = Next1))
        /\ entries' = IF n = 0 THEN entries ELSE [entries EXCEPT ![Next1.m][n].in_use = FALSE]
  /\ UNCHANGED <<conf, server_num, modules, loads, status>>

End ==
  /\ walk # NULL /\ status = "runs" /\ ~More
  /\ walk' = NULL
  /\ UNCHANGED <<conf, server_num, modules, lists, entries, loads, status>>

Names == {""} \cup {Does[m].cmd : m \in Mods} \cup {Does[m].var : m \in Mods}

Next ==
  \/ \E m \in Mods : ModAdd(m) \/ \E n \in 1..loads : ModDel([m |-> m, load |-> n])
  \/ \E file \in Files \cup {<<>>} : LoadConf(file)
  \/ \E s \in Servers, name \in Names : Unbind(s, name) \/ Set(s, name) \/ Command(s, name)
  \/ \E s \in Servers, l \in Hooks : Begin(s, l)
  \/ Call \/ CallDone \/ End

Spec == Init /\ [][Next]_vars

-----------------------------------------------------------------------------
Loaded  == [m : Mods, load : Nat]
Element == [m : Mods, load : Nat, name : Names]
Entry   == [s : Servers, section : Nat, in_use : BOOLEAN]
Walk    == [s : Servers, list : Hooks, current : Nat, called : Seq(Element)]

TypeOK ==
  /\ conf \in Files \cup {<<>>} /\ server_num \in Nat
  /\ modules \in Seq(Loaded) /\ loads \in Nat
  /\ lists \in [Servers -> [Lists -> Seq(Element)]]
  /\ entries \in [Mods -> Seq(Entry)]
  /\ walk = NULL \/ (walk \in Walk /\ walk.current <= Len(lists[walk.s][walk.list]))
  /\ status \in {"runs", "exited", "undefined"}

(* Whatever is in a list belongs to a module that is loaded: no function is  *)
(* left behind by a module's stop, for the loops of Script and NetServer, a  *)
(* command or !set to jump to when the code is gone.                         *)
HooksBelong ==
  \A s \in Servers, l \in Lists : \A e \in ToSet(lists[s][l]) :
    IsIn(e, modules) \/ e.m \in Careless

\* How often e is in a list of s.
Times(s, l, e) == Cardinality({i \in DOMAIN lists[s][l] : lists[s][l][i] = e})

(* A walk through a list calls each function once, also when a worker that   *)
(* is done deletes itself from the list during the walk.  joinmsg is the one *)
(* that has its function in a list twice.                                    *)
EachOnce ==
  walk # NULL =>
    /\ \A i, j \in DOMAIN walk.called :
         walk.called[i] = walk.called[j] => i = j \/ walk.called[i].m = "joinmsg"
    /\ walk.current = Len(lists[walk.s][walk.list]) =>
         ToSet(lists[walk.s][walk.list]) \subseteq ToSet(walk.called)

(* And the other way round: a loaded module has one function in each list    *)
(* it asks for, of every server that has an entry, and of no other; all of   *)
(* its variables; and a worker exactly while a request is going on.  This is *)
(* so after any sequence of !modadd, !moddel and !loadconf, with a !moddel   *)
(* while a request is going on, and with several lines for one server; and   *)
(* a walk calls all that is there, once.                                     *)
HooksComplete ==
  /\ EachOnce
  /\ \A mod \in ToSet(modules), s \in Servers :
    LET d   == Does[mod.m]
        known == Known(entries[mod.m], s)
        busy == \E e \in ToSet(entries[mod.m]) : e.s = s /\ e.in_use
    IN mod.m \notin Careless =>
       /\ \A l \in Hooks \ {"works"} :
            Times(s, l, Bare(mod)) = IF known /\ l \in d.hooks THEN 1 ELSE 0
       /\ Times(s, "works", Bare(mod)) = IF busy THEN 1 ELSE 0
       /\ known /\ d.var # "" => Times(s, "vars", Of(mod, d.var)) = 1

(* Loading a module or taking one out leaves the functions, commands and     *)
(* variables of all the others as they are, in their order.                  *)
OwnOnly ==
  [][\A mod \in (ToSet(modules) \ ToSet(modules')) \cup (ToSet(modules') \ ToSet(modules)) :
       \A s \in Servers, l \in Lists : Others(lists'[s][l], mod) = Others(lists[s][l], mod)]_vars

================================================================================
