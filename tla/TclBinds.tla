-------------------------------- MODULE TclBinds --------------------------------
(***************************************************************************)
(* The binds of the module tcl: procedures of Tcl scripts that are called  *)
(* for the events of the server.  tcl_event walks the list of binds once   *)
(* for what the event is and once more for raw binds; do_bind_... calls    *)
(* the procedure of a bind whose command matches.                          *)
(*                                                                         *)
(* A List has one cursor, that of whoever walks it.  A procedure may call  *)
(* bind, which adds at the head; for a type that is not stackable it first *)
(* deletes the binds of the same command, walking with the same cursor.    *)
(***************************************************************************)
EXTENDS Naturals, FiniteSets, SequencesExt

CONSTANTS
  Types,      \* types of bind that scripts use, of bindtypes
  Events,     \* of the table below
  Commands,   \* what binds are for: a word, a mask, a reply
  Levels,     \* of senders and of binds: attr2level's
  MaxBinds,   \* bound: binds made
  MaxCalls,   \* bound: calls of bind by the procedures of one event
  MaxEvents   \* bound

VARIABLES
  binds,    \* the list, its head first
  current,  \* the list's cursor: 0 at the head element, k at the k-th bind
  pass,     \* "idle", or the walk that goes on: "own", then "raw"
  event, level, text, \* EVENT, match_mask_level of who caused it, the commands it matches
  calling,  \* whether a procedure is being called
  made,     \* binds made so far
  calls,    \* calls of bind for this event
  events,   \* events so far
  ended,    \* whether the program was ended
  atStart,  \* history: binds in the list when this walk began
  called,   \* history: binds called in this walk
  again,    \* history: those of them that were called once more
  rebound,  \* history: whether a procedure bound a type that is not stackable in this walk
  emptied   \* history: whether that left the list empty for a moment

tclBindVars == <<binds, current, pass, event, level, text, calling, made, calls, events, ended,
                 atStart, called, again, rebound, emptied>>

\* bindtypes[].stackable.
NotStackable == {"msg", "dcc", "pub"}

\* The types called for an event if the sender's level is enough, and whatever it is.
Levelled ==
  [join |-> {"join"}, part |-> {"part"}, quit |-> {"sign"}, topic |-> {"topc"}, kick |-> {},
   nick |-> {"nick"}, mode |-> {}, ctcp |-> {"ctcp"}, chat |-> {"dcc"}, pub |-> {"pub", "pubm"},
   msg |-> {"msg", "msgm"}, ctcr |-> {"ctcr"}, notice |-> {"notc"}]
Anyone ==
  [join |-> {}, part |-> {}, quit |-> {}, topic |-> {}, kick |-> {"kick"}, nick |-> {},
   mode |-> {}, ctcp |-> {}, chat |-> {"chat"}, pub |-> {}, msg |-> {}, ctcr |-> {}, notice |-> {}]

Wants(e, l, b) == b.type \in Anyone[e] \/ (b.type \in Levelled[e] /\ l >= b.level)

Bind == [id : Nat, type : Types, level : Levels, command : Commands]

BindsInit ==
  /\ binds = << >> /\ current = 0 /\ pass = "idle"
  /\ event = "mode" /\ level = 0 /\ text = {} /\ calling = FALSE
  /\ made = 0 /\ calls = 0 /\ events = 0 /\ ended = FALSE
  /\ atStart = {} /\ called = {} /\ again = {} /\ rebound = FALSE /\ emptied = FALSE

-----------------------------------------------------------------------------
(* List and bind.                                                           *)

\* bind_del: the list without the binds of this type and command.
Rest(type, command) ==
  LET rest[k \in 0..Len(binds)] ==
        IF k = 0 THEN << >>
        ELSE IF binds[k].type = type /\ binds[k].command = command THEN rest[k - 1]
             ELSE Append(rest[k - 1], binds[k])
  IN  rest[Len(binds)]

\* Put behind the bind the cursor is at.
bind_add_Wrong(list, at, b) ==
  /\ binds' = InsertAt(list, at + 1, b)
  /\ current' = at

\* List::add: the cursor stays at its element, which is one place further.
bind_add(list, at, b) ==
  /\ binds' = << b >> \o list
  /\ current' = IF at = 0 THEN 0 ELSE at + 1

\* bind_del comes to the end of what is left, and the cursor stays at the last element.
tcl_proc_bind ==
  /\ (calling \/ pass = "idle") /\ ~ended
  /\ made < MaxBinds /\ calls < MaxCalls
  /\ \E t \in Types, l \in Levels, c \in Commands :
       LET b == [id |-> made, type |-> t, level |-> l, command |-> c] IN
         IF t \in NotStackable
           THEN /\ bind_add(Rest(t, c), Len(Rest(t, c)), b)
                /\ rebound' = TRUE
                /\ emptied' = (emptied \/ Rest(t, c) = << >>)
           ELSE /\ bind_add(binds, current, b)
                /\ UNCHANGED <<rebound, emptied>>
  /\ made' = made + 1 /\ calls' = calls + 1
  /\ UNCHANGED <<pass, event, level, text, calling, events, ended, atStart, called, again>>

-----------------------------------------------------------------------------
(* tcl_event and the event_... functions.                                   *)

Ids(list) == {list[k].id : k \in DOMAIN list}

\* The first walk is begun without binds.rewind.
Begin_Wrong(p) ==
  /\ pass' = p
  /\ current' = IF p = "own" THEN current ELSE 0
  /\ atStart' = Ids(binds) /\ called' = {} /\ again' = {}
  /\ rebound' = FALSE /\ emptied' = FALSE

Begin(p) ==
  /\ pass' = p /\ current' = 0
  /\ atStart' = Ids(binds) /\ called' = {} /\ again' = {}
  /\ rebound' = FALSE /\ emptied' = FALSE

tcl_event ==
  /\ pass = "idle" /\ ~ended /\ events < MaxEvents
  /\ event' \in Events /\ level' \in Levels /\ text' \in SUBSET Commands
  /\ Begin("own")
  /\ calls' = 0 /\ events' = events + 1
  /\ UNCHANGED <<binds, calling, made, ended>>

Matches(b) ==
  /\ IF pass = "own" THEN Wants(event, level, b) ELSE b.type = "raw"
  /\ b.command \in text

\* binds.next() and, if it matches, do_bind_...: do_bind_topc is declared and
\* called, but there is none, and the program ends when it is looked for.
NextBind ==
  /\ pass # "idle" /\ ~calling /\ ~ended
  /\ current < Len(binds)
  /\ current' = current + 1
  /\ LET b == binds[current + 1] IN
       IF Matches(b)
         THEN IF b.type = "topc"
                THEN ended' = TRUE /\ UNCHANGED <<calling, called, again>>
                ELSE /\ calling' = TRUE
                     /\ called' = called \cup {b.id} /\ again' = again \cup ({b.id} \cap called)
                     /\ UNCHANGED ended
         ELSE UNCHANGED <<calling, called, again, ended>>
  /\ UNCHANGED <<binds, pass, event, level, text, made, calls, events, atStart, rebound, emptied>>

\* The procedure returns; what it answers is not looked at.
Return ==
  /\ calling
  /\ calling' = FALSE
  /\ UNCHANGED <<binds, current, pass, event, level, text, made, calls, events, ended,
                 atStart, called, again, rebound, emptied>>

EndOfWalk == pass # "idle" /\ ~calling /\ ~ended /\ current = Len(binds)

Then ==
  /\ EndOfWalk
  /\ IF pass = "own"
       THEN Begin("raw")
       ELSE pass' = "idle" /\ UNCHANGED <<current, atStart, called, again, rebound, emptied>>
  /\ calls' = 0
  /\ UNCHANGED <<binds, event, level, text, calling, made, events, ended>>

BindsNext == tcl_proc_bind \/ tcl_event \/ NextBind \/ Return \/ Then

BindsSpec == BindsInit /\ [][BindsNext]_tclBindVars

-----------------------------------------------------------------------------
(* Properties                                                               *)

BindsTypeOK ==
  /\ binds \in Seq(Bind) /\ current \in 0..Len(binds)
  /\ pass \in {"idle", "own", "raw"} /\ event \in DOMAIN Levelled /\ level \in Levels
  /\ text \subseteq Commands /\ calling \in BOOLEAN /\ ended \in BOOLEAN
  /\ made \in 0..MaxBinds /\ calls \in 0..MaxCalls /\ events \in 0..MaxEvents

(* A walk calls none but the binds that were there when it began, and none   *)
(* of them twice, whatever is bound by the procedures it calls: it ends.     *)
(* Except when a procedure took out the last bind, its own, by binding it    *)
(* again: the new one is then called as well.                                *)
OnlyThoseThere == pass # "idle" => again = {} /\ (called \subseteq atStart \/ emptied)

(* When a walk ends, every bind that was there when it began, was not        *)
(* deleted and matches the event was called, unless a procedure bound one    *)
(* of a type that is not stackable: this leaves the cursor of the walk at    *)
(* the end of the list.                                                      *)
NoneIsSkipped ==
  EndOfWalk =>
    \/ rebound
    \/ \A k \in DOMAIN binds : (binds[k].id \in atStart /\ Matches(binds[k])) => binds[k].id \in called

(* An event calls each bind that was there when it came and matches it once, *)
(* and no others, while the procedures bind stackable types: tcl_event with  *)
(* List::next.  A procedure that binds one of the other types has the rest   *)
(* of the binds left out, or in one case a new one called: NoneIsSkipped and *)
(* OnlyThoseThere except these.                                              *)
EachBindIsCalled == NoneIsSkipped /\ OnlyThoseThere

================================================================================
