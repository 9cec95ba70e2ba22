------------------------------- MODULE TclTimers -------------------------------
(***************************************************************************)
(* The timers of the module tcl: a linked list, newest first, that is      *)
(* walked each time the clock of the bot changes.  A timer whose time has  *)
(* come has its command evaluated by the Tcl interpreter, is deleted, and  *)
(* the walk goes on through the cell just deleted.  The command may add    *)
(* and kill timers, and so may any other script between two walks.         *)
(*                                                                         *)
(* A timer lives in a cell of memory; which free cell a new one gets is up *)
(* to the allocator, and chosen here.  A command that kills its own timer  *)
(* has the walk read a cell that was freed, which keeps what it held until *)
(* it is used again.  From where it is used again, or from where the walk  *)
(* comes to a timer that was freed, what happens is undefined.             *)
(***************************************************************************)
EXTENDS Naturals, FiniteSets, SequencesExt

CONSTANTS
  Cells,      \* addresses a timer can have
  Kinds,      \* of timer_enum: the kinds scripts use
  NoCell,     \* NULL
  Delays,     \* seconds they ask for
  MaxTimers,  \* bound: timers made by scripts
  MaxTime,    \* bound: seconds
  MaxOps      \* bound: calls of timer, utimer, killtimer, killutimer by one command

ASSUME TimersAssumption ==
  /\ Kinds \subseteq {"TCL_TIMER", "TCL_UTIMER"} /\ NoCell \notin Cells
  /\ Delays \subseteq Nat /\ MaxTimers \in Nat \ {0}

VARIABLES
  time_now,
  timers,    \* the list: its cells from the head on
  held,      \* held[c]: the timer in cell c, or the last one that was there
  after,     \* after[c]: the next pointer a freed cell still holds
  timerseq,  \* timers made so far; their numbers are 0 .. timerseq - 1
  buf,       \* tcl_timer's pointer, NoCell between two walks
  evaluates, \* whether the command of buf is being evaluated
  ops,       \* calls made by the command or script that is being evaluated
  undefined, \* whether the walk read or deleted a cell that is another timer's, or none
  kinds,     \* history: kinds of the timers made
  runs,      \* history: how often the command of each timer was evaluated
  killed,    \* history: timers killed by a script
  due        \* history: timers in the list, and due, when the walk began

tclTimerVars == <<time_now, timers, held, after, timerseq, buf, evaluates, ops, undefined,
                  kinds, runs, killed, due>>

TimerIds == 0..(MaxTimers - 1)
Timer    == [id : TimerIds, time : Nat, kind : {"TCL_TIMER", "TCL_UTIMER"}]
Blank    == [id |-> 0, time |-> 0, kind |-> "TCL_TIMER"]

TimersInit ==
  /\ time_now = 0 /\ timers = << >> /\ timerseq = 0
  /\ held = [c \in Cells |-> Blank]
  /\ after = [c \in Cells |-> NoCell]
  /\ buf = NoCell /\ evaluates = FALSE /\ ops = 0 /\ undefined = FALSE
  /\ kinds = {} /\ runs = [i \in TimerIds |-> 0] /\ killed = {} /\ due = {}

InList(c) == \E k \in DOMAIN timers : timers[k] = c
Listed    == {held[timers[k]].id : k \in DOMAIN timers}
PlaceOf(c) == CHOOSE k \in DOMAIN timers : timers[k] = c
Follower(k) == IF k < Len(timers) THEN timers[k + 1] ELSE NoCell

\* A freed cell read as one that is cleared.
NextOf_Wrong(c) == IF InList(c) THEN Follower(PlaceOf(c)) ELSE NoCell

\* buf->next, read from a timer of the list or from a cell that was freed.
NextOf(c) == IF InList(c) THEN Follower(PlaceOf(c)) ELSE after[c]

timer_add(delay, kind) ==
  \E c \in {c \in Cells : ~InList(c)} :
    /\ timerseq < MaxTimers
    /\ timers' = << c >> \o timers
    /\ held' = [held EXCEPT ![c] = [id |-> timerseq, time |-> time_now + delay, kind |-> kind]]
    /\ timerseq' = timerseq + 1
    /\ kinds' = kinds \cup {kind}
    /\ undefined' = (c = buf)
    /\ UNCHANGED after

\* Only the head can be found.
Found_Wrong(id, kind) ==
  {k \in DOMAIN timers \cap {1} : held[timers[k]].id = id /\ held[timers[k]].kind = kind}

\* The place of the timer that timer_del finds.  Behind the head, the kind of
\* the head is compared, not that of the timer.
Found(id, kind) ==
  {k \in DOMAIN timers : /\ held[timers[k]].id = id
                         /\ held[timers[1]].kind = kind}

\* As found, but the cell before the one deleted is taken out with it.
timer_del_Wrong(id, kind) ==
  \E k \in Found(id, kind) :
    /\ timers' = SubSeq(timers, 1, k - 2) \o SubSeq(timers, k + 1, Len(timers))
    /\ after' = [after EXCEPT ![timers[k]] = Follower(k)]

timer_del(id, kind) ==
  \E k \in Found(id, kind) :
    /\ timers' = RemoveAt(timers, k)
    /\ after' = [after EXCEPT ![timers[k]] = Follower(k)]

-----------------------------------------------------------------------------
(* Scripts: from a timer's command, or from a bind or !tcl between walks.   *)

Script == (evaluates \/ buf = NoCell) /\ ops < MaxOps /\ ~undefined

tcl_proc_timer ==
  /\ Script
  /\ \E kind \in Kinds, delay \in Delays : timer_add(delay, kind)
  /\ ops' = ops + 1
  /\ UNCHANGED <<time_now, buf, evaluates, runs, killed, due>>

\* The name is one that timer or utimer returned.
tcl_proc_killtimer ==
  /\ Script
  /\ \E id \in TimerIds, kind \in Kinds :
       /\ id < timerseq
       /\ timer_del(id, kind)
       /\ killed' = killed \cup {id}
  /\ ops' = ops + 1
  /\ UNCHANGED <<time_now, held, timerseq, buf, evaluates, undefined, kinds, runs, due>>

-----------------------------------------------------------------------------
(* tcl_timer: called by the server's loop when time_now has changed.        *)

IsDue(c) == time_now >= held[c].time

Walk ==
  /\ buf = NoCell /\ time_now < MaxTime /\ ~undefined
  /\ time_now' = time_now + 1
  /\ buf' = (IF timers = << >> THEN NoCell ELSE Head(timers))
  /\ due' = {held[timers[k]].id : k \in {k \in DOMAIN timers : held[timers[k]].time <= time_now'}}
  /\ ops' = 0
  /\ UNCHANGED <<timers, held, after, timerseq, evaluates, undefined, kinds, runs, killed>>

\* The time has not come: the next one.
Pass ==
  /\ buf # NoCell /\ ~evaluates /\ ~undefined /\ ~IsDue(buf)
  /\ buf' = NextOf(buf)
  /\ UNCHANGED <<time_now, timers, held, after, timerseq, evaluates, ops, undefined, kinds,
                 runs, killed, due>>

Tcl_Eval ==
  /\ buf # NoCell /\ ~evaluates /\ ~undefined /\ IsDue(buf)
  /\ evaluates' = TRUE /\ ops' = 0
  /\ runs' = [runs EXCEPT ![held[buf].id] = @ + 1]
  /\ UNCHANGED <<time_now, timers, held, after, timerseq, buf, undefined, kinds, killed, due>>

DeleteEvaluated ==
  LET t == held[buf] IN
    IF Found(t.id, t.kind) = {} THEN UNCHANGED <<timers, after>> ELSE timer_del(t.id, t.kind)

\* timer_del with the name and kind in the cell, then the next pointer in it,
\* after what timer_del has done to the list and the cell.
Evaluated ==
  /\ evaluates /\ ~undefined
  /\ DeleteEvaluated
  /\ \E c \in Cells : c = buf /\ buf' = NextOf(c)'
  /\ undefined' = (buf' # NoCell /\ ~InList(buf)')
  /\ evaluates' = FALSE /\ ops' = 0
  /\ UNCHANGED <<time_now, held, timerseq, kinds, runs, killed, due>>

TimersNext == tcl_proc_timer \/ tcl_proc_killtimer \/ Walk \/ Pass \/ Tcl_Eval \/ Evaluated

TimersSpec == TimersInit /\ [][TimersNext]_tclTimerVars

-----------------------------------------------------------------------------
(* Properties                                                               *)

TimersTypeOK ==
  /\ time_now \in 0..MaxTime /\ timerseq \in 0..MaxTimers /\ ops \in 0..MaxOps
  /\ timers \in Seq(Cells) /\ IsInjective(timers)
  /\ held \in [Cells -> Timer] /\ after \in [Cells -> Cells \cup {NoCell}]
  /\ buf \in Cells \cup {NoCell} /\ evaluates \in BOOLEAN /\ undefined \in BOOLEAN
  /\ kinds \subseteq Kinds /\ runs \in [TimerIds -> Nat] /\ killed \subseteq TimerIds /\ due \subseteq TimerIds

(* No command of a timer is evaluated twice: it is deleted once it was,      *)
(* where ever in the list it stands by then, as long as all scripts use      *)
(* timers of one kind.                                                       *)
RunsOnceOfAKind == Cardinality(kinds) <= 1 => \A id \in TimerIds : runs[id] <= 1

(* A timer a script made is in the list until its command was evaluated or a *)
(* script killed it: no deletion, of another timer or of a cell that was     *)
(* used again, takes it out.                                                 *)
NoneLost ==
  undefined \/ \A id \in 0..(timerseq - 1) : id \in Listed \cup killed \/ runs[id] > 0

(* When the walk ends every timer that was due when it began was evaluated   *)
(* or killed, whatever the commands before it added, killed or left behind,  *)
(* although the walk goes on from cells that were freed.                     *)
DueAreRun ==
  (buf = NoCell /\ ~undefined) => \A id \in due : runs[id] > 0 \/ id \in killed

(* A timer that is due when the walk begins is evaluated or killed in it,    *)
(* none gets lost, and none runs twice while all are of one kind.            *)
EachTimerRuns == RunsOnceOfAKind /\ NoneLost /\ DueAreRun

================================================================================
