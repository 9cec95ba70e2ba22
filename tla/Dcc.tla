--------------------------------- MODULE Dcc ---------------------------------
(***************************************************************************)
(* The table of DCCs of one bot: the life of each NetDCC, the loop of      *)
(* NetServer::work that drives and deletes them, the commands that start   *)
(* and stop them, and irc_restart, which deletes them all.                 *)
(*                                                                         *)
(* The program is sequential; a step is one call of dcc_work, one deletion *)
(* or one command, and the choices are what the peers, the sockets and the *)
(* clock did.  Pointers are modelled as such: a slot of the table holds an *)
(* address, which may be of a DCC that was deleted, and an address that is *)
(* free may be given to a new DCC.  A time limit is kept as a flag that    *)
(* says that last_time is too old.  A definition whose name ends in _Wrong  *)
(* is a plausible mistake in a later one, against which the properties are *)
(* tested.                                                                 *)
(***************************************************************************)
EXTENDS Integers, FiniteSets

CONSTANTS
  DCC_MAX,     \* slots of the table
  Nicks,       \* those who use DCCs, one mask each
  Addr,        \* addresses that a NetDCC may have
  NULL,
  MaxRestarts  \* bound: calls of irc_restart

ASSUME DccAssumption ==
  /\ DCC_MAX \in Nat \ {0} /\ MaxRestarts \in Nat
  /\ NULL \notin Addr

VARIABLES
  dccs,      \* the table: what its slots hold
  dcc_num,
  dcc,       \* the DCCs that exist, by address
  turn,      \* the i of the loop of work, -1 outside of it
  undefined, \* what undefined behaviour was met, if any
  restarts,  \* calls of irc_restart so far
  leftover   \* history: a deletion has taken over an address that irc_restart left

vars == <<dccs, dcc_num, dcc, turn, undefined, restarts, leftover>>

Slots   == 0..(DCC_MAX - 1)
Chat    == {"DCC_CHAT_INIT", "DCC_CHAT_AUTH", "DCC_CHAT"}
Send    == {"DCC_SEND_INIT", "DCC_SEND"}
Status  == {"DCC_STOP"} \cup Chat \cup Send
InUse   == 0..(dcc_num - 1)

Init ==
  /\ dccs = [k \in Slots |-> NULL] /\ dcc_num = 0
  /\ dcc = [a \in {} |-> NULL]
  /\ turn = -1 /\ undefined = "no" /\ restarts = 0 /\ leftover = FALSE

-----------------------------------------------------------------------------
(* What the methods of NetDCC do to the DCCs.  A method that writes to a    *)
(* socket, or waits for one, has several outcomes: it is the set of them.   *)

\* The file is not closed.
Closed_Wrong(d, S) ==
  [a \in DOMAIN d |->
     IF a \notin S THEN d[a]
     ELSE [d[a] EXCEPT !.status = "DCC_STOP", !.sock = "none", !.socklocal = FALSE,
                       !.late = FALSE]]

\* dcc_stop on each of S: sockets and file closed.
Closed(d, S) ==
  [a \in DOMAIN d |->
     IF a \notin S THEN d[a]
     ELSE [d[a] EXCEPT !.status = "DCC_STOP", !.sock = "none", !.socklocal = FALSE,
                       !.file = FALSE, !.late = FALSE]]

\* A write to each chat; any of them may fail and end that chat, which is
\* announced to those that are left.
send_partyline(d) ==
  {Closed(d, F) : F \in SUBSET {a \in DOMAIN d : d[a].status = "DCC_CHAT"}}

dcc_stop(d, a) ==
  IF d[a].status = "DCC_CHAT" THEN send_partyline(Closed(d, {a})) ELSE {Closed(d, {a})}

\* Nothing once it is stopped; a failed write stops it.
dcc_chat_write(d, a) ==
  IF d[a].status = "DCC_STOP" THEN {d} ELSE {d} \cup dcc_stop(d, a)

InTime(d, a) == [d EXCEPT ![a].late = FALSE]

\* The connection is awaited.  accept may fail, and leaves sock at -1; the
\* prompt may fail, and then the status is set all the same.
dcc_start_check(d, a) ==
  LET accepted(s) == [d EXCEPT ![a].sock = s, ![a].socklocal = FALSE]
      started(e, st) == InTime([e EXCEPT ![a].status = st], a)
  IN  dcc_stop(d, a)
        \cup (IF d[a].late THEN {} ELSE {d})
        \cup (IF d[a].status = "DCC_CHAT_INIT"
              THEN {started(e, "DCC_CHAT_AUTH") :
                      e \in UNION {dcc_chat_write(accepted(s), a) : s \in {"conn", "none"}}}
              ELSE {started(accepted(s), "DCC_SEND") : s \in {"conn", "none"}})

\* A wrong password, a closed connection or the time limit stop the chat; the
\* right one is answered, announced, and the status set whatever came of that.
dcc_chat_pass(d, a) ==
  LET admitted == UNION {send_partyline(e) : e \in dcc_chat_write(d, a)}
  IN  (IF d[a].sock = "none" THEN {}
       ELSE dcc_stop(d, a) \cup {InTime([e EXCEPT ![a].status = "DCC_CHAT"], a) : e \in admitted})
        \cup (IF d[a].late THEN dcc_stop(d, a) ELSE {d})

\* dcc_chat when it has no line: closed by the peer, too late, or nothing yet.
dcc_chat(d, a) ==
  (IF d[a].sock = "none" THEN {} ELSE dcc_stop(d, a))
    \cup (IF d[a].late THEN UNION {dcc_stop(e, a) : e \in dcc_chat_write(d, a)} ELSE {d})

\* No time limit.
dcc_send_Wrong(d, a) ==
  dcc_stop(d, a) \cup {d} \cup (IF d[a].sock = "none" THEN {} ELSE {InTime(d, a)})

\* An error, the end of the file or the time limit stop it; a block is sent.
dcc_send(d, a) ==
  dcc_stop(d, a)
    \cup (IF d[a].late THEN {} ELSE {d})
    \cup (IF d[a].sock = "none" THEN {} ELSE {InTime(d, a)})

dcc_work(d, a) ==
  IF d[a].status \in {"DCC_SEND_INIT", "DCC_CHAT_INIT"} THEN dcc_start_check(d, a)
  ELSE IF d[a].status = "DCC_SEND" THEN dcc_send(d, a)
  ELSE IF d[a].status = "DCC_CHAT_AUTH" THEN dcc_chat_pass(d, a)
  ELSE dcc_chat(d, a)

-----------------------------------------------------------------------------
(* The commands.  They are given on IRC, or by a chat, whose line becomes a   *)
(* PRIVMSG to the number of its slot: from is that number, -1 on IRC.  Their  *)
(* outcomes are what the table may be afterwards.                             *)

Table(slots, n, d) == [dccs |-> slots, dcc_num |-> n, dcc |-> d]

\* send_text: the answer goes to the chat that the number names.
Answer(d, from) == IF from < 0 THEN {d} ELSE dcc_chat_write(d, dccs[from])

\* Only a DCC that is connected counts.
Refused_Wrong(n, kind) ==
  \/ dcc_num = DCC_MAX
  \/ \E k \in InUse : /\ dcc[dccs[k]].nick = n
                      /\ dcc[dccs[k]].status \in kind \ {"DCC_CHAT_INIT", "DCC_SEND_INIT"}

\* No slot is free, or the nick has a DCC of this kind already.
Refused(n, kind) ==
  \/ dcc_num = DCC_MAX
  \/ \E k \in InUse : dcc[dccs[k]].nick = n /\ dcc[dccs[k]].status \in kind

\* A new NetDCC; it stays stopped when its socket or file can not be opened.
NewDcc(n, status, from) ==
  [nick |-> n, status |-> status, index |-> dcc_num, from |-> from,
   sock |-> IF status = "DCC_STOP" THEN "none" ELSE "listen",
   socklocal |-> status # "DCC_STOP", file |-> status = "DCC_SEND_INIT", late |-> FALSE,
   asker |-> IF from < 0 THEN NULL ELSE dccs[from]]

\* It is added to the table in any case, and work will delete it.
Added(n, status, from) ==
  {Table([dccs EXCEPT ![dcc_num] = b], dcc_num + 1,
         [a \in DOMAIN dcc \cup {b} |-> IF a = b THEN NewDcc(n, status, from) ELSE dcc[a]]) :
     b \in Addr \ DOMAIN dcc}

\* The offer, or why there is none, is the answer.
scriptcmd_chat(n, from) ==
  IF Refused(n, Chat) THEN {}
  ELSE Added(n, "DCC_STOP", from)
         \cup UNION {{[t EXCEPT !.dcc = d] : d \in Answer(t.dcc, from)} :
                       t \in Added(n, "DCC_CHAT_INIT", from)}

scriptcmd_get(n, from) ==
  IF Refused(n, Send) THEN {}
  ELSE UNION {{[t EXCEPT !.dcc = d] : d \in Answer(t.dcc, from)} :
                t \in Added(n, "DCC_STOP", from) \cup Added(n, "DCC_SEND_INIT", from)}

\* A chat is said to be killed, then stopped.
scriptcmd_dcckill(i) ==
  {Table(dccs, dcc_num, d) :
     d \in UNION {dcc_stop(e, dccs[i]) :
             e \in IF dcc[dccs[i]].status = "DCC_CHAT" THEN send_partyline(dcc) ELSE {dcc}}}

\* Any other command answers; what is no command goes to the partyline.
event_privmsg(n, from) ==
  {Table(dccs, dcc_num, d) :
     d \in Answer(dcc, from) \cup (IF from < 0 THEN {} ELSE send_partyline(dcc))}
    \cup scriptcmd_chat(n, from) \cup scriptcmd_get(n, from)
    \cup UNION {scriptcmd_dcckill(i) : i \in InUse}

-----------------------------------------------------------------------------
(* The loop of work, and what comes between two of its runs. *)

Calm == undefined = "no" /\ UNCHANGED undefined

\* On to the slot after i, or out of the loop.
Turn(i, n) == turn' = IF i + 1 < n THEN i + 1 ELSE -1

\* The loop begins at the second slot.
BeginLoop_Wrong ==
  /\ Calm /\ turn = -1 /\ dcc_num > 1
  /\ turn' = 1
  /\ UNCHANGED <<dccs, dcc_num, dcc, restarts, leftover>>

BeginLoop ==
  /\ Calm /\ turn = -1 /\ dcc_num > 0
  /\ turn' = 0
  /\ UNCHANGED <<dccs, dcc_num, dcc, restarts, leftover>>

\* The DCC of this turn does something.
WorkDcc ==
  /\ Calm /\ turn # -1
  /\ dcc[dccs[turn]].status # "DCC_STOP"
  /\ dcc' \in dcc_work(dcc, dccs[turn])
  /\ Turn(turn, dcc_num)
  /\ UNCHANGED <<dccs, dcc_num, restarts, leftover>>

\* The chat of this turn has a line, which is handled like one from IRC.
WorkLine ==
  /\ Calm /\ turn # -1
  /\ LET a == dccs[turn]
         from == IF dcc[a].index < 0 THEN -1 ELSE dcc[a].index
     IN  /\ dcc[a].status = "DCC_CHAT" /\ dcc[a].sock # "none"
         /\ \E t \in event_privmsg(dcc[a].nick, from) :
              /\ dccs' = t.dccs /\ dcc_num' = t.dcc_num
              /\ dcc' = InTime(t.dcc, a)
              /\ Turn(turn, t.dcc_num)
  /\ UNCHANGED <<restarts, leftover>>

\* An index lowered n times; negative ones are all the same to the commands and
\* not told apart.
Lowered(index, n) == IF index < n THEN -1 ELSE index - n

\* The slots are not followed: by the indexes, or by the numbers of the askers.
Deleted_Wrong(i, lower, follow) ==
  [a \in DOMAIN dcc \ {dccs[i]} |->
     [dcc[a] EXCEPT !.from = IF @ = i THEN -1 ELSE IF follow /\ @ > i THEN @ - 1 ELSE @,
                    !.index = IF lower /\ @ > i THEN @ - 1 ELSE @,
                    !.asker = IF @ = dccs[i] THEN NULL ELSE @]]

Deleted_Index_Wrong(i) == Deleted_Wrong(i, FALSE, TRUE)
Deleted_From_Wrong(i) == Deleted_Wrong(i, TRUE, FALSE)

\* The DCCs that are left once the one in slot i is deleted.  The slots after
\* it move down, and whatever they hold has its index lowered: the slot past
\* the last may hold the address of a DCC that is not in the table, or is in it
\* somewhere else.
Deleted(i) ==
  [a \in DOMAIN dcc \ {dccs[i]} |->
     [dcc[a] EXCEPT !.from = IF @ = i THEN -1 ELSE IF @ > i THEN @ - 1 ELSE @,
                    !.index = Lowered(@, Cardinality({k \in (i + 1)..dcc_num : dccs[k] = a})),
                    !.asker = IF @ = dccs[i] THEN NULL ELSE @]]

\* What may come of using a DCC that was deleted: nothing, or anything.
Freed == {"no", "freed"}

\* The DCC of this turn is stopped: it is deleted, and the one that moves into
\* its slot waits for the next run.  When the table is full the slot past the
\* last is none of the table's; else it is NULL, or what irc_restart left there,
\* whose index is lowered, whether it still is a DCC or not.
WorkDelete ==
  /\ undefined = "no" /\ turn # -1
  /\ dcc[dccs[turn]].status = "DCC_STOP"
  /\ \/ /\ dcc_num = DCC_MAX
        /\ undefined' = "overrun"
        /\ UNCHANGED <<dccs, dcc_num, dcc, turn, leftover>>
     \/ /\ dcc_num < DCC_MAX
        /\ dcc' = Deleted(turn)
        /\ dccs' = [k \in Slots |-> IF k \in turn..(dcc_num - 1) THEN dccs[k + 1] ELSE dccs[k]]
        /\ dcc_num' = dcc_num - 1
        /\ Turn(turn, dcc_num - 1)
        /\ leftover' = (leftover \/ dccs[dcc_num] # NULL)
        /\ undefined' \in IF dccs[dcc_num] \in DOMAIN dcc' \cup {NULL} THEN {"no"} ELSE Freed
  /\ UNCHANGED restarts

\* A line from IRC; only DCCs have a number in place of the channel or nick.
IrcLine(n) ==
  /\ Calm /\ turn = -1
  /\ \E t \in event_privmsg(n, -1) :
       dccs' = t.dccs /\ dcc_num' = t.dcc_num /\ dcc' = t.dcc
  /\ UNCHANGED <<turn, restarts, leftover>>

\* All DCCs are deleted, one by one.  A chat says so to all of the table when it
\* is, those that were deleted before it included.
AllDeleted ==
  /\ turn = -1 /\ restarts < MaxRestarts
  /\ undefined = "no"
  /\ undefined' \in IF \E k \in InUse \ {0} : dcc[dccs[k]].status = "DCC_CHAT" THEN Freed
                    ELSE {"no"}
  /\ dcc' = [a \in {} |-> NULL]
  /\ restarts' = restarts + 1
  /\ UNCHANGED <<dccs, turn, leftover>>

\* The table keeps its length.
irc_restart_Wrong == AllDeleted /\ UNCHANGED dcc_num

\* The slots keep their addresses.
irc_restart == AllDeleted /\ dcc_num' = 0

\* The time limit of a DCC passes.
Late(a) ==
  /\ Calm /\ turn = -1
  /\ a \in DOMAIN dcc /\ dcc[a].status # "DCC_STOP" /\ ~dcc[a].late
  /\ dcc' = [dcc EXCEPT ![a].late = TRUE]
  /\ UNCHANGED <<dccs, dcc_num, turn, restarts, leftover>>

\* FD_SET on descriptor -1 is undefined: select may also just say 0, which is
\* what the other actions have it do.
NoSocket(a) ==
  /\ undefined = "no" /\ turn # -1
  /\ a \in DOMAIN dcc /\ dcc[a].status # "DCC_STOP" /\ dcc[a].sock = "none"
  /\ undefined' = "nosock"
  /\ UNCHANGED <<dccs, dcc_num, dcc, turn, restarts, leftover>>

Work == BeginLoop \/ WorkDcc \/ WorkLine \/ WorkDelete

Next ==
  \/ Work \/ irc_restart
  \/ \E n \in Nicks : IrcLine(n)
  \/ \E a \in Addr : Late(a) \/ NoSocket(a)

Spec == Init /\ [][Next]_vars

\* Bot::work calls NetServer::work for ever.
FairSpec == Spec /\ WF_vars(Work)

-----------------------------------------------------------------------------
(* Properties. *)

DccType ==
  [nick : Nicks, status : Status, index : Int, from : Int,
   sock : {"none", "listen", "conn"}, socklocal : BOOLEAN, file : BOOLEAN,
   late : BOOLEAN, asker : Addr \cup {NULL}]

TypeOK ==
  /\ dcc_num \in 0..DCC_MAX
  /\ dccs \in [Slots -> Addr \cup {NULL}]
  /\ DOMAIN dcc \subseteq Addr /\ \A a \in DOMAIN dcc : dcc[a] \in DccType
  /\ turn \in -1..(dcc_num - 1)
  /\ undefined \in {"no", "overrun", "nosock", "freed"}
  /\ restarts \in 0..MaxRestarts /\ leftover \in BOOLEAN

\* The slots in use hold the DCCs that exist, each once: none is leaked, none
\* is deleted twice, and nothing but irc_restart, or what it left in the table,
\* makes the program follow a pointer to a deleted one.
TableHoldsAll ==
  /\ {dccs[k] : k \in InUse} = DOMAIN dcc
  /\ \A j, k \in InUse : dccs[j] = dccs[k] => j = k
  /\ undefined = "freed" => restarts > 0

\* A DCC knows its slot: "this dcc's table index".
IndexIsSlot == \A k \in InUse : dcc[dccs[k]].index = k

\* Until a deletion takes over an address that irc_restart left, it does.
IndexIsSlotAtFirst == ~leftover => IndexIsSlot

\* "index of dcc where this dcc was started, -1 if it was on a pvt": from
\* follows the chat that asked when others are deleted, until it is deleted, as
\* long as no deletion takes over an address that irc_restart left.
FromIsAsker ==
  ~leftover =>
    \A a \in DOMAIN dcc :
      IF dcc[a].asker = NULL THEN dcc[a].from = -1
      ELSE dcc[a].from \in InUse /\ dccs[dcc[a].from] = dcc[a].asker

\* A DCC has open what its status says, and nothing once it is stopped; only a
\* connection may be missing, after an accept or a first write that failed.
OpenAsStatusSays ==
  \A a \in DOMAIN dcc :
    LET st == dcc[a].status
        waits == st \in {"DCC_CHAT_INIT", "DCC_SEND_INIT"}
    IN  /\ dcc[a].socklocal <=> waits
        /\ dcc[a].sock = "listen" <=> waits
        /\ dcc[a].sock = "conn" => st \notin {"DCC_STOP"}
        /\ dcc[a].file <=> st \in Send

\* What other DCCs and the people on IRC go by, the number of a chat and the
\* status of a DCC, is right.
DccsAreSound == FromIsAsker /\ OpenAsStatusSays

\* The DCCs of a nick, as the people on IRC see them.
Stages(n, kind) == {dcc[a].status : a \in {b \in DOMAIN dcc : dcc[b].nick = n}} \cap kind

Sessions == INSTANCE DccSessions WITH
  chats <- [n \in Nicks |-> Stages(n, Chat)],
  sends <- [n \in Nicks |-> Stages(n, Send)]

\* One chat and one send for each nick, stage after stage.
ImplementsSessions == Sessions!Spec

\* "if it gives error, work()'ll delete it", and the same when it is stopped.
StoppedIsDeleted ==
  \A a \in Addr :
    (a \in DOMAIN dcc /\ dcc[a].status = "DCC_STOP")
      ~> (a \notin DOMAIN dcc \/ undefined # "no")

\* A DCC whose time is up does something or is ended: none stays for ever.
LateIsEnded ==
  \A a \in Addr :
    (a \in DOMAIN dcc /\ dcc[a].late)
      ~> (a \notin DOMAIN dcc \/ ~dcc[a].late \/ undefined # "no")

\* No DCC keeps its slot of the table for ever.
DccsEnd == StoppedIsDeleted /\ LateIsEnded

=============================================================================
