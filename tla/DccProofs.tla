------------------------------ MODULE DccProofs ------------------------------
(***************************************************************************)
(* Proofs about Dcc, for any table, people, addresses and number of        *)
(* restarts.                                                               *)
(*                                                                         *)
(* The argument has three layers.  The methods of NetDCC change what a DCC *)
(* has open and its status, never which DCCs there are or what they know   *)
(* of the table (Keeps): most of them can only end DCCs (Ends), and dcc_work*)
(* also takes one to its next stage (Moves).  The table itself changes in  *)
(* three places only: where a DCC is added, deleted, or all are (TableInv).*)
(* Last, what a nick has of DCCs follows DccSessions step by step.         *)
(***************************************************************************)
EXTENDS Dcc, FiniteSetTheorems, TLAPS

-----------------------------------------------------------------------------
(* What may become of a DCC. *)

Heap(d) == DOMAIN d \subseteq Addr /\ \A a \in DOMAIN d : d[a] \in DccType

\* The one of OpenAsStatusSays, of a single DCC.
Open(r) ==
  LET waits == r.status \in {"DCC_CHAT_INIT", "DCC_SEND_INIT"}
  IN  /\ r.socklocal <=> waits
      /\ r.sock = "listen" <=> waits
      /\ r.sock = "conn" => r.status \notin {"DCC_STOP"}
      /\ r.file <=> r.status \in Send

\* Whose DCC it is, its slot, and who asked for it.
SameDcc(r, s) == s.nick = r.nick /\ s.index = r.index /\ s.from = r.from /\ s.asker = r.asker

\* It goes on as it was, or ends; it opens nothing.
Ended(r, s) ==
  /\ s.status \in {r.status, "DCC_STOP"}
  /\ s.sock \in {r.sock, "none"}
  /\ s.socklocal => r.socklocal
  /\ s.file => r.file
  /\ Open(r) => Open(s)

\* The stages of a DCC that get on.
Stage == {<<"DCC_CHAT_INIT", "DCC_CHAT_AUTH">>, <<"DCC_CHAT_AUTH", "DCC_CHAT">>,
          <<"DCC_SEND_INIT", "DCC_SEND">>}

\* It goes on, ends, or gets to its next stage.
Moved(r, s) ==
  /\ s.status \in {r.status, "DCC_STOP"} \/ <<r.status, s.status>> \in Stage
  /\ Open(r) => Open(s)

\* e has the DCCs of d, as far as the table is concerned.
Keeps(d, e) ==
  /\ Heap(e) /\ DOMAIN e = DOMAIN d
  /\ \A a \in DOMAIN d : SameDcc(d[a], e[a])

Ends(d, e)  == Keeps(d, e) /\ \A a \in DOMAIN d : Ended(d[a], e[a])
Moves(d, e) == Keeps(d, e) /\ \A a \in DOMAIN d : Moved(d[a], e[a])

\* What can only end DCCs is a move.
LEMMA EndsMoves ==
  ASSUME NEW d, NEW e, Ends(d, e)
  PROVE  Moves(d, e) /\ Keeps(d, e)
  BY DEF Ends, Moves, Ended, Moved

\* Keeping is transitive.
LEMMA KeepsTwice ==
  ASSUME NEW d, NEW e, NEW f, Keeps(d, e), Keeps(e, f)
  PROVE  Keeps(d, f)
  BY DEF Keeps, SameDcc

\* Ending is transitive.
LEMMA EndsTwice ==
  ASSUME NEW d, NEW e, NEW f, Ends(d, e), Ends(e, f)
  PROVE  Ends(d, f)
<1>1. Keeps(d, f) /\ DOMAIN e = DOMAIN d
  BY KeepsTwice DEF Ends, Keeps
<1>2. ASSUME NEW a \in DOMAIN d PROVE Ended(d[a], f[a])
  <2>1. Ended(d[a], e[a]) /\ Ended(e[a], f[a])
    BY <1>1 DEF Ends
  <2> QED
    BY <2>1 DEF Ended
<1> QED
  BY <1>1, <1>2 DEF Ends

\* A heap that is left alone has none that ended.
LEMMA EndsItself ==
  ASSUME NEW d, Heap(d)
  PROVE  Ends(d, d)
  BY DEF Ends, Ended, Keeps, SameDcc

-----------------------------------------------------------------------------
(* The methods. *)

\* Closing some DCCs ends these.
LEMMA ClosedEnds ==
  ASSUME NEW d, Heap(d), NEW S
  PROVE  Ends(d, Closed(d, S))
<1> DEFINE e == Closed(d, S)
<1>1. DOMAIN e = DOMAIN d
  BY DEF Closed
<1>2. ASSUME NEW a \in DOMAIN d
      PROVE  e[a] \in DccType /\ SameDcc(d[a], e[a]) /\ Ended(d[a], e[a])
  <2>1. d[a] \in DccType
    BY DEF Heap
  <2>2. CASE a \notin S
    BY <2>1, <2>2 DEF Closed, SameDcc, Ended
  <2>3. CASE a \in S
    <3>1. e[a] = [d[a] EXCEPT !.status = "DCC_STOP", !.sock = "none", !.socklocal = FALSE,
                       !.file = FALSE, !.late = FALSE]
      BY <2>3 DEF Closed
    <3>2. e[a] \in DccType /\ SameDcc(d[a], e[a])
      BY <2>1, <3>1 DEF DccType, Status, SameDcc
    <3>3. /\ e[a].status = "DCC_STOP" /\ e[a].sock = "none"
          /\ e[a].socklocal = FALSE /\ e[a].file = FALSE
      BY <2>1, <3>1 DEF DccType
    <3>4. Ended(d[a], e[a])
      BY <3>3 DEF Ended, Open, Send
    <3> QED
      BY <3>2, <3>4
  <2> QED
    BY <2>2, <2>3
<1> QED
  BY <1>1, <1>2 DEF Ends, Keeps, Heap

\* Writing to all chats, some of which fail, ends these.
LEMMA PartylineEnds ==
  ASSUME NEW d, Heap(d), NEW e \in send_partyline(d)
  PROVE  Ends(d, e)
<1>1. PICK F : e = Closed(d, F)
  BY DEF send_partyline
<1> QED
  BY <1>1, ClosedEnds

\* Stopping a DCC, and announcing the end of a chat, ends it and may end others.
LEMMA StopEnds ==
  ASSUME NEW d, Heap(d), NEW a \in DOMAIN d, NEW e \in dcc_stop(d, a)
  PROVE  Ends(d, e)
<1>1. Ends(d, Closed(d, {a}))
  BY ClosedEnds
<1>2. CASE d[a].status = "DCC_CHAT"
  <2>1. e \in send_partyline(Closed(d, {a}))
    BY <1>2 DEF dcc_stop
  <2>2. Heap(Closed(d, {a}))
    BY <1>1 DEF Ends, Keeps
  <2>3. Ends(Closed(d, {a}), e)
    BY <2>1, <2>2, PartylineEnds
  <2> QED
    BY <1>1, <2>3, EndsTwice
<1>3. CASE d[a].status # "DCC_CHAT"
  BY <1>1, <1>3 DEF dcc_stop
<1> QED
  BY <1>2, <1>3

\* Writing to one chat can only end DCCs.
LEMMA WriteEnds ==
  ASSUME NEW d, Heap(d), NEW a \in DOMAIN d, NEW e \in dcc_chat_write(d, a)
  PROVE  Ends(d, e)
<1>1. e = d \/ e \in dcc_stop(d, a)
  BY DEF dcc_chat_write
<1> QED
  BY <1>1, StopEnds, EndsItself

\* A DCC that is replaced by one with the same nick, slot and asker.
LEMMA OneKeeps ==
  ASSUME NEW d, Heap(d), NEW a \in DOMAIN d, NEW r \in DccType, SameDcc(d[a], r),
         NEW e, e = [d EXCEPT ![a] = r]
  PROVE  /\ Keeps(d, e) /\ e[a] = r
         /\ \A b \in DOMAIN d : b # a => e[b] = d[b]
  BY DEF Keeps, Heap, SameDcc

\* A new status, and the time of the last change.
NewStatus(d, a, st) == InTime([d EXCEPT ![a].status = st], a)

\* They keep all DCCs, and what is open.
LEMMA StatusKeeps ==
  ASSUME NEW d, Heap(d), NEW a \in DOMAIN d, NEW st \in Status,
         NEW e, e = NewStatus(d, a, st)
  PROVE  /\ Keeps(d, e)
         /\ \A b \in DOMAIN d : b # a => e[b] = d[b]
         /\ e[a].status = st /\ e[a].sock = d[a].sock
         /\ (e[a].socklocal <=> d[a].socklocal) /\ (e[a].file <=> d[a].file)
<1> DEFINE r == [[d[a] EXCEPT !.status = st] EXCEPT !.late = FALSE]
<1>1. d[a] \in DccType
  BY DEF Heap
<1>2. /\ r \in DccType /\ SameDcc(d[a], r) /\ r.status = st
      /\ r.sock = d[a].sock /\ (r.socklocal <=> d[a].socklocal) /\ (r.file <=> d[a].file)
  BY <1>1 DEF DccType, SameDcc
<1>3. e = [d EXCEPT ![a] = r]
  BY DEF NewStatus, InTime
<1> HIDE DEF r
<1>4. Keeps(d, e) /\ e[a] = r /\ \A b \in DOMAIN d : b # a => e[b] = d[b]
  <2>1. r \in DccType /\ SameDcc(d[a], r)
    BY <1>2, Zenon
  <2> QED
    BY ONLY Heap(d), a \in DOMAIN d, <1>3, <2>1, OneKeeps
<1> QED
  BY <1>2, <1>4, Zenon

\* The time of the last change only.
LEMMA InTimeEnds ==
  ASSUME NEW d, Heap(d), NEW a \in DOMAIN d
  PROVE  Ends(d, InTime(d, a))
<1> DEFINE r == [d[a] EXCEPT !.late = FALSE]
           e == InTime(d, a)
<1>1. d[a] \in DccType
  BY DEF Heap
<1>2. r \in DccType /\ SameDcc(d[a], r)
  BY <1>1 DEF DccType, SameDcc
<1>3. Ended(d[a], r)
  BY <1>1 DEF DccType, Ended, Open
<1>4. e = [d EXCEPT ![a] = r]
  BY DEF InTime
<1>5. \A b \in DOMAIN d : Ended(d[b], d[b])
  BY DEF Ended
<1> HIDE DEF r
<1>6. Keeps(d, e) /\ e[a] = r /\ \A b \in DOMAIN d : b # a => e[b] = d[b]
  BY <1>2, <1>4, OneKeeps
<1> QED
  BY <1>3, <1>5, <1>6 DEF Ends

\* accept gives a socket, or none.
Accepted(d, a, s) == [d EXCEPT ![a].sock = s, ![a].socklocal = FALSE]

\* Accepting a connection keeps all DCCs.
LEMMA AcceptedKeeps ==
  ASSUME NEW d, Heap(d), NEW a \in DOMAIN d, NEW s \in {"conn", "none"},
         NEW e, e = Accepted(d, a, s)
  PROVE  /\ Keeps(d, e)
         /\ \A b \in DOMAIN d : b # a => e[b] = d[b]
         /\ e[a].sock = s /\ ~e[a].socklocal /\ (e[a].file <=> d[a].file)
<1> DEFINE r == [[d[a] EXCEPT !.sock = s] EXCEPT !.socklocal = FALSE]
<1>1. d[a] \in DccType
  BY DEF Heap
<1>2. r \in DccType /\ SameDcc(d[a], r)
  BY <1>1 DEF DccType, SameDcc
<1>3. r.sock = s /\ ~r.socklocal /\ (r.file <=> d[a].file)
  BY <1>1 DEF DccType
<1>4. e = [d EXCEPT ![a] = r]
  BY DEF Accepted
<1> HIDE DEF r
<1>5. Keeps(d, e) /\ e[a] = r /\ \A b \in DOMAIN d : b # a => e[b] = d[b]
  BY <1>2, <1>4, OneKeeps
<1> QED
  BY <1>5, <1>3

\* A DCC gets to its next stage, from what the methods before left of it: the
\* others have ended at most.
LEMMA StageMoves ==
  ASSUME NEW d, Heap(d), NEW a \in DOMAIN d,
         NEW f, Keeps(d, f), \A b \in DOMAIN d : b # a => Ended(d[b], f[b]),
         Open(d[a]) => /\ f[a].sock \in {"conn", "none"}
                       /\ ~f[a].socklocal,
         NEW st, <<d[a].status, st>> \in Stage,
         Open(d[a]) => (f[a].file <=> st = "DCC_SEND"),
         NEW e, e = NewStatus(f, a, st)
  PROVE  Moves(d, e)
<1>1. st \in {"DCC_CHAT_AUTH", "DCC_CHAT", "DCC_SEND"} /\ st \in Status
  <2>1. st = "DCC_CHAT_AUTH" \/ st = "DCC_CHAT" \/ st = "DCC_SEND"
    BY Zenon DEF Stage
  <2> QED
    BY <2>1 DEF Status, Chat, Send
<1>2. Heap(f) /\ a \in DOMAIN f /\ DOMAIN f = DOMAIN d
  BY DEF Keeps
<1>3. /\ Keeps(f, e)
      /\ \A b \in DOMAIN f : b # a => e[b] = f[b]
      /\ e[a].status = st /\ e[a].sock = f[a].sock
      /\ (e[a].socklocal <=> f[a].socklocal) /\ (e[a].file <=> f[a].file)
  BY <1>1, <1>2, StatusKeeps
<1>4. Keeps(d, e)
  BY <1>3, KeepsTwice
<1>5. Moved(d[a], e[a])
  <2>1. ASSUME Open(d[a]) PROVE Open(e[a])
    BY <1>1, <1>3, <2>1 DEF Open, Send
  <2> QED
    BY <1>3, <2>1 DEF Moved
<1>6. ASSUME NEW b \in DOMAIN d, b # a PROVE Moved(d[b], e[b])
  BY <1>2, <1>3, <1>6 DEF Moved, Ended
<1> QED
  BY <1>4, <1>5, <1>6 DEF Moves

\* dcc_start_check ends DCCs, or has this one connected.
LEMMA StartCheckMoves ==
  ASSUME NEW d, Heap(d), NEW a \in DOMAIN d, d[a].status \in {"DCC_SEND_INIT", "DCC_CHAT_INIT"},
         NEW e \in dcc_start_check(d, a)
  PROVE  Moves(d, e)
<1>1. CASE e \in dcc_stop(d, a)
  BY <1>1, StopEnds, EndsMoves
<1>2. CASE e = d
  BY <1>2, EndsItself, EndsMoves
<1>3. ASSUME d[a].status = "DCC_CHAT_INIT",
             NEW s \in {"conn", "none"}, NEW f \in dcc_chat_write(Accepted(d, a, s), a),
             e = NewStatus(f, a, "DCC_CHAT_AUTH")
      PROVE  Moves(d, e)
  <2> DEFINE g == Accepted(d, a, s)
  <2>1. /\ Keeps(d, g) /\ \A b \in DOMAIN d : b # a => g[b] = d[b]
        /\ g[a].sock = s /\ ~g[a].socklocal /\ (g[a].file <=> d[a].file)
    BY AcceptedKeeps
  <2> HIDE DEF g
  <2>2. Ends(g, f)
    BY <2>1, <1>3, WriteEnds DEF Keeps, g
  <2>3. Keeps(d, f) /\ DOMAIN g = DOMAIN d
    BY <2>1, <2>2, KeepsTwice DEF Ends, Keeps
  <2>4. \A b \in DOMAIN d : b # a => Ended(d[b], f[b])
    BY <2>1, <2>2, <2>3 DEF Ends
  <2>5. f[a].sock \in {"conn", "none"} /\ ~f[a].socklocal /\ (f[a].file => d[a].file)
    <3>1. Ended(g[a], f[a]) /\ f[a] \in DccType
      BY <2>2, <2>3 DEF Ends, Keeps, Heap
    <3> QED
      BY <2>1, <3>1 DEF Ended, DccType
  <2>6. Open(d[a]) => (f[a].file <=> "DCC_CHAT_AUTH" = "DCC_SEND")
    BY <1>3, <2>5 DEF Open, Send
  <2>7. <<d[a].status, "DCC_CHAT_AUTH">> \in Stage
    BY <1>3 DEF Stage
  <2> QED
    BY <1>3, <2>3, <2>4, <2>5, <2>6, <2>7, StageMoves
<1>4. ASSUME d[a].status = "DCC_SEND_INIT", NEW s \in {"conn", "none"},
             e = NewStatus(Accepted(d, a, s), a, "DCC_SEND")
      PROVE  Moves(d, e)
  <2> DEFINE g == Accepted(d, a, s)
  <2>1. /\ Keeps(d, g) /\ \A b \in DOMAIN d : b # a => g[b] = d[b]
        /\ g[a].sock = s /\ ~g[a].socklocal /\ (g[a].file <=> d[a].file)
    BY AcceptedKeeps
  <2>2. e = NewStatus(g, a, "DCC_SEND")
    BY <1>4
  <2> HIDE DEF g
  <2>3. \A b \in DOMAIN d : b # a => Ended(d[b], g[b])
    BY <2>1 DEF Ended
  <2>4. Open(d[a]) => (g[a].file <=> "DCC_SEND" = "DCC_SEND")
    BY <1>4, <2>1 DEF Open, Send
  <2>5. <<d[a].status, "DCC_SEND">> \in Stage
    BY <1>4 DEF Stage
  <2> QED
    BY <2>1, <2>2, <2>3, <2>4, <2>5, StageMoves
<1> QED
  BY <1>1, <1>2, <1>3, <1>4 DEF dcc_start_check, Accepted, NewStatus

\* dcc_chat_pass ends DCCs, or lets this one talk.
LEMMA PassMoves ==
  ASSUME NEW d, Heap(d), NEW a \in DOMAIN d, d[a].status = "DCC_CHAT_AUTH",
         NEW e \in dcc_chat_pass(d, a)
  PROVE  Moves(d, e)
<1>1. CASE e \in dcc_stop(d, a)
  BY <1>1, StopEnds, EndsMoves
<1>2. CASE e = d
  BY <1>2, EndsItself, EndsMoves
<1>3. ASSUME NEW f \in dcc_chat_write(d, a), NEW g \in send_partyline(f),
             e = NewStatus(g, a, "DCC_CHAT")
      PROVE  Moves(d, e)
  <2>1. Ends(d, f)
    BY WriteEnds
  <2>2. Ends(f, g)
    BY <2>1, PartylineEnds DEF Ends, Keeps
  <2>3. Ends(d, g)
    BY <2>1, <2>2, EndsTwice
  <2>4. Ended(d[a], g[a]) /\ g[a] \in DccType
    BY <2>3 DEF Ends, Keeps, Heap
  <2>5. ASSUME Open(d[a])
        PROVE  /\ g[a].sock \in {"conn", "none"} /\ ~g[a].socklocal
               /\ g[a].file <=> "DCC_CHAT" = "DCC_SEND"
    <3>1. d[a].sock # "listen" /\ ~d[a].file /\ ~d[a].socklocal
      BY <2>5 DEF Open, Send
    <3>2. g[a].sock \in {"conn", "none"}
      BY <2>4, <3>1 DEF Ended, DccType
    <3>3. ~g[a].socklocal /\ ~g[a].file
      BY <2>4, <3>1 DEF Ended
    <3> QED
      BY <3>2, <3>3
  <2>6. <<d[a].status, "DCC_CHAT">> \in Stage
    BY DEF Stage
  <2> QED
    BY <1>3, <2>3, <2>5, <2>6, StageMoves DEF Ends
<1> QED
  BY <1>1, <1>2, <1>3 DEF dcc_chat_pass, NewStatus

\* dcc_chat without a line can only end DCCs.
LEMMA ChatEnds ==
  ASSUME NEW d, Heap(d), NEW a \in DOMAIN d, NEW e \in dcc_chat(d, a)
  PROVE  Ends(d, e)
<1>1. CASE e \in dcc_stop(d, a)
  BY <1>1, StopEnds
<1>2. CASE e = d
  BY <1>2, EndsItself
<1>3. ASSUME NEW f \in dcc_chat_write(d, a), e \in dcc_stop(f, a)
      PROVE  Ends(d, e)
  <2>1. Ends(d, f)
    BY WriteEnds
  <2>2. Ends(f, e)
    BY <1>3, <2>1, StopEnds DEF Ends, Keeps
  <2> QED
    BY <2>1, <2>2, EndsTwice
<1> QED
  BY <1>1, <1>2, <1>3 DEF dcc_chat

\* dcc_send can only end its DCC.
LEMMA SendEnds ==
  ASSUME NEW d, Heap(d), NEW a \in DOMAIN d, NEW e \in dcc_send(d, a)
  PROVE  Ends(d, e)
<1>1. e \in dcc_stop(d, a) \/ e = d \/ e = InTime(d, a)
  BY DEF dcc_send
<1> QED
  BY <1>1, StopEnds, EndsItself, InTimeEnds

\* Whichever stage it is in, the work of a DCC goes no further than the next.
LEMMA WorkMoves ==
  ASSUME NEW d, Heap(d), NEW a \in DOMAIN d, NEW e \in dcc_work(d, a)
  PROVE  Moves(d, e)
<1>1. \/ d[a].status \in {"DCC_SEND_INIT", "DCC_CHAT_INIT"} /\ e \in dcc_start_check(d, a)
      \/ e \in dcc_send(d, a)
      \/ d[a].status = "DCC_CHAT_AUTH" /\ e \in dcc_chat_pass(d, a)
      \/ e \in dcc_chat(d, a)
  BY DEF dcc_work
<1> QED
  BY <1>1, StartCheckMoves, SendEnds, PassMoves, ChatEnds, EndsMoves

-----------------------------------------------------------------------------
(* The DCCs of a nick. *)

Opens(d) == \A a \in DOMAIN d : Open(d[a])

\* No nick has two chats, nor two sends.
OneEach(d) ==
  \A kind \in {Chat, Send} : \A a, b \in DOMAIN d :
    d[a].nick = d[b].nick /\ d[a].status \in kind /\ d[b].status \in kind => a = b

\* The Stages of any DCCs.
StagesOf(d, n, kind) == {d[a].status : a \in {b \in DOMAIN d : d[b].nick = n}} \cap kind

\* A step of each nick's sessions.
Steps(d, e) ==
  \A n \in Nicks : /\ Sessions!ChatStep(StagesOf(d, n, Chat), StagesOf(e, n, Chat))
                   /\ Sessions!SendStep(StagesOf(d, n, Send), StagesOf(e, n, Send))

\* A DCC in some stage is the only one, and gives the stages of its nick.
LEMMA OneStage ==
  ASSUME NEW d, OneEach(d), NEW n, NEW kind \in {Chat, Send}
  PROVE  \/ /\ StagesOf(d, n, kind) = {}
            /\ \A a \in DOMAIN d : d[a].nick = n => d[a].status \notin kind
         \/ \E a \in DOMAIN d :
              /\ d[a].nick = n /\ d[a].status \in kind
              /\ StagesOf(d, n, kind) = {d[a].status}
              /\ \A b \in DOMAIN d \ {a} : d[b].nick = n => d[b].status \notin kind
<1>1. CASE \A a \in DOMAIN d : d[a].nick = n => d[a].status \notin kind
  BY <1>1 DEF StagesOf
<1>2. ASSUME NEW a \in DOMAIN d, d[a].nick = n, d[a].status \in kind
      PROVE  /\ StagesOf(d, n, kind) = {d[a].status}
             /\ \A b \in DOMAIN d \ {a} : d[b].nick = n => d[b].status \notin kind
  <2>1. \A b \in DOMAIN d \ {a} : d[b].nick = n => d[b].status \notin kind
    BY <1>2 DEF OneEach
  <2> QED
    BY <1>2, <2>1 DEF StagesOf
<1> QED
  BY <1>1, <1>2

\* Where DCCs can only end, the stages of a nick stay or are none.
LEMMA EndsStages ==
  ASSUME NEW d, NEW e, OneEach(d), Ends(d, e), NEW n, NEW kind \in {Chat, Send}
  PROVE  StagesOf(e, n, kind) \in {StagesOf(d, n, kind), {}}
<1>1. /\ DOMAIN e = DOMAIN d
      /\ \A a \in DOMAIN d : e[a].nick = d[a].nick /\ e[a].status \in {d[a].status, "DCC_STOP"}
  BY DEF Ends, Keeps, SameDcc, Ended
<1>2. "DCC_STOP" \notin kind
  BY DEF Chat, Send
<1>3. CASE \A a \in DOMAIN d : d[a].nick = n => d[a].status \notin kind
  BY <1>1, <1>2, <1>3 DEF StagesOf
<1>4. ASSUME NEW a \in DOMAIN d, d[a].nick = n, d[a].status \in kind,
             StagesOf(d, n, kind) = {d[a].status},
             \A b \in DOMAIN d \ {a} : d[b].nick = n => d[b].status \notin kind
      PROVE  StagesOf(e, n, kind) \in {StagesOf(d, n, kind), {}}
  <2>1. \A b \in DOMAIN d \ {a} : e[b].nick = n => e[b].status \notin kind
    BY <1>1, <1>2, <1>4
  <2>2. CASE e[a].status = d[a].status
    <3>1. StagesOf(e, n, kind) = {d[a].status}
      BY <1>1, <1>4, <2>1, <2>2 DEF StagesOf
    <3> QED
      BY <1>4, <3>1
  <2>3. CASE e[a].status = "DCC_STOP"
    <3>1. StagesOf(e, n, kind) = {}
      BY <1>1, <1>2, <2>1, <2>3 DEF StagesOf
    <3> QED
      BY <3>1
  <2> QED
    BY <1>1, <2>2, <2>3
<1> QED
  BY <1>3, <1>4, OneStage

\* What moves DCCs is a step of the sessions, and leaves one for each.
LEMMA MovesSteps ==
  ASSUME NEW d, NEW e, OneEach(d), Moves(d, e)
  PROVE  OneEach(e) /\ Steps(d, e) /\ (Opens(d) => Opens(e))
<1>1. /\ DOMAIN e = DOMAIN d
      /\ \A a \in DOMAIN d :
           /\ e[a].nick = d[a].nick
           /\ e[a].status \in {d[a].status, "DCC_STOP"} \/ <<d[a].status, e[a].status>> \in Stage
           /\ Open(d[a]) => Open(e[a])
  BY DEF Moves, Keeps, SameDcc, Moved
<1>2. ASSUME NEW a \in DOMAIN d, NEW kind \in {Chat, Send}, e[a].status \in kind
      PROVE  /\ d[a].status \in kind
             /\ e[a].status = d[a].status \/ <<d[a].status, e[a].status>> \in Stage
  <2>1. e[a].status # "DCC_STOP"
    BY <1>2 DEF Chat, Send
  <2>2. e[a].status = d[a].status \/ <<d[a].status, e[a].status>> \in Stage
    BY <1>1, <2>1
  <2>3. CASE <<d[a].status, e[a].status>> \in Stage
    <3>1. \/ d[a].status = "DCC_CHAT_INIT" /\ e[a].status = "DCC_CHAT_AUTH"
          \/ d[a].status = "DCC_CHAT_AUTH" /\ e[a].status = "DCC_CHAT"
          \/ d[a].status = "DCC_SEND_INIT" /\ e[a].status = "DCC_SEND"
      BY <2>3, Zenon DEF Stage
    <3> QED
      BY <1>2, <2>2, <3>1 DEF Chat, Send
  <2> QED
    BY <1>2, <2>2, <2>3
<1>3. OneEach(e)
  BY <1>1, <1>2 DEF OneEach
<1>4. ASSUME NEW n, NEW kind \in {Chat, Send}
      PROVE  \/ StagesOf(e, n, kind) \in {StagesOf(d, n, kind), {}}
             \/ \E p \in Stage : /\ p[1] \in kind
                                 /\ StagesOf(d, n, kind) = {p[1]}
                                 /\ StagesOf(e, n, kind) = {p[2]}
  <2>1. CASE StagesOf(e, n, kind) = {}
    BY <2>1
  <2>2. ASSUME NEW a \in DOMAIN e, e[a].nick = n, e[a].status \in kind,
               StagesOf(e, n, kind) = {e[a].status}
        PROVE  \/ StagesOf(e, n, kind) \in {StagesOf(d, n, kind), {}}
               \/ \E p \in Stage : /\ p[1] \in kind
                                   /\ StagesOf(d, n, kind) = {p[1]}
                                   /\ StagesOf(e, n, kind) = {p[2]}
    <3>1. /\ a \in DOMAIN d /\ d[a].nick = n /\ d[a].status \in kind
          /\ e[a].status = d[a].status \/ <<d[a].status, e[a].status>> \in Stage
      BY <1>1, <1>2, <2>2
    <3>2. StagesOf(d, n, kind) = {d[a].status}
      BY <3>1, OneStage DEF OneEach
    <3>3. CASE e[a].status = d[a].status
      BY <2>2, <3>2, <3>3
    <3>4. CASE <<d[a].status, e[a].status>> \in Stage
      BY <2>2, <3>1, <3>2, <3>4
    <3> QED
      BY <3>1, <3>3, <3>4
  <2> QED
    BY <1>3, <2>1, <2>2, OneStage
<1>5. Steps(d, e)
  <2> SUFFICES ASSUME NEW n \in Nicks
               PROVE  /\ Sessions!ChatStep(StagesOf(d, n, Chat), StagesOf(e, n, Chat))
                      /\ Sessions!SendStep(StagesOf(d, n, Send), StagesOf(e, n, Send))
    BY DEF Steps
  <2>1. Sessions!ChatStep(StagesOf(d, n, Chat), StagesOf(e, n, Chat))
    <3>1. CASE StagesOf(e, n, Chat) \in {StagesOf(d, n, Chat), {}}
      BY <3>1 DEF Sessions!ChatStep
    <3>2. ASSUME NEW p \in Stage, p[1] \in Chat,
                 StagesOf(d, n, Chat) = {p[1]}, StagesOf(e, n, Chat) = {p[2]}
          PROVE  Sessions!ChatStep(StagesOf(d, n, Chat), StagesOf(e, n, Chat))
      <4>1. \/ p[1] = "DCC_CHAT_INIT" /\ p[2] = "DCC_CHAT_AUTH"
            \/ p[1] = "DCC_CHAT_AUTH" /\ p[2] = "DCC_CHAT"
        BY <3>2 DEF Stage, Chat
      <4> QED
        BY <3>2, <4>1 DEF Sessions!ChatStep
    <3> QED
      BY <1>4, <3>1, <3>2
  <2>2. Sessions!SendStep(StagesOf(d, n, Send), StagesOf(e, n, Send))
    <3>1. CASE StagesOf(e, n, Send) \in {StagesOf(d, n, Send), {}}
      BY <3>1 DEF Sessions!SendStep
    <3>2. ASSUME NEW p \in Stage, p[1] \in Send,
                 StagesOf(d, n, Send) = {p[1]}, StagesOf(e, n, Send) = {p[2]}
          PROVE  Sessions!SendStep(StagesOf(d, n, Send), StagesOf(e, n, Send))
      <4>1. p[1] = "DCC_SEND_INIT" /\ p[2] = "DCC_SEND"
        BY <3>2 DEF Stage, Send
      <4> QED
        BY <3>2, <4>1 DEF Sessions!SendStep
    <3> QED
      BY <1>4, <3>1, <3>2
  <2> QED
    BY <2>1, <2>2
<1> QED
  BY <1>1, <1>3, <1>5 DEF Opens

\* A step after which DCCs end is a step.
LEMMA StepsThenEnds ==
  ASSUME NEW d, NEW e, NEW f, Steps(d, e), OneEach(e), Ends(e, f)
  PROVE  OneEach(f) /\ Steps(d, f) /\ (Opens(e) => Opens(f))
<1>1. OneEach(f) /\ (Opens(e) => Opens(f))
  BY EndsMoves, MovesSteps
<1>2. Steps(d, f)
  <2> SUFFICES ASSUME NEW n \in Nicks
               PROVE  /\ Sessions!ChatStep(StagesOf(d, n, Chat), StagesOf(f, n, Chat))
                      /\ Sessions!SendStep(StagesOf(d, n, Send), StagesOf(f, n, Send))
    BY DEF Steps
  <2>1. /\ Sessions!ChatStep(StagesOf(d, n, Chat), StagesOf(e, n, Chat))
        /\ Sessions!SendStep(StagesOf(d, n, Send), StagesOf(e, n, Send))
    BY DEF Steps
  <2>2. /\ StagesOf(f, n, Chat) \in {StagesOf(e, n, Chat), {}}
        /\ StagesOf(f, n, Send) \in {StagesOf(e, n, Send), {}}
    BY EndsStages
  <2> QED
    BY <2>1, <2>2 DEF Sessions!ChatStep, Sessions!SendStep
<1> QED
  BY <1>1, <1>2

\* Where no DCC changes its nick or stage, no session does.
LEMMA SameSteps ==
  ASSUME NEW d, NEW e,
         \A n \in Nicks, kind \in {Chat, Send} : StagesOf(e, n, kind) = StagesOf(d, n, kind)
  PROVE  Steps(d, e)
  BY DEF Steps, Sessions!ChatStep, Sessions!SendStep

-----------------------------------------------------------------------------
(* The table. *)

\* n slots in use hold the DCCs of d, each once, at its index or above.
Sound(slots, n, d) ==
  /\ n \in 0..DCC_MAX /\ slots \in [Slots -> Addr \cup {NULL}]
  /\ Heap(d)
  /\ {slots[k] : k \in 0..(n - 1)} = DOMAIN d
  /\ \A j, k \in 0..(n - 1) : slots[j] = slots[k] => j = k
  /\ \A k \in 0..(n - 1) : d[slots[k]].index \in -1..k

\* from is the slot of the one who asked.
Asked(slots, n, d) ==
  \A a \in DOMAIN d :
    IF d[a].asker = NULL THEN d[a].from = -1
    ELSE d[a].from \in 0..(n - 1) /\ slots[d[a].from] = d[a].asker

\* Each index is exact, and so from is right.
Clean(slots, n, d) ==
  /\ \A k \in 0..(n - 1) : d[slots[k]].index = k
  /\ Asked(slots, n, d)

\* No address is left behind past the slots in use.
Bare(slots, n) == \A k \in Slots : k >= n => slots[k] = NULL

\* t is a table that dccs, dcc_num and dcc may become by a line.
Follows(t) ==
  /\ Sound(t.dccs, t.dcc_num, t.dcc)
  /\ Clean(dccs, dcc_num, dcc) => Clean(t.dccs, t.dcc_num, t.dcc)
  /\ Bare(dccs, dcc_num) => Bare(t.dccs, t.dcc_num)
  /\ DOMAIN dcc \subseteq DOMAIN t.dcc
  /\ Opens(dcc) => Opens(t.dcc)
  /\ OneEach(dcc) => OneEach(t.dcc) /\ Steps(dcc, t.dcc)

\* What keeps the DCCs keeps the table.
LEMMA KeepsSound ==
  ASSUME NEW slots, NEW n, NEW d, NEW e, Sound(slots, n, d), Keeps(d, e)
  PROVE  Sound(slots, n, e) /\ (Clean(slots, n, d) => Clean(slots, n, e))
<1>1. \A k \in 0..(n - 1) : slots[k] \in DOMAIN d
  BY DEF Sound
<1>2. \A k \in 0..(n - 1) : e[slots[k]].index = d[slots[k]].index
  BY <1>1 DEF Keeps, SameDcc
<1>3. Sound(slots, n, e)
  BY <1>1, <1>2 DEF Sound, Keeps
<1>4. Asked(slots, n, d) => Asked(slots, n, e)
  BY DEF Asked, Keeps, SameDcc
<1>5. Clean(slots, n, d) => Clean(slots, n, e)
  BY <1>2, <1>4 DEF Clean
<1> QED
  BY <1>3, <1>5

\* Answering on IRC or to a chat of the table can only end DCCs.
LEMMA AnswerEnds ==
  ASSUME NEW d, Heap(d), NEW from, from < 0 \/ dccs[from] \in DOMAIN d,
         NEW e \in Answer(d, from)
  PROVE  Ends(d, e)
  BY WriteEnds, EndsItself DEF Answer

\* A new DCC is the only one of its nick and kind, and has open what it says.
LEMMA AddedSteps ==
  ASSUME Sound(dccs, dcc_num, dcc), NEW n \in Nicks, NEW st,
         \/ st = "DCC_STOP"
         \/ st = "DCC_CHAT_INIT" /\ ~Refused(n, Chat)
         \/ st = "DCC_SEND_INIT" /\ ~Refused(n, Send),
         NEW from, NEW b, b \notin DOMAIN dcc,
         NEW d, DOMAIN d = DOMAIN dcc \cup {b}, d[b] = NewDcc(n, st, from),
         \A a \in DOMAIN dcc : d[a] = dcc[a]
  PROVE  /\ Opens(dcc) => Opens(d)
         /\ OneEach(dcc) => OneEach(d) /\ Steps(dcc, d)
<1>1. ASSUME NEW kind \in {Chat, Send}, ~Refused(n, kind)
      PROVE  \A a \in DOMAIN dcc : dcc[a].nick = n => dcc[a].status \notin kind
  <2>1. \A a \in DOMAIN dcc : \E k \in InUse : dccs[k] = a
    BY DEF Sound, InUse
  <2> QED
    BY <1>1, <2>1 DEF Refused
<1>2. d[b].nick = n /\ d[b].status = st
  BY DEF NewDcc
<1>3. Open(d[b])
  <2> DEFINE r == NewDcc(n, st, from)
  <2>1. r.sock = IF st = "DCC_STOP" THEN "none" ELSE "listen"
    BY DEF NewDcc
  <2>2. r.socklocal <=> st # "DCC_STOP"
    BY DEF NewDcc
  <2>3. r.file <=> st = "DCC_SEND_INIT"
    BY DEF NewDcc
  <2>4. r.status = st
    BY DEF NewDcc
  <2> HIDE DEF r
  <2>5. Open(r)
    BY <2>1, <2>2, <2>3, <2>4 DEF Open, Send
  <2> QED
    BY <2>5 DEF r
<1>4. Opens(dcc) => Opens(d)
  BY <1>3 DEF Opens
<1>5. ASSUME NEW kind \in {Chat, Send}, st \in kind
      PROVE  ~Refused(n, kind) /\ (st = IF kind = Chat THEN "DCC_CHAT_INIT" ELSE "DCC_SEND_INIT")
  <2>1. CASE kind = Chat
    BY <1>5, <2>1 DEF Chat
  <2>2. CASE kind = Send
    BY <1>5, <2>2 DEF Send, Chat
  <2> QED
    BY <2>1, <2>2
<1>6. OneEach(dcc) => OneEach(d)
  <2> SUFFICES ASSUME OneEach(dcc), NEW kind \in {Chat, Send},
                      NEW a \in DOMAIN d, NEW c \in DOMAIN d,
                      d[a].nick = d[c].nick, d[a].status \in kind, d[c].status \in kind
               PROVE  a = c
    BY DEF OneEach
  <2>1. CASE a = b /\ c = b
    BY <2>1
  <2>2. CASE a # b /\ c # b
    BY <2>2 DEF OneEach
  <2>3. CASE a = b /\ c # b
    BY <1>1, <1>2, <1>5, <2>3
  <2>4. CASE a # b /\ c = b
    BY <1>1, <1>2, <1>5, <2>4
  <2> QED
    BY <2>1, <2>2, <2>3, <2>4
<1>7. Steps(dcc, d)
  <2> SUFFICES ASSUME NEW m \in Nicks
               PROVE  /\ Sessions!ChatStep(StagesOf(dcc, m, Chat), StagesOf(d, m, Chat))
                      /\ Sessions!SendStep(StagesOf(dcc, m, Send), StagesOf(d, m, Send))
    BY DEF Steps
  <2>1. ASSUME NEW kind \in {Chat, Send}, m # n \/ st \notin kind
        PROVE  StagesOf(d, m, kind) = StagesOf(dcc, m, kind)
    BY <1>2, <2>1 DEF StagesOf
  <2>2. ASSUME NEW kind \in {Chat, Send}, m = n, st \in kind
        PROVE  StagesOf(dcc, m, kind) = {} /\ StagesOf(d, m, kind) = {st}
    <3>1. \A a \in DOMAIN dcc : dcc[a].nick = n => dcc[a].status \notin kind
      BY <1>1, <1>5, <2>2
    <3> QED
      BY <1>2, <2>2, <3>1 DEF StagesOf
  <2>3. Sessions!ChatStep(StagesOf(dcc, m, Chat), StagesOf(d, m, Chat))
    <3>1. CASE m = n /\ st \in Chat
      <4>1. st = "DCC_CHAT_INIT"
        BY <1>5, <3>1
      <4> QED
        BY <2>2, <3>1, <4>1 DEF Sessions!ChatStep
    <3>2. CASE m # n \/ st \notin Chat
      BY <2>1, <3>2 DEF Sessions!ChatStep
    <3> QED
      BY <3>1, <3>2
  <2>4. Sessions!SendStep(StagesOf(dcc, m, Send), StagesOf(d, m, Send))
    <3>1. CASE m = n /\ st \in Send
      <4>1. st = "DCC_SEND_INIT"
        BY <1>5, <3>1 DEF Chat, Send
      <4> QED
        BY <2>2, <3>1, <4>1 DEF Sessions!SendStep
    <3>2. CASE m # n \/ st \notin Send
      BY <2>1, <3>2 DEF Sessions!SendStep
    <3> QED
      BY <3>1, <3>2
  <2> QED
    BY <2>3, <2>4
<1> QED
  BY <1>4, <1>6, <1>7

\* A new DCC is added at its index.
LEMMA AddedFollows ==
  ASSUME Sound(dccs, dcc_num, dcc), dcc_num # DCC_MAX, NEW n \in Nicks,
         NEW st \in {"DCC_STOP", "DCC_CHAT_INIT", "DCC_SEND_INIT"},
         \/ st = "DCC_STOP"
         \/ st = "DCC_CHAT_INIT" /\ ~Refused(n, Chat)
         \/ st = "DCC_SEND_INIT" /\ ~Refused(n, Send),
         NEW from \in Int, from = -1 \/ from \in InUse, NEW t \in Added(n, st, from)
  PROVE  Follows(t)
<1> USE DccAssumption
<1>1. PICK b \in Addr \ DOMAIN dcc :
        t = Table([dccs EXCEPT ![dcc_num] = b], dcc_num + 1,
                  [a \in DOMAIN dcc \cup {b} |-> IF a = b THEN NewDcc(n, st, from) ELSE dcc[a]])
  BY DEF Added
<1> DEFINE slots == [dccs EXCEPT ![dcc_num] = b]
           d == [a \in DOMAIN dcc \cup {b} |-> IF a = b THEN NewDcc(n, st, from) ELSE dcc[a]]
<1>2. t.dccs = slots /\ t.dcc_num = dcc_num + 1 /\ t.dcc = d
  BY <1>1 DEF Table
<1>3. dcc_num \in 0..(DCC_MAX - 1) /\ dcc_num \in Slots /\ dccs \in [Slots -> Addr \cup {NULL}]
  BY DEF Sound, Slots
<1>4. /\ slots \in [Slots -> Addr \cup {NULL}] /\ slots[dcc_num] = b
      /\ \A k \in Slots : k # dcc_num => slots[k] = dccs[k]
  BY <1>3
<1>5. \A k \in 0..(dcc_num - 1) : k \in Slots /\ slots[k] = dccs[k] /\ dccs[k] \in DOMAIN dcc
  BY <1>3, <1>4 DEF Sound, Slots
<1>6. 0..((dcc_num + 1) - 1) = 0..(dcc_num - 1) \cup {dcc_num}
  BY <1>3
<1>7. NewDcc(n, st, from) \in DccType /\ NewDcc(n, st, from).index = dcc_num
  <2>1. from = -1 \/ dccs[from] \in Addr
    BY <1>5 DEF Sound, Heap, InUse
  <2> QED
    BY <1>3, <2>1 DEF NewDcc, DccType, Status, Chat, Send
<1>8. DOMAIN d = DOMAIN dcc \cup {b} /\ d[b] = NewDcc(n, st, from)
  OBVIOUS
<1>9. \A a \in DOMAIN dcc : d[a] = dcc[a]
  OBVIOUS
<1>10. Heap(d)
  BY <1>7, <1>8, <1>9 DEF Sound, Heap
<1>11. {slots[k] : k \in 0..((dcc_num + 1) - 1)} = DOMAIN d
  <2>1. {dccs[k] : k \in 0..(dcc_num - 1)} = DOMAIN dcc
    BY DEF Sound
  <2>2. {slots[k] : k \in 0..(dcc_num - 1)} = DOMAIN dcc
    BY <1>5, <2>1
  <2> QED
    BY <1>4, <1>6, <1>8, <2>2
<1>12. \A j, k \in 0..((dcc_num + 1) - 1) : slots[j] = slots[k] => j = k
  <2>1. \A j, k \in 0..(dcc_num - 1) : slots[j] = slots[k] => j = k
    BY <1>5 DEF Sound
  <2>2. \A k \in 0..(dcc_num - 1) : slots[k] # b
    BY <1>5
  <2> QED
    BY <1>4, <1>6, <2>1, <2>2
<1>13. \A k \in 0..((dcc_num + 1) - 1) : d[slots[k]].index \in -1..k
  <2>1. \A k \in 0..(dcc_num - 1) : d[slots[k]].index \in -1..k
    BY <1>5, <1>9 DEF Sound
  <2>2. d[slots[dcc_num]].index \in -1..dcc_num
    BY <1>3, <1>4, <1>7, <1>8
  <2> QED
    BY <1>6, <2>1, <2>2
<1>14. Clean(dccs, dcc_num, dcc) => Clean(slots, dcc_num + 1, d)
  <2> SUFFICES ASSUME Clean(dccs, dcc_num, dcc) PROVE Clean(slots, dcc_num + 1, d)
    OBVIOUS
  <2>1. \A k \in 0..(dcc_num - 1) : d[slots[k]].index = k
    BY <1>5, <1>9 DEF Clean
  <2>3. Asked(slots, dcc_num + 1, d)
    <3>1. ASSUME NEW a \in DOMAIN dcc
          PROVE  IF d[a].asker = NULL THEN d[a].from = -1
                 ELSE d[a].from \in 0..((dcc_num + 1) - 1) /\ slots[d[a].from] = d[a].asker
      <4>1. IF dcc[a].asker = NULL THEN dcc[a].from = -1
            ELSE dcc[a].from \in 0..(dcc_num - 1) /\ dccs[dcc[a].from] = dcc[a].asker
        BY DEF Clean, Asked
      <4> QED
        BY <1>5, <1>6, <1>9, <4>1
    <3>2. IF d[b].asker = NULL THEN d[b].from = -1
          ELSE d[b].from \in 0..((dcc_num + 1) - 1) /\ slots[d[b].from] = d[b].asker
      <4>1. CASE from = -1
        <5>1. d[b].asker = NULL /\ d[b].from = -1
          BY <1>8, <4>1 DEF NewDcc
        <5> QED
          BY <5>1
      <4>2. CASE from \in InUse
        <5>1. d[b].asker = dccs[from] /\ d[b].from = from /\ from \in 0..(dcc_num - 1)
          BY <1>8, <4>2 DEF NewDcc, InUse
        <5>2. d[b].asker # NULL
          BY <1>5, <5>1 DEF Sound, Heap
        <5>3. d[b].from \in 0..((dcc_num + 1) - 1) /\ slots[d[b].from] = d[b].asker
          BY <1>5, <1>6, <5>1
        <5> QED
          BY <5>2, <5>3
      <4> QED
        BY <4>1, <4>2
    <3> HIDE DEF d, slots
    <3> QED
      BY <1>8, <3>1, <3>2, Zenon DEF Asked
  <2> QED
    BY <1>4, <1>6, <1>7, <1>8, <2>1, <2>3 DEF Clean
<1>17. Bare(dccs, dcc_num) => Bare(slots, dcc_num + 1)
  BY <1>3, <1>4 DEF Bare, Slots
<1>15. Sound(slots, dcc_num + 1, d)
  <2>1. dcc_num + 1 \in 0..DCC_MAX
    BY <1>3
  <2> QED
    BY <2>1, <1>4, <1>10, <1>11, <1>12, <1>13 DEF Sound
<1>16. /\ Opens(dcc) => Opens(d)
       /\ OneEach(dcc) => OneEach(d) /\ Steps(dcc, d)
  <2> HIDE DEF d
  <2> QED
    BY <1>8, <1>9, AddedSteps
<1> QED
  BY <1>2, <1>8, <1>14, <1>15, <1>16, <1>17 DEF Follows

\* Whatever a line does, on IRC or in a chat, the table stays one.
LEMMA LineFollows ==
  ASSUME Sound(dccs, dcc_num, dcc), NEW n \in Nicks,
         NEW from \in Int, from = -1 \/ from \in InUse, NEW t \in event_privmsg(n, from)
  PROVE  Follows(t)
<1> USE DccAssumption
<1>1. Heap(dcc) /\ (from < 0 \/ dccs[from] \in DOMAIN dcc)
  BY DEF Sound, InUse
<1>2. ASSUME NEW d, Ends(dcc, d), t = Table(dccs, dcc_num, d) PROVE Follows(t)
  <2>1. t.dccs = dccs /\ t.dcc_num = dcc_num /\ t.dcc = d
    BY <1>2 DEF Table
  <2>2. Keeps(dcc, d) /\ Moves(dcc, d)
    BY <1>2, EndsMoves
  <2>3. Sound(dccs, dcc_num, d) /\ (Clean(dccs, dcc_num, dcc) => Clean(dccs, dcc_num, d))
    BY <2>2, KeepsSound
  <2>4. DOMAIN d = DOMAIN dcc
    BY <2>2 DEF Keeps
  <2>5. OneEach(dcc) => OneEach(d) /\ Steps(dcc, d)
    BY <2>2, MovesSteps
  <2>6. Opens(dcc) => Opens(d)
    BY <1>2, <2>4 DEF Opens, Ends, Ended
  <2> QED
    BY <2>1, <2>3, <2>4, <2>5, <2>6 DEF Follows
<1>3. ASSUME NEW st \in {"DCC_STOP", "DCC_CHAT_INIT", "DCC_SEND_INIT"}, dcc_num # DCC_MAX,
             \/ st = "DCC_STOP"
             \/ st = "DCC_CHAT_INIT" /\ ~Refused(n, Chat)
             \/ st = "DCC_SEND_INIT" /\ ~Refused(n, Send),
             NEW u \in Added(n, st, from), NEW e \in Answer(u.dcc, from), t = [u EXCEPT !.dcc = e]
      PROVE  Follows(t)
  <2>1. Follows(u)
    BY <1>3, AddedFollows
  <2>2. from < 0 \/ dccs[from] \in DOMAIN u.dcc
    BY <1>1, <2>1 DEF Follows
  <2>3. Ends(u.dcc, e) /\ Keeps(u.dcc, e)
    BY <1>3, <2>1, <2>2, AnswerEnds DEF Follows, Sound, Ends
  <2>4. t.dccs = u.dccs /\ t.dcc_num = u.dcc_num /\ t.dcc = e
    <3>1. PICK slots, m, d : u = Table(slots, m, d)
      BY DEF Added
    <3> QED
      BY <1>3, <3>1 DEF Table
  <2>5. /\ Sound(u.dccs, u.dcc_num, e)
        /\ Clean(u.dccs, u.dcc_num, u.dcc) => Clean(u.dccs, u.dcc_num, e)
    BY <2>1, <2>3, KeepsSound DEF Follows
  <2>6. DOMAIN e = DOMAIN u.dcc
    BY <2>3 DEF Keeps
  <2>7. OneEach(dcc) => OneEach(e) /\ Steps(dcc, e)
    BY <2>1, <2>3, StepsThenEnds DEF Follows
  <2>8. Opens(u.dcc) => Opens(e)
    BY <2>3, <2>6 DEF Opens, Ends, Ended
  <2> QED
    BY <2>1, <2>4, <2>5, <2>6, <2>7, <2>8 DEF Follows
<1>4. CASE t \in scriptcmd_chat(n, from)
  <2>1. dcc_num # DCC_MAX /\ ~Refused(n, Chat)
    BY <1>4 DEF scriptcmd_chat, Refused
  <2>2. CASE t \in Added(n, "DCC_STOP", from)
    BY <2>1, <2>2, AddedFollows
  <2>3. CASE t \notin Added(n, "DCC_STOP", from)
    <3>1. PICK u \in Added(n, "DCC_CHAT_INIT", from) :
            \E e \in Answer(u.dcc, from) : t = [u EXCEPT !.dcc = e]
      BY <1>4, <2>3 DEF scriptcmd_chat
    <3> QED
      BY <2>1, <3>1, <1>3
  <2> QED
    BY <2>2, <2>3
<1>5. CASE t \in scriptcmd_get(n, from)
  <2>1. dcc_num # DCC_MAX /\ ~Refused(n, Send)
    BY <1>5 DEF scriptcmd_get, Refused
  <2>2. PICK u \in Added(n, "DCC_STOP", from) \cup Added(n, "DCC_SEND_INIT", from) :
          \E e \in Answer(u.dcc, from) : t = [u EXCEPT !.dcc = e]
    BY <1>5 DEF scriptcmd_get
  <2> QED
    BY <2>1, <2>2, <1>3
<1>6. ASSUME NEW i \in InUse, t \in scriptcmd_dcckill(i) PROVE Follows(t)
  <2>1. dccs[i] \in DOMAIN dcc
    BY DEF Sound, InUse
  <2>2. PICK d, e : /\ e = dcc \/ e \in send_partyline(dcc)
                    /\ d \in dcc_stop(e, dccs[i]) /\ t = Table(dccs, dcc_num, d)
    BY <1>6 DEF scriptcmd_dcckill
  <2>3. Ends(dcc, e)
    BY <1>1, <2>2, PartylineEnds, EndsItself
  <2>4. Ends(e, d)
    <3>1. Heap(e) /\ dccs[i] \in DOMAIN e
      BY <2>1, <2>3 DEF Ends, Keeps
    <3> QED
      BY <2>2, <3>1, StopEnds
  <2> QED
    BY <1>2, <2>2, <2>3, <2>4, EndsTwice
<1>7. ASSUME NEW d, d \in Answer(dcc, from) \/ d \in send_partyline(dcc),
             t = Table(dccs, dcc_num, d)
      PROVE  Follows(t)
  <2>1. Ends(dcc, d)
    BY <1>1, <1>7, AnswerEnds, PartylineEnds
  <2> QED
    BY <1>2, <1>7, <2>1
<1> QED
  BY <1>4, <1>5, <1>6, <1>7 DEF event_privmsg

\* Deleting a DCC that is not at the end of a full table moves the others down,
\* and no index ends up above its slot.
LEMMA DeletedSound ==
  ASSUME Sound(dccs, dcc_num, dcc), NEW i \in InUse, dcc_num < DCC_MAX,
         NEW slots,
         slots = [k \in Slots |-> IF k \in i..(dcc_num - 1) THEN dccs[k + 1] ELSE dccs[k]]
  PROVE  /\ Sound(slots, dcc_num - 1, Deleted(i))
         /\ Clean(dccs, dcc_num, dcc) /\ dccs[dcc_num] = NULL
              => Clean(slots, dcc_num - 1, Deleted(i))
         /\ Bare(dccs, dcc_num) => Bare(slots, dcc_num - 1) /\ dccs[dcc_num] = NULL
<1> USE DccAssumption
<1> DEFINE d == Deleted(i)
           Exact == Clean(dccs, dcc_num, dcc) /\ dccs[dcc_num] = NULL
           above(a) == {k \in (i + 1)..dcc_num : dccs[k] = a}
<1>1. /\ dcc_num \in 0..(DCC_MAX - 1) /\ i \in 0..(dcc_num - 1)
      /\ dccs \in [Slots -> Addr \cup {NULL}]
  BY DEF Sound, InUse
<1>2. /\ \A k \in 0..(dcc_num - 1) : k \in Slots /\ dccs[k] \in DOMAIN dcc
      /\ \A a \in DOMAIN dcc : \E k \in 0..(dcc_num - 1) : dccs[k] = a
      /\ \A j, k \in 0..(dcc_num - 1) : dccs[j] = dccs[k] => j = k
  BY <1>1 DEF Sound, Slots
<1>3. DOMAIN d = DOMAIN dcc \ {dccs[i]}
  BY DEF Deleted
<1>4. \A a : IsFiniteSet(above(a)) /\ Cardinality(above(a)) \in Nat
  <2> TAKE a
  <2>1. IsFiniteSet((i + 1)..dcc_num)
    BY <1>1, FS_Interval
  <2>2. above(a) \subseteq (i + 1)..dcc_num
    OBVIOUS
  <2>3. IsFiniteSet(above(a))
    BY <2>1, <2>2, FS_Subset
  <2> QED
    BY <2>3, FS_CardinalityType
<1>5. \A a \in DOMAIN d : d[a].index = Lowered(dcc[a].index, Cardinality(above(a)))
  BY <1>3 DEF Deleted, Sound, Heap, DccType
<1>6. \A k \in 0..(dcc_num - 2) :
        /\ k \in Slots
        /\ k < i => slots[k] = dccs[k] /\ k \in 0..(dcc_num - 1)
        /\ k >= i => slots[k] = dccs[k + 1] /\ k + 1 \in 0..(dcc_num - 1) /\ k + 1 \in (i + 1)..dcc_num
  BY <1>1 DEF Slots
<1>7. Heap(d)
  <2>1. ASSUME NEW a \in DOMAIN d PROVE d[a] \in DccType
    <3>1. dcc[a] \in DccType /\ dcc[a].index \in Int
      BY <1>3 DEF Sound, Heap, DccType
    <3> DEFINE c == Cardinality(above(a))
               from == IF dcc[a].from = i THEN -1
                       ELSE IF dcc[a].from > i THEN dcc[a].from - 1 ELSE dcc[a].from
               asker == IF dcc[a].asker = dccs[i] THEN NULL ELSE dcc[a].asker
    <3>2. Lowered(dcc[a].index, c) \in Int
      <4>1. c \in Nat
        BY <1>4, Zenon
      <4> HIDE DEF c
      <4> QED
        BY <3>1, <4>1 DEF Lowered
    <3>3. d[a] = [[[dcc[a] EXCEPT !.from = from] EXCEPT !.index = Lowered(dcc[a].index, c)]
                    EXCEPT !.asker = asker]
      BY <1>3, <3>1 DEF Deleted, DccType
    <3>4. from \in Int /\ asker \in Addr \cup {NULL}
      BY <1>1, <3>1 DEF DccType
    <3> QED
      BY <3>1, <3>2, <3>3, <3>4 DEF DccType
  <2> QED
    BY <1>3, <2>1 DEF Sound, Heap
<1>8. {slots[k] : k \in 0..((dcc_num - 1) - 1)} = DOMAIN d
  <2>1. \A k \in 0..(dcc_num - 2) : slots[k] \in DOMAIN d
    BY <1>1, <1>2, <1>3, <1>6
  <2>2. ASSUME NEW a \in DOMAIN d PROVE \E k \in 0..(dcc_num - 2) : slots[k] = a
    <3>1. PICK j \in 0..(dcc_num - 1) : dccs[j] = a
      BY <1>2, <1>3
    <3>2. j # i
      BY <1>3, <3>1
    <3>3. CASE j < i
      <4>1. j \in 0..(dcc_num - 2)
        BY <1>1, <3>3
      <4>2. slots[j] = dccs[j]
        BY <1>6, <3>3, <4>1
      <4> QED
        BY <3>1, <4>1, <4>2, Zenon
    <3>4. CASE j > i
      <4> DEFINE k == j - 1
      <4>1. k \in 0..(dcc_num - 2) /\ ~(k < i) /\ k + 1 = j
        BY <1>1, <3>4
      <4> HIDE DEF k
      <4>2. k >= i
        BY <1>1, <4>1
      <4>3. slots[k] = dccs[k + 1]
        BY <1>6, <4>1, <4>2, Zenon
      <4> QED
        BY <3>1, <4>1, <4>3, Zenon
    <3> QED
      BY <1>1, <3>2, <3>3, <3>4
  <2> QED
    <3> DEFINE J == 0..(dcc_num - 2)
    <3>1. 0..((dcc_num - 1) - 1) = J
      BY <1>1
    <3>2. (\A k \in J : slots[k] \in DOMAIN d) /\ \A a \in DOMAIN d : \E k \in J : slots[k] = a
      BY <2>1, <2>2, Zenon
    <3> HIDE DEF J, d
    <3> QED
      BY ONLY <3>1, <3>2
<1>9. \A j, k \in 0..((dcc_num - 1) - 1) : slots[j] = slots[k] => j = k
  <2> SUFFICES ASSUME NEW j \in 0..(dcc_num - 2), NEW k \in 0..(dcc_num - 2), slots[j] = slots[k]
               PROVE  j = k
    BY <1>1
  <2> DEFINE was(m) == IF m < i THEN m ELSE m + 1
  <2>1. \A m \in 0..(dcc_num - 2) : was(m) \in 0..(dcc_num - 1) /\ slots[m] = dccs[was(m)]
    BY <1>1, <1>6
  <2>2. was(j) = was(k)
    <3> HIDE DEF was
    <3> QED
      BY <1>2, <2>1
  <2> QED
    BY <1>1, <2>2
<1>10. ASSUME NEW k \in 0..((dcc_num - 1) - 1)
       PROVE  d[slots[k]].index \in -1..k /\ (Exact => d[slots[k]].index = k)
  <2> DEFINE a == slots[k]
             c == Cardinality(above(a))
  <2>1. k \in 0..(dcc_num - 2) /\ a \in DOMAIN d /\ a \in DOMAIN dcc /\ c \in Nat
    <3>1. c \in Nat
      BY <1>4, Zenon
    <3>2. k \in 0..(dcc_num - 2) /\ a \in DOMAIN d
      BY <1>1, <1>8
    <3> QED
      BY <1>3, <3>1, <3>2
  <2>2. d[a].index = Lowered(dcc[a].index, c)
    BY <1>5, <2>1
  <2>3. CASE k < i
    <3>1. dcc[a].index \in -1..k
      BY <1>6, <2>1, <2>3 DEF Sound
    <3>2. d[a].index \in -1..k
      <4> HIDE DEF a, c
      <4> QED
        BY <2>1, <2>2, <3>1 DEF Lowered
    <3>3. ASSUME Exact PROVE d[a].index = k
      <4>1. above(a) = {}
        <5>1. \A m \in (i + 1)..(dcc_num - 1) : dccs[m] # a
          BY <1>1, <1>2, <1>6, <2>1, <2>3
        <5>2. dccs[dcc_num] = NULL
          BY <3>3
        <5>3. a # NULL
          BY <2>1 DEF Sound, Heap
        <5> QED
          BY <1>1, <5>1, <5>2, <5>3
      <4>2. c = 0
        BY <4>1, FS_EmptySet
      <4>3. dcc[a].index = k
        BY <1>6, <2>1, <2>3, <3>3 DEF Clean
      <4> HIDE DEF a, c
      <4> QED
        BY <2>1, <2>2, <4>2, <4>3 DEF Lowered
    <3> QED
      BY <3>2, <3>3
  <2>4. CASE k >= i
    <3>1. a = dccs[k + 1] /\ k + 1 \in 0..(dcc_num - 1) /\ k + 1 \in above(a)
      BY <1>6, <2>1, <2>4
    <3>2. dcc[a].index \in -1..(k + 1)
      BY <3>1 DEF Sound
    <3>3. c # 0
      <4>1. above(a) # {}
        BY <3>1
      <4> QED
        BY <1>4, <4>1, FS_EmptySet
    <3>4. d[a].index \in -1..k
      <4> HIDE DEF a, c
      <4> QED
        BY <2>1, <2>2, <3>2, <3>3 DEF Lowered
    <3>5. ASSUME Exact PROVE d[a].index = k
      <4>1. above(a) = {k + 1}
        <5>1. \A m \in (i + 1)..(dcc_num - 1) : dccs[m] = a => m = k + 1
          BY <1>1, <1>2, <3>1
        <5>2. dccs[dcc_num] = NULL
          BY <3>5
        <5>3. a # NULL
          BY <2>1 DEF Sound, Heap
        <5> QED
          BY <1>1, <3>1, <5>1, <5>2, <5>3
      <4>2. c = 1
        BY <4>1, FS_Singleton
      <4>3. dcc[a].index = k + 1
        BY <3>1, <3>5 DEF Clean
      <4> HIDE DEF a, c
      <4> QED
        BY <2>1, <2>2, <4>2, <4>3 DEF Lowered
    <3> QED
      BY <3>4, <3>5
  <2> QED
    BY <1>1, <2>1, <2>3, <2>4
<1>11. slots \in [Slots -> Addr \cup {NULL}]
  BY <1>1 DEF Slots
<1>12. Sound(slots, dcc_num - 1, d)
  <2>1. dcc_num - 1 \in 0..DCC_MAX
    BY <1>1
  <2> HIDE DEF d
  <2> QED
    BY <2>1, <1>7, <1>8, <1>9, <1>10, <1>11 DEF Sound
<1>14. ASSUME Bare(dccs, dcc_num) PROVE Bare(slots, dcc_num - 1) /\ dccs[dcc_num] = NULL
  <2>1. dccs[dcc_num] = NULL
    BY <1>1, <1>14 DEF Bare, Slots
  <2>2. ASSUME NEW k \in Slots, k >= dcc_num - 1 PROVE slots[k] = NULL
    <3>1. CASE k = dcc_num - 1
      BY <1>1, <2>1, <3>1 DEF Slots
    <3>2. CASE k >= dcc_num
      <4>1. slots[k] = dccs[k]
        BY <1>1, <3>2 DEF Slots
      <4> QED
        BY <1>14, <3>2, <4>1 DEF Bare
    <3> QED
      BY <1>1, <2>2, <3>1, <3>2 DEF Slots
  <2> QED
    BY <2>1, <2>2 DEF Bare
<1>13. ASSUME Exact PROVE Clean(slots, dcc_num - 1, d)
  <2>3. ASSUME NEW a \in DOMAIN d
        PROVE  IF d[a].asker = NULL THEN d[a].from = -1
               ELSE d[a].from \in 0..((dcc_num - 1) - 1) /\ slots[d[a].from] = d[a].asker
    <3>1. a \in DOMAIN dcc /\ dcc[a] \in DccType
      BY <1>3 DEF Sound, Heap
    <3>2. /\ d[a].from = IF dcc[a].from = i THEN -1
                         ELSE IF dcc[a].from > i THEN dcc[a].from - 1 ELSE dcc[a].from
          /\ d[a].asker = IF dcc[a].asker = dccs[i] THEN NULL ELSE dcc[a].asker
      BY <1>3, <3>1 DEF Deleted, DccType
    <3>3. IF dcc[a].asker = NULL THEN dcc[a].from = -1
          ELSE dcc[a].from \in 0..(dcc_num - 1) /\ dccs[dcc[a].from] = dcc[a].asker
      BY <1>13, <3>1 DEF Clean, Asked
    <3> HIDE DEF d
    <3>4. CASE dcc[a].asker = NULL
      BY <1>1, <3>2, <3>3, <3>4
    <3>5. CASE dcc[a].asker # NULL /\ dcc[a].from = i
      BY <1>1, <3>2, <3>3, <3>5
    <3>6. CASE dcc[a].asker # NULL /\ dcc[a].from # i
      <4>1. dcc[a].from \in 0..(dcc_num - 1) /\ dccs[dcc[a].from] = dcc[a].asker
        BY <3>3, <3>6
      <4>2. dcc[a].asker # dccs[i]
        BY <1>1, <1>2, <3>6, <4>1
      <4>3. CASE dcc[a].from < i
        <5>1. dcc[a].from \in 0..(dcc_num - 2)
          BY <1>1, <4>1, <4>3
        <5>2. slots[dcc[a].from] = dccs[dcc[a].from]
          BY <1>6, <4>3, <5>1
        <5> QED
          BY <1>1, <3>2, <3>6, <4>1, <4>2, <4>3, <5>1, <5>2
      <4>4. CASE dcc[a].from > i
        <5>1. dcc[a].from - 1 \in 0..(dcc_num - 2) /\ dcc[a].from - 1 >= i
          BY <1>1, <4>1, <4>4
        <5>2. /\ slots[dcc[a].from - 1] = dccs[(dcc[a].from - 1) + 1]
              /\ (dcc[a].from - 1) + 1 = dcc[a].from
          BY <1>6, <4>1, <5>1
        <5> QED
          BY <1>1, <3>2, <3>6, <4>1, <4>2, <4>4, <5>1, <5>2
      <4> QED
        BY <1>1, <3>6, <4>1, <4>3, <4>4
    <3> QED
      BY <3>4, <3>5, <3>6
  <2>4. Asked(slots, dcc_num - 1, d)
    BY <2>3, Zenon DEF Asked
  <2> HIDE DEF d
  <2> QED
    BY <2>4, <1>10, <1>13 DEF Clean
<1> QED
  BY <1>12, <1>13, <1>14

\* The others have open what they had, and are in the stages they were in.
LEMMA DeletedSteps ==
  ASSUME Heap(dcc), NEW i, dccs[i] \in DOMAIN dcc, dcc[dccs[i]].status = "DCC_STOP"
  PROVE  /\ Opens(dcc) => Opens(Deleted(i))
         /\ OneEach(dcc) => OneEach(Deleted(i))
         /\ Steps(dcc, Deleted(i))
<1> DEFINE d == Deleted(i)
<1>1. DOMAIN d = DOMAIN dcc \ {dccs[i]}
  BY DEF Deleted
<1>2. ASSUME NEW a \in DOMAIN d
      PROVE  /\ d[a].nick = dcc[a].nick /\ d[a].status = dcc[a].status /\ d[a].sock = dcc[a].sock
             /\ (d[a].socklocal <=> dcc[a].socklocal) /\ (d[a].file <=> dcc[a].file)
  <2>1. a \in DOMAIN dcc /\ dcc[a] \in DccType
    BY <1>1 DEF Heap
  <2> QED
    BY <1>1, <2>1 DEF Deleted, DccType
<1> HIDE DEF d
<1>3. Opens(dcc) => Opens(d)
  BY <1>1, <1>2 DEF Opens, Open
<1>4. OneEach(dcc) => OneEach(d)
  BY <1>1, <1>2 DEF OneEach
<1>5. ASSUME NEW n \in Nicks, NEW kind \in {Chat, Send}
      PROVE  StagesOf(d, n, kind) = StagesOf(dcc, n, kind)
  <2>1. "DCC_STOP" \notin kind
    BY DEF Chat, Send
  <2> QED
    BY <1>1, <1>2, <2>1 DEF StagesOf
<1>6. Steps(dcc, d)
  BY <1>5, SameSteps
<1> QED
  BY <1>3, <1>4, <1>6 DEF d

-----------------------------------------------------------------------------
(* The steps. *)

\* The inductive invariant.  TableHoldsAll alone is not one: a deletion follows
\* the numbers of slots, so no index may be above its slot, the indexes are only
\* exact as long as no deletion met an address past the last slot, and there is
\* none before a restart.  Nor is FromIsAsker: a chat gives its index for its
\* slot when it asks.
TableInv ==
  /\ Sound(dccs, dcc_num, dcc)
  /\ ~leftover => Clean(dccs, dcc_num, dcc)
  /\ restarts = 0 => Bare(dccs, dcc_num)
  /\ Opens(dcc) /\ OneEach(dcc)
  /\ turn \in -1..(dcc_num - 1)
  /\ undefined \in {"no", "overrun", "nosock", "freed"}
  /\ undefined = "freed" => restarts # 0
  /\ restarts \in 0..MaxRestarts /\ leftover \in BOOLEAN

\* A table without DCCs, whatever its slots hold, is sound.
LEMMA EmptySound ==
  ASSUME NEW slots, slots \in [Slots -> Addr \cup {NULL}]
  PROVE  LET d == [a \in {} |-> NULL]
         IN  Sound(slots, 0, d) /\ Clean(slots, 0, d) /\ Opens(d) /\ OneEach(d)
<1> USE DccAssumption
<1>1. 0..(0 - 1) = {} /\ 0 \in 0..DCC_MAX
  OBVIOUS
<1>2. Heap([a \in {} |-> NULL])
  BY DEF Heap
<1> QED
  BY <1>1, <1>2 DEF Sound, Clean, Asked, Opens, OneEach

\* The table is empty at first, in all its slots.
LEMMA InitTable == Init => TableInv
<1> SUFFICES ASSUME Init PROVE TableInv
  OBVIOUS
<1> USE DccAssumption
<1>1. Sound(dccs, dcc_num, dcc) /\ Opens(dcc) /\ OneEach(dcc)
  <2>1. dccs \in [Slots -> Addr \cup {NULL}]
    BY DEF Init
  <2> QED
    BY <2>1, EmptySound DEF Init
<1>2. Clean(dccs, dcc_num, dcc) /\ Bare(dccs, dcc_num)
  BY DEF Init, Clean, Asked, Bare
<1>3. turn \in -1..(dcc_num - 1) /\ restarts \in 0..MaxRestarts
  BY DEF Init
<1>5. leftover \in BOOLEAN
  BY DEF Init
<1>4. undefined \in {"no", "overrun", "nosock", "freed"} /\ undefined # "freed"
  BY DEF Init
<1> QED
  BY <1>1, <1>2, <1>3, <1>4, <1>5 DEF TableInv

\* The turn stays in the table.
LEMMA TurnStays ==
  ASSUME NEW i \in Int, i >= -1, NEW n \in Nat, Turn(i, n)
  PROVE  turn' \in -1..(n - 1)
  BY DEF Turn

\* Every step keeps the invariant, and is a step of the sessions.
LEMMA NextTable == TableInv /\ [Next]_vars => TableInv' /\ Steps(dcc, dcc')
<1> DEFINE Kept == TableInv' /\ Steps(dcc, dcc')
<1> SUFFICES ASSUME TableInv, [Next]_vars PROVE Kept
  OBVIOUS
<1> USE DccAssumption
<1>1. /\ Sound(dccs, dcc_num, dcc) /\ (~leftover => Clean(dccs, dcc_num, dcc))
      /\ (restarts = 0 => Bare(dccs, dcc_num)) /\ leftover \in BOOLEAN
      /\ dcc_num \in 0..DCC_MAX /\ turn \in -1..(dcc_num - 1) /\ restarts \in 0..MaxRestarts
      /\ Heap(dcc) /\ dccs \in [Slots -> Addr \cup {NULL}] /\ Opens(dcc) /\ OneEach(dcc)
  BY DEF TableInv, Sound
<1>2. undefined \in {"no", "overrun", "nosock", "freed"} /\ (undefined = "freed" => restarts # 0)
  BY DEF TableInv
<1>3. turn # -1 => turn \in InUse /\ dccs[turn] \in DOMAIN dcc /\ dccs[turn] \in Addr
  BY <1>1 DEF InUse, Sound, Heap
<1>same. dcc' = dcc => Opens(dcc') /\ OneEach(dcc') /\ Steps(dcc, dcc')
  BY <1>1, SameSteps
<1>4. CASE BeginLoop
  <2>1. turn' \in -1..(dcc_num' - 1)
    BY <1>1, <1>4 DEF BeginLoop
  <2>2. UNCHANGED <<dccs, dcc_num, dcc, restarts, undefined, leftover>>
    BY <1>4 DEF BeginLoop, Calm
  <2> QED
    BY <1>1, <1>2, <1>same, <2>1, <2>2 DEF TableInv
<1>5. CASE WorkDcc
  <2>1. UNCHANGED <<dccs, dcc_num, restarts, undefined, leftover>>
    BY <1>5 DEF WorkDcc, Calm
  <2>2. Moves(dcc, dcc') /\ Keeps(dcc, dcc')
    <3>1. \A e \in dcc_work(dcc, dccs[turn]) : Moves(dcc, e)
      BY <1>1, <1>3, <1>5, WorkMoves DEF WorkDcc
    <3> QED
      BY <1>5, <3>1 DEF WorkDcc, Moves
  <2>3. /\ Sound(dccs, dcc_num, dcc')
        /\ Clean(dccs, dcc_num, dcc) => Clean(dccs, dcc_num, dcc')
    BY <1>1, <2>2, KeepsSound
  <2>4. turn' \in -1..(dcc_num - 1)
    BY <1>1, <1>5, TurnStays DEF WorkDcc
  <2>5. Opens(dcc') /\ OneEach(dcc') /\ Steps(dcc, dcc')
    BY <1>1, <2>2, MovesSteps
  <2> QED
    BY <1>1, <1>2, <2>1, <2>3, <2>4, <2>5 DEF TableInv
<1>6. CASE WorkLine
  <2> DEFINE a == dccs[turn]
             from == IF dcc[a].index < 0 THEN -1 ELSE dcc[a].index
  <2>1. UNCHANGED <<restarts, undefined, leftover>>
    BY <1>6 DEF WorkLine, Calm
  <2>2. turn \in InUse /\ a \in DOMAIN dcc /\ dcc[a] \in DccType
    BY <1>1, <1>3, <1>6 DEF WorkLine, Heap
  <2>3. from \in Int /\ (from = -1 \/ from \in InUse)
    <3>1. dcc[a].index \in -1..turn
      BY <1>1, <2>2 DEF Sound, InUse
    <3> QED
      BY <1>1, <3>1 DEF InUse
  <2>4. PICK t \in event_privmsg(dcc[a].nick, from) :
          /\ dccs' = t.dccs /\ dcc_num' = t.dcc_num
          /\ dcc' = InTime(t.dcc, a) /\ Turn(turn, t.dcc_num)
    BY <1>6 DEF WorkLine
  <2>5. Follows(t)
    <3>1. dcc[a].nick \in Nicks
      BY <2>2 DEF DccType
    <3> HIDE DEF from
    <3> QED
      BY <1>1, <2>3, <2>4, <3>1, LineFollows
  <2>6. Ends(t.dcc, InTime(t.dcc, a)) /\ Keeps(t.dcc, InTime(t.dcc, a))
    BY <2>2, <2>5, InTimeEnds DEF Follows, Sound, Ends
  <2>7. /\ Sound(dccs', dcc_num', dcc')
        /\ Clean(dccs, dcc_num, dcc) => Clean(dccs', dcc_num', dcc')
        /\ Bare(dccs, dcc_num) => Bare(dccs', dcc_num')
    BY <2>4, <2>5, <2>6, KeepsSound DEF Follows
  <2>8. turn' \in -1..(dcc_num' - 1)
    <3>1. t.dcc_num \in Nat
      BY <2>5 DEF Follows, Sound
    <3> QED
      BY <1>1, <2>4, <3>1, TurnStays
  <2>9. Opens(dcc') /\ OneEach(dcc') /\ Steps(dcc, dcc')
    BY <1>1, <2>4, <2>5, <2>6, StepsThenEnds DEF Follows
  <2> QED
    BY <1>1, <1>2, <2>1, <2>7, <2>8, <2>9 DEF TableInv
<1>7. CASE WorkDelete
  <2>1. UNCHANGED restarts /\ turn \in InUse
    BY <1>3, <1>7 DEF WorkDelete
  <2>2. CASE /\ dcc_num = DCC_MAX /\ undefined' = "overrun"
             /\ UNCHANGED <<dccs, dcc_num, dcc, turn, leftover>>
    <3>1. undefined' \in {"no", "overrun", "nosock", "freed"} /\ undefined' # "freed"
      BY <2>2
    <3> QED
      BY <1>1, <1>same, <2>1, <2>2, <3>1 DEF TableInv
  <2>3. CASE /\ dcc_num < DCC_MAX /\ dcc' = Deleted(turn)
             /\ dccs' = [k \in Slots |-> IF k \in turn..(dcc_num - 1) THEN dccs[k + 1] ELSE dccs[k]]
             /\ dcc_num' = dcc_num - 1 /\ Turn(turn, dcc_num - 1)
             /\ leftover' = (leftover \/ dccs[dcc_num] # NULL)
             /\ undefined' \in IF dccs[dcc_num] \in DOMAIN dcc' \cup {NULL} THEN {"no"} ELSE Freed
    <3>1. /\ Sound(dccs', dcc_num - 1, Deleted(turn))
          /\ Clean(dccs, dcc_num, dcc) /\ dccs[dcc_num] = NULL
               => Clean(dccs', dcc_num - 1, Deleted(turn))
          /\ Bare(dccs, dcc_num) => Bare(dccs', dcc_num - 1) /\ dccs[dcc_num] = NULL
      BY <1>1, <2>1, <2>3, DeletedSound
    <3>2. dcc_num - 1 \in Nat
      BY <1>1, <2>1 DEF InUse
    <3>3. turn' \in -1..(dcc_num' - 1)
      BY <1>1, <2>3, <3>2, TurnStays
    <3>4. Opens(dcc') /\ OneEach(dcc') /\ Steps(dcc, dcc')
      BY <1>1, <1>3, <1>7, <2>3, DeletedSteps DEF WorkDelete
    <3>5. /\ undefined' \in {"no", "overrun", "nosock", "freed"}
          /\ undefined' = "freed" => dccs[dcc_num] # NULL
      BY <2>3 DEF Freed
    <3>6. undefined' = "freed" => restarts' # 0
      BY <1>1, <2>1, <3>1, <3>5
    <3>7. ~leftover' => Clean(dccs', dcc_num', dcc')
      BY <1>1, <2>3, <3>1
    <3>8. leftover' \in BOOLEAN
      BY <1>1, <2>3
    <3> QED
      BY <1>1, <2>1, <2>3, <3>1, <3>3, <3>4, <3>5, <3>6, <3>7, <3>8 DEF TableInv
  <2> QED
    BY <1>7, <2>2, <2>3 DEF WorkDelete
<1>8. ASSUME NEW n \in Nicks, IrcLine(n) PROVE Kept
  <2>1. UNCHANGED <<restarts, undefined, turn, leftover>> /\ turn = -1
    BY <1>8 DEF IrcLine, Calm
  <2>2. PICK t \in event_privmsg(n, -1) : dccs' = t.dccs /\ dcc_num' = t.dcc_num /\ dcc' = t.dcc
    BY <1>8 DEF IrcLine
  <2>3. Follows(t)
    BY <1>1, <2>2, LineFollows
  <2>4. turn' \in -1..(dcc_num' - 1)
    BY <2>1, <2>2, <2>3 DEF Follows, Sound
  <2> QED
    BY <1>1, <1>2, <2>1, <2>2, <2>3, <2>4 DEF TableInv, Follows
<1>9. CASE irc_restart
  <2>1. /\ Sound(dccs', dcc_num', dcc') /\ Clean(dccs', dcc_num', dcc')
        /\ Opens(dcc') /\ OneEach(dcc')
    BY <1>1, <1>9, EmptySound DEF irc_restart, AllDeleted
  <2>2. turn' \in -1..(dcc_num' - 1) /\ restarts' \in 0..MaxRestarts /\ restarts' # 0
    BY <1>1, <1>9 DEF irc_restart, AllDeleted
  <2>3. undefined' \in {"no", "overrun", "nosock", "freed"} /\ UNCHANGED leftover
    BY <1>9 DEF irc_restart, AllDeleted, Freed
  <2>4. Steps(dcc, dcc')
    <3>1. \A n, kind : StagesOf(dcc', n, kind) = {}
      BY <1>9 DEF irc_restart, AllDeleted, StagesOf
    <3> QED
      BY <3>1 DEF Steps, Sessions!ChatStep, Sessions!SendStep
  <2> QED
    BY <1>1, <2>1, <2>2, <2>3, <2>4 DEF TableInv
<1>10. ASSUME NEW a \in Addr, Late(a) PROVE Kept
  <2>1. UNCHANGED <<dccs, dcc_num, turn, restarts, undefined, leftover>>
    BY <1>10 DEF Late, Calm
  <2>2. Ends(dcc, dcc') /\ Keeps(dcc, dcc')
    <3>1. a \in DOMAIN dcc /\ dcc' = [dcc EXCEPT ![a].late = TRUE]
      BY <1>10 DEF Late
    <3>2. ASSUME NEW b \in DOMAIN dcc
          PROVE  dcc'[b] \in DccType /\ SameDcc(dcc[b], dcc'[b]) /\ Ended(dcc[b], dcc'[b])
      <4>1. dcc[b] \in DccType
        BY <1>1 DEF Heap
      <4>2. CASE b = a
        <5> DEFINE r == [dcc[b] EXCEPT !.late = TRUE]
        <5>1. dcc'[b] = r
          BY <3>1, <4>2
        <5>2. r \in DccType /\ SameDcc(dcc[b], r)
          BY <4>1 DEF DccType, SameDcc
        <5>3. Ended(dcc[b], r)
          BY <4>1 DEF DccType, Ended, Open
        <5> HIDE DEF r
        <5> QED
          BY <5>1, <5>2, <5>3
      <4>3. CASE b # a
        BY <3>1, <4>1, <4>3 DEF SameDcc, Ended
      <4> QED
        BY <4>2, <4>3
    <3>3. DOMAIN dcc' = DOMAIN dcc
      BY <3>1
    <3> QED
      BY <1>1, <3>2, <3>3 DEF Ends, Keeps, Heap
  <2>3. /\ Sound(dccs, dcc_num, dcc')
        /\ Clean(dccs, dcc_num, dcc) => Clean(dccs, dcc_num, dcc')
    BY <1>1, <2>2, KeepsSound
  <2>4. Opens(dcc') /\ OneEach(dcc') /\ Steps(dcc, dcc')
    BY <1>1, <2>2, EndsMoves, MovesSteps
  <2> QED
    BY <1>1, <1>2, <2>1, <2>3, <2>4 DEF TableInv
<1>11. ASSUME NEW a \in Addr, NoSocket(a) PROVE Kept
  <2>1. UNCHANGED <<dccs, dcc_num, dcc, turn, restarts, leftover>>
    BY <1>11 DEF NoSocket
  <2>2. undefined' \in {"no", "overrun", "nosock", "freed"} /\ undefined' # "freed"
    BY <1>11 DEF NoSocket
  <2> QED
    BY <1>1, <1>same, <2>1, <2>2 DEF TableInv
<1>12. CASE UNCHANGED vars
  BY <1>1, <1>2, <1>12, <1>same DEF TableInv, vars
<1> QED
  BY <1>4, <1>5, <1>6, <1>7, <1>8, <1>9, <1>10, <1>11, <1>12 DEF Next, Work

\* The invariant in every state that is reached.
LEMMA TableKept == Spec => []TableInv
  BY InitTable, NextTable, PTL DEF Spec

\* The variables keep their types, and turn stays in the table.
THEOREM TypeCorrect == Spec => []TypeOK
<1>1. TableInv => TypeOK
  BY DEF TableInv, Sound, Heap, TypeOK
<1> QED
  BY TableKept, <1>1, PTL

\* No DCC is leaked or deleted twice, over any number of restarts, and none that
\* was deleted is used before the first one.
THEOREM TableSound == Spec => []TableHoldsAll
<1>1. TableInv => TableHoldsAll
  BY DEF TableInv, Sound, TableHoldsAll, InUse
<1> QED
  BY TableKept, <1>1, PTL

\* Until a deletion takes over an address that a restart left in the table, a
\* DCC's index is its slot.
THEOREM IndexCorrect == Spec => []IndexIsSlotAtFirst
<1>1. TableInv => IndexIsSlotAtFirst
  BY DEF TableInv, Clean, IndexIsSlotAtFirst, IndexIsSlot, InUse
<1> QED
  BY TableKept, <1>1, PTL

\* Every DCC has open what its status says, whatever was accepted, refused or
\* lost on the way, over any number of restarts; and the number of a chat that
\* asked names this chat until a deletion takes over an address that a restart
\* left in the table.
THEOREM DccsCorrect == Spec => []DccsAreSound
<1>1. TableInv => FromIsAsker
  BY DEF TableInv, Clean, Asked, FromIsAsker, InUse
<1>2. TableInv => OpenAsStatusSays
  BY DEF TableInv, Opens, Open, OpenAsStatusSays
<1>3. TableInv => DccsAreSound
  BY <1>1, <1>2 DEF DccsAreSound
<1> QED
  BY TableKept, <1>3, PTL

\* What the people on IRC see of the table is DccSessions: one chat and one
\* send for each nick, and each goes through its stages one by one.
THEOREM SessionsImplemented == Spec => ImplementsSessions
<1>1. Init => Sessions!Init
  BY DEF Init, Sessions!Init, Stages
<1>2. TableInv /\ [Next]_vars =>
        [Sessions!Next]_<<[n \in Nicks |-> Stages(n, Chat)], [n \in Nicks |-> Stages(n, Send)]>>
  <2> SUFFICES ASSUME TableInv, [Next]_vars PROVE Sessions!Next
    OBVIOUS
  <2>1. Steps(dcc, dcc')
    BY NextTable
  <2>2. ASSUME NEW n, NEW kind
        PROVE  /\ Stages(n, kind) = StagesOf(dcc, n, kind)
               /\ Stages(n, kind)' = StagesOf(dcc', n, kind)
    BY DEF Stages, StagesOf
  <2> QED
    BY <2>1, <2>2 DEF Steps, Sessions!Next, Chat, Send
<1> QED
  BY TableKept, <1>1, <1>2, PTL DEF Spec, ImplementsSessions, Sessions!Spec

=============================================================================
