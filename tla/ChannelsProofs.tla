---------------------------- MODULE ChannelsProofs ----------------------------
(***************************************************************************)
(* Proofs about Channels, for any channels, nicks, limits, refusals,       *)
(* queues, and numbers of changes, commands and lost connections.          *)
(***************************************************************************)
EXTENDS Channels, FiniteSetTheorems, SequenceLemmas

User == [nick : Nicks, op : BOOLEAN]

-----------------------------------------------------------------------------
(* The list of users.                                                         *)

\* The index of a nick is a place where it is, or 0 if there is none.
LEMMA IndexIs ==
  ASSUME NEW ch \in ChannelType, NEW n
  PROVE  /\ user_index(ch, n) = 0 \/ user_index(ch, n) \in 1..Len(ch.users)
<1> DEFINE is == {i \in 1..Len(ch.users) : ch.users[i].nick = n}
<1>1. user_index(ch, n) = IF is # {} THEN (CHOOSE x \in is : \A y \in is : x =< y) ELSE 0
  BY DEF user_index, SelectInSeq, Min
<1> QED
  <2>1. is \in SUBSET Nat
    OBVIOUS
  <2>2. CASE is # {}
    <3>1. \E x \in is : \A y \in is : x =< y
      BY <2>1, <2>2, LeastExists
    <3> QED
      BY <1>1, <2>2, <3>1
  <2> QED
    BY <1>1, <2>2

\* The fields of a channel.
LEMMA ChannelFields ==
  ASSUME NEW ch \in ChannelType
  PROVE  /\ ch.joined \in BOOLEAN /\ ch.users \in Seq(User) /\ ch.kick_nick \in Nicks \cup {NULL}
         /\ Len(ch.users) \in Nat
  BY DEF ChannelType, User

\* Channel::user_add: one user more, if there is room and he is not there.
LEMMA AddKeeps ==
  ASSUME NEW ch \in ChannelType, NEW n \in Nicks, NEW op \in BOOLEAN,
         C_USERS_MAX \in Nat, Len(ch.users) <= C_USERS_MAX
  PROVE  /\ user_add(ch, n, op) \in ChannelType /\ Len(user_add(ch, n, op).users) <= C_USERS_MAX
         /\ user_add(ch, n, op).joined = ch.joined
         /\ user_add(ch, n, op).kick_nick = ch.kick_nick
<1>1. ch.users \in Seq(User) /\ Len(ch.users) \in Nat
  BY ChannelFields
<1>2. [nick |-> n, op |-> op] \in User
  BY DEF User
<1>3. /\ Append(ch.users, [nick |-> n, op |-> op]) \in Seq(User)
      /\ Len(Append(ch.users, [nick |-> n, op |-> op])) = Len(ch.users) + 1
  BY <1>1, <1>2
<1> DEFINE us == Append(ch.users, [nick |-> n, op |-> op])
<1> HIDE DEF us
<1>4. [ch EXCEPT !.users = us] \in ChannelType /\ [ch EXCEPT !.users = us].users = us
      /\ [ch EXCEPT !.users = us].joined = ch.joined
      /\ [ch EXCEPT !.users = us].kick_nick = ch.kick_nick
  <2>1. us \in Seq(User)
    BY <1>3 DEF us
  <2> QED
    BY <2>1 DEF ChannelType, User
<1>5. \/ user_add(ch, n, op) = ch
      \/ Len(ch.users) # C_USERS_MAX /\ user_add(ch, n, op) = [ch EXCEPT !.users = us]
  BY DEF user_add, us
<1>6. Len(us) = Len(ch.users) + 1
  BY <1>3 DEF us
<1>7. Len(ch.users) # C_USERS_MAX => Len(us) <= C_USERS_MAX
  BY <1>1, <1>6
<1>8. CASE user_add(ch, n, op) = ch
  BY <1>8
<1>9. CASE Len(ch.users) # C_USERS_MAX /\ user_add(ch, n, op) = [ch EXCEPT !.users = us]
  BY <1>4, <1>7, <1>9
<1> QED
  BY <1>5, <1>8, <1>9

\* Channel::user_del: without him, and with who was last deleted.
LEMMA DelKeeps ==
  ASSUME NEW ch \in ChannelType, NEW n,
         C_USERS_MAX \in Nat, Len(ch.users) <= C_USERS_MAX
  PROVE  /\ user_del(ch, n) \in ChannelType /\ Len(user_del(ch, n).users) <= C_USERS_MAX
         /\ user_del(ch, n).joined = ch.joined
<1> DEFINE i == user_index(ch, n)
           us == RemoveAt(ch.users, i)
<1>1. ch.users \in Seq(User) /\ Len(ch.users) \in Nat /\ (i = 0 \/ i \in 1..Len(ch.users))
  BY ChannelFields, IndexIs
<1>2. user_del(ch, n) = IF i = 0 THEN ch ELSE [ch EXCEPT !.users = us]
  BY DEF user_del
<1> HIDE DEF i
<1>3. CASE i = 0
  BY <1>1, <1>2, <1>3
<1>4. CASE i \in 1..Len(ch.users)
  <2>1. us \in Seq(User) /\ Len(us) = Len(ch.users) - 1
    <3>1. SubSeq(ch.users, 1, i - 1) \in Seq(User) /\ Len(SubSeq(ch.users, 1, i - 1)) = i - 1
      BY <1>1, <1>4
    <3>2. SubSeq(ch.users, i + 1, Len(ch.users)) \in Seq(User)
          /\ Len(SubSeq(ch.users, i + 1, Len(ch.users))) = Len(ch.users) - i
      BY <1>1, <1>4
    <3>3. \A a, b \in Seq(User) : a \o b \in Seq(User) /\ Len(a \o b) = Len(a) + Len(b)
      OBVIOUS
    <3>4. us = SubSeq(ch.users, 1, i - 1) \o SubSeq(ch.users, i + 1, Len(ch.users))
      BY DEF RemoveAt
    <3>5. us \in Seq(User) /\ Len(us) = (i - 1) + (Len(ch.users) - i)
      BY <3>1, <3>2, <3>3, <3>4
    <3>6. (i - 1) + (Len(ch.users) - i) = Len(ch.users) - 1
      BY <1>1, <1>4
    <3> QED
      BY <3>5, <3>6
  <2> HIDE DEF us
  <2>2. [ch EXCEPT !.users = us] \in ChannelType /\ [ch EXCEPT !.users = us].users = us
        /\ [ch EXCEPT !.users = us].joined = ch.joined
    BY <2>1 DEF ChannelType, User
  <2>3. user_del(ch, n) = [ch EXCEPT !.users = us]
    BY <1>2, <1>4
  <2> QED
    BY <1>1, <2>1, <2>2, <2>3
<1> QED
  BY <1>1, <1>3, <1>4

\* A field of a user is changed.
LEMMA ChangeKeeps ==
  ASSUME NEW ch \in ChannelType, NEW i \in 1..Len(ch.users), NEW u \in User,
         C_USERS_MAX \in Nat, Len(ch.users) <= C_USERS_MAX
  PROVE  /\ [ch EXCEPT !.users = [ch.users EXCEPT ![i] = u]] \in ChannelType
         /\ Len([ch EXCEPT !.users = [ch.users EXCEPT ![i] = u]].users) <= C_USERS_MAX
         /\ [ch EXCEPT !.users = [ch.users EXCEPT ![i] = u]].joined = ch.joined
<1>1. ch.users \in Seq(User) /\ Len(ch.users) \in Nat
  BY ChannelFields
<1> DEFINE us == [ch.users EXCEPT ![i] = u]
<1>2. us \in Seq(User) /\ Len(us) = Len(ch.users)
  BY <1>1
<1> HIDE DEF us
<1>3. [ch EXCEPT !.users = us] \in ChannelType /\ [ch EXCEPT !.users = us].users = us
      /\ [ch EXCEPT !.users = us].joined = ch.joined
  BY <1>2 DEF ChannelType, User
<1> QED
  BY <1>1, <1>2, <1>3 DEF us

\* Channel::user_change_op changes op of one user.
LEMMA OpKeeps ==
  ASSUME NEW ch \in ChannelType, NEW n, NEW op \in BOOLEAN,
         C_USERS_MAX \in Nat, Len(ch.users) <= C_USERS_MAX
  PROVE  /\ user_change_op(ch, n, op) \in ChannelType
         /\ Len(user_change_op(ch, n, op).users) <= C_USERS_MAX
         /\ user_change_op(ch, n, op).joined = ch.joined
<1> DEFINE i == user_index(ch, n)
           u == [ch.users[i] EXCEPT !.op = op]
<1>1. ch.users \in Seq(User) /\ (i = 0 \/ i \in 1..Len(ch.users))
  BY ChannelFields, IndexIs
<1>2. user_change_op(ch, n, op) =
        IF i = 0 THEN ch ELSE [ch EXCEPT !.users = [ch.users EXCEPT ![i] = u]]
  BY DEF user_change_op
<1> HIDE DEF i
<1>3. CASE i = 0
  BY <1>2, <1>3
<1>4. CASE i # 0
  <2>1. i \in 1..Len(ch.users) /\ ch.users[i] \in User
    BY <1>1, <1>4
  <2>2. u \in User
    BY <2>1 DEF User
  <2> HIDE DEF u
  <2> QED
    BY <1>2, <1>4, <2>1, <2>2, ChangeKeeps
<1> QED
  BY <1>3, <1>4

\* Channel::user_change_nick changes the nick of one user.
LEMMA NickKeeps ==
  ASSUME NEW ch \in ChannelType, NEW n, NEW new \in Nicks,
         C_USERS_MAX \in Nat, Len(ch.users) <= C_USERS_MAX
  PROVE  /\ user_change_nick(ch, n, new) \in ChannelType
         /\ Len(user_change_nick(ch, n, new).users) <= C_USERS_MAX
         /\ user_change_nick(ch, n, new).joined = ch.joined
<1> DEFINE i == user_index(ch, n)
           u == [ch.users[i] EXCEPT !.nick = new]
<1>1. ch.users \in Seq(User) /\ (i = 0 \/ i \in 1..Len(ch.users))
  BY ChannelFields, IndexIs
<1>2. user_change_nick(ch, n, new) =
        IF i = 0 THEN ch ELSE [ch EXCEPT !.users = [ch.users EXCEPT ![i] = u]]
  BY DEF user_change_nick
<1> HIDE DEF i
<1>3. CASE i = 0
  BY <1>2, <1>3
<1>4. CASE i # 0
  <2>1. i \in 1..Len(ch.users) /\ ch.users[i] \in User
    BY <1>1, <1>4
  <2>2. u \in User
    BY <2>1 DEF User
  <2> HIDE DEF u
  <2> QED
    BY <1>2, <1>4, <2>1, <2>2, ChangeKeeps
<1> QED
  BY <1>3, <1>4

-----------------------------------------------------------------------------
(* The letters of a MODE.                                                     *)

\* What the loop over the letters may have made of ch.
ModeStates(ch) ==
  {st \in [ch : ChannelType, mode : BOOLEAN, pos : Nat] :
     Len(st.ch.users) <= C_USERS_MAX /\ st.ch.joined = ch.joined}

ModeStart(ch) == [ch |-> ch, mode |-> FALSE, pos |-> 1]

\* g is what the first k letters make of ch, one after the other.
Letters(g, ch, k) ==
  /\ g \in [0..k -> ModeStates(ch)] /\ g[0] = ModeStart(ch)
  /\ \A i \in 1..k : g[i] = ModeLetter(g[i - 1], m.modes[i])

\* One letter of a MODE.
LEMMA LetterKeeps ==
  ASSUME C_USERS_MAX \in Nat, NEW ch, NEW st \in ModeStates(ch), NEW l
  PROVE  ModeLetter(st, l) \in ModeStates(ch)
<1>1. /\ st.ch \in ChannelType /\ st.mode \in BOOLEAN /\ st.pos \in Nat
      /\ Len(st.ch.users) <= C_USERS_MAX /\ st.ch.joined = ch.joined
      /\ st \in [ch : ChannelType, mode : BOOLEAN, pos : Nat]
  BY DEF ModeStates
<1>2. CASE l \in {"+", "-"}
  <2> DEFINE b == l = "+"
  <2>1. ModeLetter(st, l) = [st EXCEPT !.mode = b]
    BY <1>2, Zenon DEF ModeLetter
  <2>2. b \in BOOLEAN
    BY Zenon
  <2> HIDE DEF b
  <2>3. [st EXCEPT !.mode = b] \in ModeStates(ch)
    BY <1>1, <2>2 DEF ModeStates
  <2> QED
    BY <2>1, <2>3
<1>3. CASE l = "o"
  <2> DEFINE new == user_change_op(st.ch, Arg(st.pos), st.mode)
  <2>1. ModeLetter(st, l) = [st EXCEPT !.ch = new, !.pos = st.pos + 1]
    BY <1>3 DEF ModeLetter
  <2>2. new \in ChannelType /\ Len(new.users) <= C_USERS_MAX /\ new.joined = ch.joined
    BY <1>1, OpKeeps
  <2> HIDE DEF new
  <2>3. [st EXCEPT !.ch = new, !.pos = st.pos + 1] \in ModeStates(ch)
    <3> DEFINE t == [st EXCEPT !.ch = new, !.pos = st.pos + 1]
    <3>1. t \in [ch : ChannelType, mode : BOOLEAN, pos : Nat] /\ t.ch = new
      <4>1. \A S : \A x \in [ch : S, mode : BOOLEAN, pos : Nat], c \in S, q \in Nat :
              LET y == [x EXCEPT !.ch = c, !.pos = q]
              IN  y \in [ch : S, mode : BOOLEAN, pos : Nat] /\ y.ch = c
        OBVIOUS
      <4>2. st.pos + 1 \in Nat
        BY <1>1
      <4> QED
        BY <1>1, <2>2, <4>1, <4>2
    <3> QED
      BY <2>2, <3>1 DEF ModeStates
  <2> QED
    BY <2>1, <2>3
<1>4. CASE l \notin {"+", "-", "o"}
  <2>1. ModeLetter(st, l) = [st EXCEPT !.pos = st.pos + 1]
    BY <1>4 DEF ModeLetter
  <2>2. [st EXCEPT !.pos = st.pos + 1] \in ModeStates(ch)
    BY <1>1 DEF ModeStates
  <2> QED
    BY <2>1, <2>2
<1> QED
  BY <1>2, <1>3, <1>4

\* There is such a g for each k: otherwise there were a least k without.
LEMMA LettersExist ==
  ASSUME C_USERS_MAX \in Nat, NEW ch \in ChannelType, Len(ch.users) <= C_USERS_MAX,
         NEW k \in Nat
  PROVE  \E g : Letters(g, ch, k)
<1> DEFINE without == {j \in Nat : ~ \E g : Letters(g, ch, j)}
<1>1. SUFFICES ASSUME without # {} PROVE FALSE
  OBVIOUS
<1>2. PICK j \in without : \A x \in without : j <= x
  BY <1>1, LeastExists
<1>3. ModeStart(ch) \in ModeStates(ch)
  BY DEF ModeStart, ModeStates
<1>4. CASE j = 0
  <2>1. Letters([i \in 0..0 |-> ModeStart(ch)], ch, 0)
    BY <1>3 DEF Letters
  <2> QED
    BY <1>2, <1>4, <2>1
<1>5. CASE j # 0
  <2>1. j \in Nat /\ j - 1 \in Nat /\ ~(j <= j - 1)
    BY <1>2, <1>5
  <2>2. PICK g : Letters(g, ch, j - 1)
    BY <1>2, <2>1
  <2> DEFINE h == [i \in 0..j |-> IF i = j THEN ModeLetter(g[j - 1], m.modes[j]) ELSE g[i]]
  <2>3. g[j - 1] \in ModeStates(ch) /\ \A i \in 0..(j - 1) : g[i] \in ModeStates(ch)
    BY <2>1, <2>2 DEF Letters
  <2>4. ModeLetter(g[j - 1], m.modes[j]) \in ModeStates(ch)
    BY <2>3, LetterKeeps
  <2>5. \A i \in 0..j : i # j => i \in 0..(j - 1)
    BY <2>1
  <2>6. h \in [0..j -> ModeStates(ch)]
    BY <2>3, <2>4, <2>5
  <2>7. h[0] = ModeStart(ch)
    BY <2>1, <2>2, <1>5 DEF Letters
  <2>8. ASSUME NEW i \in 1..j PROVE h[i] = ModeLetter(h[i - 1], m.modes[i])
    <3>1. CASE i = j
      <4>1. j \in 0..j /\ j - 1 \in 0..j /\ j - 1 # j
        BY <2>1
      <4>2. h[j] = ModeLetter(g[j - 1], m.modes[j]) /\ h[j - 1] = g[j - 1]
        BY <4>1
      <4> QED
        BY <3>1, <4>2
    <3>2. CASE i # j
      <4>1. i \in 0..j /\ i - 1 \in 0..j /\ i - 1 # j /\ i \in 1..(j - 1)
        BY <2>1, <3>2
      <4>2. h[i] = g[i] /\ h[i - 1] = g[i - 1]
        BY <3>2, <4>1
      <4> QED
        BY <2>2, <4>1, <4>2 DEF Letters
    <3> QED
      BY <3>1, <3>2
  <2> HIDE DEF h
  <2>9. Letters(h, ch, j)
    BY <2>6, <2>7, <2>8 DEF Letters
  <2> QED
    BY <1>2, <2>9
<1> QED
  BY <1>4, <1>5

\* What the loop over all letters makes of a channel is what comes last.
LEMMA LettersAre ==
  ASSUME C_USERS_MAX \in Nat, NEW ch \in ChannelType, Len(ch.users) <= C_USERS_MAX,
         Len(m.modes) \in Nat
  PROVE  \E g : Letters(g, ch, Len(m.modes)) /\ ModeLetters(ch) = g[Len(m.modes)].ch
<1> DEFINE n == Len(m.modes)
           Runs(g) == g = [i \in 0..n |-> IF i = 0 THEN [ch |-> ch, mode |-> FALSE, pos |-> 1]
                                          ELSE ModeLetter(g[i - 1], m.modes[i])]
           after == CHOOSE g : Runs(g)
<1>1. ModeLetters(ch) = after[n].ch
  BY DEF ModeLetters
<1>2. \E g : Runs(g)
  <2>1. PICK g : Letters(g, ch, n)
    BY LettersExist
  <2>2. g = [i \in 0..n |-> g[i]]
    BY <2>1 DEF Letters
  <2>3. \A i \in 0..n : g[i] = IF i = 0 THEN [ch |-> ch, mode |-> FALSE, pos |-> 1]
                                ELSE ModeLetter(g[i - 1], m.modes[i])
    <3>1. \A i \in 0..n : i # 0 => i \in 1..n
      OBVIOUS
    <3> QED
      BY <2>1, <3>1 DEF Letters, ModeStart
  <2> QED
    BY <2>2, <2>3
<1>3. Runs(after)
  BY <1>2, Zenon
<1> HIDE DEF after
<1>4. after[0] = ModeStart(ch) /\ \A i \in 1..n : after[i] = ModeLetter(after[i - 1], m.modes[i])
  <2>1. ASSUME NEW g, Runs(g)
        PROVE  \A i \in 0..n : g[i] = IF i = 0 THEN [ch |-> ch, mode |-> FALSE, pos |-> 1]
                                       ELSE ModeLetter(g[i - 1], m.modes[i])
    BY <2>1
  <2>2. \A i \in 0..n : after[i] = IF i = 0 THEN [ch |-> ch, mode |-> FALSE, pos |-> 1]
                                       ELSE ModeLetter(after[i - 1], m.modes[i])
    BY <1>3, <2>1, Zenon
  <2>3. 0 \in 0..n /\ \A i \in 1..n : i \in 0..n /\ i # 0
    OBVIOUS
  <2> QED
    BY <2>2, <2>3, Zenon DEF ModeStart
<1> DEFINE outside == {i \in 0..n : after[i] \notin ModeStates(ch)}
<1>5. outside = {}
  <2> SUFFICES ASSUME outside # {} PROVE FALSE
    OBVIOUS
  <2>1. outside \in SUBSET Nat
    OBVIOUS
  <2>2. PICK j \in outside : \A x \in outside : j <= x
    BY <2>1, LeastExists
  <2>3. ModeStart(ch) \in ModeStates(ch)
    BY DEF ModeStart, ModeStates
  <2>4. j \in 0..n /\ j # 0
    BY <1>4, <2>2, <2>3
  <2>5. j \in 1..n /\ j - 1 \in 0..n /\ ~(j <= j - 1)
    BY <2>4
  <2>6. after[j - 1] \in ModeStates(ch)
    BY <2>2, <2>5
  <2>7. after[j] \in ModeStates(ch)
    BY <1>4, <2>5, <2>6, LetterKeeps
  <2> QED
    BY <2>2, <2>7
<1>6. after \in [0..n -> ModeStates(ch)]
  <2>1. \E f : after = [i \in 0..n |-> f[i]]
    <3>1. after = [i \in 0..n |-> IF i = 0 THEN [ch |-> ch, mode |-> FALSE, pos |-> 1]
                                  ELSE ModeLetter(after[i - 1], m.modes[i])]
      BY <1>3
    <3>2. DOMAIN after = 0..n /\ after = [i \in DOMAIN after |-> after[i]]
      BY <3>1
    <3> QED
      BY <3>2
  <2> QED
    BY <1>5, <2>1
<1> QED
  BY <1>1, <1>4, <1>6 DEF Letters

\* A MODE changes nothing of a channel but who of its users has op.
LEMMA ModesKeep ==
  ASSUME C_USERS_MAX \in Nat, NEW ch \in ChannelType, Len(ch.users) <= C_USERS_MAX,
         Len(m.modes) \in Nat
  PROVE  /\ ModeLetters(ch) \in ChannelType /\ Len(ModeLetters(ch).users) <= C_USERS_MAX
         /\ ModeLetters(ch).joined = ch.joined
<1> DEFINE n == Len(m.modes)
<1>1. PICK g : Letters(g, ch, n) /\ ModeLetters(ch) = g[n].ch
  BY LettersAre
<1>2. n \in 0..n
  OBVIOUS
<1> HIDE DEF n
<1>3. g[n] \in ModeStates(ch)
  BY <1>1, <1>2 DEF Letters
<1> QED
  BY <1>1, <1>3 DEF ModeStates

-----------------------------------------------------------------------------
(* Types.                                                                     *)

\* The lines to the bot, and those to the server.
Lines ==
  [ev : {"JOIN", "PART"}, c : Names, who : Nicks]
    \cup [ev : {"KICK"}, c : Names, by : Nicks, who : Nicks]
    \cup [ev : {"QUIT"}, who : Nicks]
    \cup [ev : {"NICK"}, who : Nicks, new : Nicks]
    \cup [ev : {"MODE"}, c : Names, modes : Seq({"+", "-", "o", "b", "n"}),
          args : Seq(Nicks \cup {NULL})]
    \cup [ev : {"PING"}]
    \cup [ev : {"ENDOFWHO", "BANNED", "TOOMANY"}, c : Names]
    \cup [ev : {"WHOREPLY"}, c : Names, who : Nicks, op : BOOLEAN]

Commands ==
  [cmd : {"JOIN", "PART", "WHO"}, c : Names] \cup [cmd : {"KICK"}, c : Names, who : Nicks]

\* A table of channels.
Table(chs) ==
  /\ DOMAIN chs \subseteq Names /\ IsFiniteSet(DOMAIN chs)
  /\ Cardinality(DOMAIN chs) <= CHANNEL_MAX
  /\ chs \in [DOMAIN chs -> ChannelType]
  /\ \A c \in DOMAIN chs : Len(chs[c].users) <= C_USERS_MAX

\* TypeOK, with what it rests on.
CType ==
  /\ Table(channels) /\ nick \in Nicks /\ me \in Nicks
  /\ inbox \in Seq(Lines) /\ outbox \in Seq(Commands)
  /\ members \in [Names -> SUBSET Nicks] /\ ops \in [Names -> SUBSET Nicks]
  /\ \A c \in Names : ops[c] \subseteq members[c]
  /\ owed \in [Names -> Nicks \cup {NULL}] /\ races \subseteq {"who", "refusal", "first", "mode"}

\* The invariant has the types.
LEMMA TypesHold == CType => TypeOK
  BY DEF CType, TypeOK, Table

\* The fields of a line.
LEMMA LineFields ==
  ASSUME NEW l \in Lines
  PROVE  /\ l.ev \in {"JOIN", "PART", "KICK"} => l.c \in Names /\ l.who \in Nicks
         /\ l.ev = "KICK" => l.by \in Nicks
         /\ l.ev = "QUIT" => l.who \in Nicks
         /\ l.ev = "NICK" => l.who \in Nicks /\ l.new \in Nicks
         /\ l.ev = "MODE" => l.c \in Names /\ Len(l.modes) \in Nat
         /\ l.ev \in {"ENDOFWHO", "BANNED", "TOOMANY"} => l.c \in Names
         /\ l.ev = "WHOREPLY" => l.c \in Names /\ l.who \in Nicks /\ l.op \in BOOLEAN
<1>1. CASE l \in [ev : {"JOIN", "PART"}, c : Names, who : Nicks]
  BY <1>1
<1>2. CASE l \in [ev : {"KICK"}, c : Names, by : Nicks, who : Nicks]
  BY <1>2
<1>3. CASE l \in [ev : {"QUIT"}, who : Nicks]
  BY <1>3
<1>4. CASE l \in [ev : {"NICK"}, who : Nicks, new : Nicks]
  BY <1>4
<1>5. CASE l \in [ev : {"MODE"}, c : Names, modes : Seq({"+", "-", "o", "b", "n"}),
                  args : Seq(Nicks \cup {NULL})]
  BY <1>5
<1>6. CASE l \in [ev : {"PING"}]
  BY <1>6
<1>7. CASE l \in [ev : {"ENDOFWHO", "BANNED", "TOOMANY"}, c : Names]
  BY <1>7
<1>8. CASE l \in [ev : {"WHOREPLY"}, c : Names, who : Nicks, op : BOOLEAN]
  BY <1>8
<1> QED
  BY <1>1, <1>2, <1>3, <1>4, <1>5, <1>6, <1>7, <1>8 DEF Lines

\* The fields of a command.
LEMMA CommandFields ==
  ASSUME NEW l \in Commands
  PROVE  l.c \in Names /\ (l.cmd = "KICK" => l.who \in Nicks)
  BY DEF Commands

\* What is said and asked.
LEMMA IsLine ==
  ASSUME NEW c \in Names, NEW n \in Nicks, NEW k \in Nicks
  PROVE  /\ [ev |-> "JOIN", c |-> c, who |-> n] \in Lines
         /\ [ev |-> "PART", c |-> c, who |-> n] \in Lines
         /\ [ev |-> "KICK", c |-> c, by |-> k, who |-> n] \in Lines
         /\ [ev |-> "QUIT", who |-> n] \in Lines
         /\ [ev |-> "NICK", who |-> n, new |-> k] \in Lines
         /\ [ev |-> "PING"] \in Lines
         /\ [ev |-> "ENDOFWHO", c |-> c] \in Lines
         /\ [ev |-> "BANNED", c |-> c] \in Lines /\ [ev |-> "TOOMANY", c |-> c] \in Lines
         /\ \A b \in BOOLEAN : [ev |-> "WHOREPLY", c |-> c, who |-> n, op |-> b] \in Lines
  BY DEF Lines

\* A NICK is a line.
LEMMA IsNickLine ==
  ASSUME NEW n \in Nicks, NEW k \in Nicks
  PROVE  [ev |-> "QUIT", who |-> n] \in Lines /\ [ev |-> "NICK", who |-> n, new |-> k] \in Lines
  BY DEF Lines

\* Sequences of up to three.
LEMMA Short ==
  ASSUME NEW S, NEW x \in S, NEW y \in S, NEW z \in S
  PROVE  <<x>> \in Seq(S) /\ <<x, y>> \in Seq(S) /\ <<x, y, z>> \in Seq(S)
  OBVIOUS

\* JOIN, PART, WHO and KICK are commands.
LEMMA IsCommand ==
  ASSUME NEW c \in Names, NEW n \in Nicks
  PROVE  /\ [cmd |-> "JOIN", c |-> c] \in Commands /\ [cmd |-> "PART", c |-> c] \in Commands
         /\ [cmd |-> "WHO", c |-> c] \in Commands
         /\ [cmd |-> "KICK", c |-> c, who |-> n] \in Commands
  BY DEF Commands

\* A finite set as a sequence.
LEMMA SetAsSeq ==
  ASSUME NEW S, IsFiniteSet(S)
  PROVE  SetToSeq(S) \in Seq(S) /\ \A x : Has(SetToSeq(S), x) => x \in S
<1>1. Cardinality(S) \in Nat /\ ExistsBijection(1..Cardinality(S), S)
  BY FS_CardinalityType
<1>2. PICK f \in [1..Cardinality(S) -> S] : IsInjective(f)
  BY <1>1 DEF ExistsBijection, Bijection, Injection, IsInjective
<1>3. SetToSeq(S) \in [1..Cardinality(S) -> S]
  BY <1>2, Zenon DEF SetToSeq
<1> QED
  BY <1>1, <1>3, SeqDef DEF Has

\* What may become of a queue.
LEMMA QueueGrows ==
  ASSUME NEW S, NEW s \in Seq(S)
  PROVE  /\ \A l \in S : Append(s, l) \in Seq(S) /\ <<l>> \in Seq(S)
         /\ \A t \in Seq(S) : s \o t \in Seq(S)
         /\ << >> \in Seq(S) /\ s \o << >> = s
         /\ s # << >> => Tail(s) \in Seq(S) /\ Head(s) \in S
  OBVIOUS

\* What somebody does leaves the bot's side alone.
LEMMA PersonTypes == ASSUME CType, Person PROVE CType'
<1> USE DEF PersonActs, Tell, Forget, bot
<1>1. /\ inbox \in Seq(Lines)
      /\ members \in [Names -> SUBSET Nicks] /\ ops \in [Names -> SUBSET Nicks]
      /\ \A c \in Names : ops[c] \subseteq members[c]
      /\ me \in Nicks /\ owed \in [Names -> Nicks \cup {NULL}]
      /\ races \subseteq {"who", "refusal", "first", "mode"}
  BY DEF CType
<1>2. ASSUME UNCHANGED <<bot, outbox>>, me' \in Nicks, races' \subseteq {"who", "refusal", "first", "mode"},
             inbox' \in Seq(Lines), owed' \in [Names -> Nicks \cup {NULL}],
             members' \in [Names -> SUBSET Nicks], ops' \in [Names -> SUBSET Nicks],
             \A c \in Names : ops'[c] \subseteq members'[c]
      PROVE  CType'
  BY <1>2, Zenon DEF CType, Table, bot
<1>3. ASSUME NEW l \in Lines PROVE Append(inbox, l) \in Seq(Lines)
  BY <1>1
<1>4. ASSUME NEW c \in Names, NEW n \in Nicks, Joins(c, n) PROVE CType'
  <2>1. inbox' \in Seq(Lines)
    BY <1>1, <1>3, <1>4, IsLine DEF Joins
  <2>2. /\ members' \in [Names -> SUBSET Nicks] /\ ops' \in [Names -> SUBSET Nicks]
        /\ \A d \in Names : ops'[d] \subseteq members'[d]
    BY <1>1, <1>4 DEF Joins
  <2> QED
    BY <1>1, <1>2, <1>4, <2>1, <2>2 DEF Joins
<1>5. ASSUME NEW c \in Names, NEW n \in Nicks, Leaves(c, n) PROVE CType'
  <2>1. inbox' \in Seq(Lines)
    BY <1>1, <1>3, <1>5, IsLine DEF Leaves
  <2>2. /\ members' \in [Names -> SUBSET Nicks] /\ ops' \in [Names -> SUBSET Nicks]
        /\ \A d \in Names : ops'[d] \subseteq members'[d]
    BY <1>1, <1>5 DEF Leaves
  <2> QED
    BY <1>1, <1>2, <1>5, <2>1, <2>2 DEF Leaves
<1>6. ASSUME NEW n \in Nicks, Quits(n) PROVE CType'
  <2>1. inbox' \in Seq(Lines)
    BY <1>1, <1>3, <1>6, IsNickLine DEF Quits
  <2>2. /\ members' \in [Names -> SUBSET Nicks] /\ ops' \in [Names -> SUBSET Nicks]
        /\ \A d \in Names : ops'[d] \subseteq members'[d]
    BY <1>1, <1>6 DEF Quits
  <2> QED
    BY <1>1, <1>2, <1>6, <2>1, <2>2 DEF Quits
<1>7. ASSUME NEW n \in Nicks, NEW new \in Nicks, Renames(n, new) PROVE CType'
  <2>1. inbox' \in Seq(Lines)
    BY <1>1, <1>3, <1>7, IsNickLine DEF Renames
  <2>2. /\ members' \in [Names -> SUBSET Nicks] /\ ops' \in [Names -> SUBSET Nicks]
        /\ \A d \in Names : ops'[d] \subseteq members'[d]
    BY <1>1, <1>7 DEF Renames
  <2>3. me' \in Nicks /\ owed' \in [Names -> Nicks \cup {NULL}]
    BY <1>1, <1>7 DEF Renames
  <2> QED
    BY <1>1, <1>2, <1>7, <2>1, <2>2, <2>3 DEF Renames
<1>8. ASSUME NEW c \in Names, NEW by \in Nicks, NEW n \in Nicks, Kicks(c, by, n) PROVE CType'
  <2>1. inbox' \in Seq(Lines)
    BY <1>1, <1>3, <1>8, IsLine DEF Kicks
  <2>2. /\ members' \in [Names -> SUBSET Nicks] /\ ops' \in [Names -> SUBSET Nicks]
        /\ \A d \in Names : ops'[d] \subseteq members'[d]
    BY <1>1, <1>8 DEF Kicks
  <2>3. owed' \in [Names -> Nicks \cup {NULL}]
    BY <1>1, <1>8 DEF Kicks
  <2> QED
    BY <1>1, <1>2, <1>8, <2>1, <2>2, <2>3 DEF Kicks
<1>9. ASSUME NEW c \in Names, NEW by \in Nicks, NEW n \in Nicks, NEW sign \in {"+", "-"},
             NEW before \in Beside, SetsMode(c, by, sign, before, n)
      PROVE  CType'
  <2> DEFINE l == [ev |-> "MODE", c |-> c,
                   modes |-> IF before = "none" THEN <<sign, "o">> ELSE <<sign, before, "o">>,
                   args |-> IF before = "b" THEN <<NULL, n>> ELSE <<n>>]
  <2>1. l \in Lines
    <3>1. before \in {"none", "b", "n"}
      BY ChannelsAssumption
    <3>2. (IF before = "none" THEN <<sign, "o">> ELSE <<sign, before, "o">>)
            \in Seq({"+", "-", "o", "b", "n"})
      <4>2. sign \in {"+", "-", "o", "b", "n"} /\ "o" \in {"+", "-", "o", "b", "n"}
        OBVIOUS
      <4>3. CASE before = "none"
        <5>1. <<sign, "o">> \in Seq({"+", "-", "o", "b", "n"})
          BY <4>2, Short, Zenon
        <5> QED
          BY <4>3, <5>1, Zenon
      <4>4. CASE before # "none"
        <5>1. before \in {"+", "-", "o", "b", "n"}
          BY <3>1, <4>4
        <5>2. <<sign, before, "o">> \in Seq({"+", "-", "o", "b", "n"})
          BY <4>2, <5>1, Short, Zenon
        <5> QED
          BY <4>4, <5>2, Zenon
      <4> QED
        BY <4>3, <4>4
    <3>3. (IF before = "b" THEN <<NULL, n>> ELSE <<n>>) \in Seq(Nicks \cup {NULL})
      <4>1. n \in Nicks \cup {NULL} /\ NULL \in Nicks \cup {NULL}
        OBVIOUS
      <4>2. <<NULL, n>> \in Seq(Nicks \cup {NULL}) /\ <<n>> \in Seq(Nicks \cup {NULL})
        BY <4>1, Short, Zenon
      <4> QED
        BY <4>2, Zenon
    <3> QED
      BY <3>2, <3>3 DEF Lines
  <2>2. inbox' \in Seq(Lines)
    BY <1>1, <1>3, <1>9, <2>1 DEF SetsMode
  <2>3. ops' \in [Names -> SUBSET Nicks] /\ \A d \in Names : ops'[d] \subseteq members[d]
    BY <1>1, <1>9 DEF SetsMode
  <2>4. races' \subseteq {"who", "refusal", "first", "mode"}
    BY <1>1, <1>9 DEF SetsMode
  <2> QED
    BY <1>1, <1>2, <1>9, <2>2, <2>3, <2>4 DEF SetsMode
<1> QED
  BY <1>4, <1>5, <1>6, <1>7, <1>8, <1>9 DEF Person

\* JOIN for some of the channels of a table, and the answer to WHO.
LEMMA JoinAllIs ==
  ASSUME NEW chs, Table(chs)
  PROVE  /\ JoinAll(chs) \in Seq(Commands)
         /\ \A x : Has(JoinAll(chs), x) => \E c \in DOMAIN chs : x = [cmd |-> "JOIN", c |-> c]
         /\ \A x : Has(JoinAll(chs), x) => x.cmd = "JOIN" /\ ~chs[x.c].joined
<1> DEFINE D == {d \in DOMAIN chs : ~chs[d].joined}
           S == {[cmd |-> "JOIN", c |-> c] : c \in D}
<1>1. IsFiniteSet(D)
  BY FS_Subset DEF Table
<1>2. IsFiniteSet(S)
  <2>1. [c \in D |-> [cmd |-> "JOIN", c |-> c]] \in Surjection(D, S)
    BY DEF Surjection
  <2> HIDE DEF S
  <2> QED
    BY <1>1, <2>1, FS_Surjection
<1>3. SetToSeq(S) \in Seq(S) /\ \A x : Has(SetToSeq(S), x) => x \in S
  BY <1>2, SetAsSeq, Zenon
<1>4. S \subseteq Commands
  BY IsCommand DEF Table, Commands
<1>5. SetToSeq(S) \in Seq(Commands)
  <2> HIDE DEF S
  <2> QED
    BY <1>3, <1>4
<1>6. JoinAll(chs) = SetToSeq(S)
  BY Zenon DEF JoinAll
<1>7. \A x \in S : /\ \E c \in DOMAIN chs : x = [cmd |-> "JOIN", c |-> c]
                   /\ x.cmd = "JOIN" /\ ~chs[x.c].joined
  OBVIOUS
<1> HIDE DEF S
<1> QED
  BY <1>3, <1>5, <1>6, <1>7, Zenon

\* The answers to WHO.
Replies(c) ==
  SetToSeq({[ev |-> "WHOREPLY", c |-> c, who |-> n, op |-> n \in ops[c]] : n \in members[c]})

\* The answers to WHO are lines.
LEMMA RepliesAre ==
  ASSUME CType, NEW c \in Names
  PROVE  /\ Replies(c) \in Seq(Lines)
         /\ \A i \in DOMAIN Replies(c) : Replies(c)[i].ev = "WHOREPLY"
<1> DEFINE R(n) == [ev |-> "WHOREPLY", c |-> c, who |-> n, op |-> n \in ops[c]]
           S == {R(n) : n \in members[c]}
<1>1. members[c] \subseteq Nicks /\ IsFiniteSet(members[c])
  BY FS_Subset, ChannelsAssumption DEF CType
<1>2. IsFiniteSet(S)
  <2>1. [n \in members[c] |-> R(n)] \in Surjection(members[c], S)
    BY DEF Surjection
  <2> HIDE DEF S
  <2> QED
    BY <1>1, <2>1, FS_Surjection
<1>3. SetToSeq(S) \in Seq(S)
  BY <1>2, SetAsSeq, Zenon
<1>4. \A n \in Nicks : R(n) \in Lines /\ R(n).ev = "WHOREPLY"
  <2> TAKE n \in Nicks
  <2>1. (n \in ops[c]) \in BOOLEAN
    OBVIOUS
  <2>2. R(n) \in Lines
    BY <2>1, IsLine, Zenon
  <2>3. R(n).ev = "WHOREPLY"
    OBVIOUS
  <2> QED
    BY <2>2, <2>3
<1> HIDE DEF R
<1>5. \A x \in S : x \in Lines /\ x.ev = "WHOREPLY"
  BY <1>1, <1>4
<1>6. Replies(c) = SetToSeq(S)
  BY Zenon DEF Replies, R
<1> HIDE DEF S
<1> QED
  BY <1>3, <1>5, <1>6

\* The server answers, or sends a PING.
LEMMA ServerTypes == ASSUME CType, ServerAnswers \/ Ping PROVE CType'
<1> USE DEF Asked, Answers, bot, server, history
<1>1. /\ inbox \in Seq(Lines) /\ outbox \in Seq(Commands)
      /\ members \in [Names -> SUBSET Nicks] /\ ops \in [Names -> SUBSET Nicks]
      /\ \A c \in Names : ops[c] \subseteq members[c]
      /\ me \in Nicks /\ owed \in [Names -> Nicks \cup {NULL}]
      /\ races \subseteq {"who", "refusal", "first", "mode"}
  BY DEF CType
<1>2. ASSUME UNCHANGED <<bot, me>>, races' \subseteq {"who", "refusal", "first", "mode"},
             inbox' \in Seq(Lines), outbox' \in Seq(Commands),
             owed' \in [Names -> Nicks \cup {NULL}],
             members' \in [Names -> SUBSET Nicks], ops' \in [Names -> SUBSET Nicks],
             \A c \in Names : ops'[c] \subseteq members'[c]
      PROVE  CType'
  BY <1>1, <1>2, Zenon DEF CType, Table, bot
<1>3. outbox # << >> => /\ Tail(outbox) \in Seq(Commands) /\ Head(outbox).c \in Names
                        /\ Head(outbox).cmd = "KICK" => Head(outbox).who \in Nicks
  BY <1>1, QueueGrows, CommandFields
<1>4. \A t \in Seq(Lines) : inbox \o t \in Seq(Lines)
  BY <1>1
<1>5. \A l \in Lines : <<l>> \in Seq(Lines)
  BY <1>1, QueueGrows
<1>6. ASSUME NEW c \in Names, Accept(c) PROVE CType'
  <2>1. inbox' \in Seq(Lines)
    BY <1>1, <1>4, <1>5, <1>6, IsLine DEF Accept
  <2>2. /\ members' \in [Names -> SUBSET Nicks] /\ ops' \in [Names -> SUBSET Nicks]
        /\ \A d \in Names : ops'[d] \subseteq members'[d]
    BY <1>1, <1>6 DEF Accept
  <2>3. races' \subseteq {"who", "refusal", "first", "mode"}
    BY <1>1, <1>6 DEF Accept
  <2> QED
    BY <1>1, <1>2, <1>3, <1>6, <2>1, <2>2, <2>3 DEF Accept
<1>7. ASSUME NEW c \in Names, Refuse(c) PROVE CType'
  <2>1. Refusals \subseteq {"BANNED", "TOOMANY"}
    BY ChannelsAssumption
  <2>2. PICK why \in Refusals : inbox' = inbox \o <<[ev |-> why, c |-> c]>>
    BY <1>7 DEF Refuse
  <2>3. [ev |-> "BANNED", c |-> c] \in Lines /\ [ev |-> "TOOMANY", c |-> c] \in Lines
    BY <1>1, IsLine
  <2>5. [ev |-> why, c |-> c] \in Lines
    <3>1. why = "BANNED" \/ why = "TOOMANY"
      BY <2>1, <2>2
    <3> QED
      BY <2>3, <3>1
  <2>4. inbox' \in Seq(Lines)
    BY <1>1, <2>2, <2>5, QueueGrows
  <2> QED
    BY <1>1, <1>2, <1>3, <1>7, <2>4 DEF Refuse
<1>8. CASE Ignore
  BY <1>1, <1>2, <1>3, <1>8 DEF Ignore
<1>9. CASE Part
  <2> DEFINE c == Head(outbox).c
  <2>1. c \in Names
    BY <1>3, <1>9 DEF Part
  <2>2. /\ inbox' = inbox \o <<[ev |-> "PART", c |-> c, who |-> me]>>
        /\ members' = [members EXCEPT ![c] = @ \ {me}] /\ ops' = [ops EXCEPT ![c] = @ \ {me}]
    BY <1>9 DEF Part
  <2>3. inbox' \in Seq(Lines)
    BY <1>1, <1>4, <1>5, <2>1, <2>2, IsLine
  <2>4. /\ members' \in [Names -> SUBSET Nicks] /\ ops' \in [Names -> SUBSET Nicks]
        /\ \A d \in Names : ops'[d] \subseteq members'[d]
    BY <1>1, <2>1, <2>2
  <2> QED
    BY <1>1, <1>2, <1>3, <1>9, <2>3, <2>4 DEF Part
<1>10. CASE Who
  <2> DEFINE c == Head(outbox).c
             end == <<[ev |-> "ENDOFWHO", c |-> c]>>
  <2>1. c \in Names
    BY <1>3, <1>10 DEF Who
  <2>2. end \in Seq(Lines) /\ Replies(c) \in Seq(Lines)
    BY <1>1, <1>5, <2>1, IsLine, RepliesAre
  <2>3. inbox' = inbox \o (Replies(c) \o end) \/ inbox' = inbox \o end
    BY <1>10, Zenon DEF Who, Replies
  <2> HIDE DEF end, c
  <2>4. Replies(c) \o end \in Seq(Lines)
    BY <2>2
  <2>5. inbox' \in Seq(Lines)
    BY <1>4, <2>2, <2>3, <2>4
  <2> QED
    BY <1>1, <1>2, <1>3, <1>10, <2>5 DEF Who
<1>11. CASE Kick
  <2> DEFINE c == Head(outbox).c
             n == Head(outbox).who
  <2>1. c \in Names /\ n \in Nicks /\ outbox' \in Seq(Commands)
        /\ UNCHANGED <<bot, me>> /\ races' = races
    BY <1>3, <1>11 DEF Kick
  <2>2. CASE me \in ops[c] /\ n \in members[c]
    <3>1. /\ inbox' = inbox \o <<[ev |-> "KICK", c |-> c, by |-> me, who |-> n]>>
          /\ members' = [members EXCEPT ![c] = @ \ {n}] /\ ops' = [ops EXCEPT ![c] = @ \ {n}]
          /\ owed' = [d \in Names |-> IF d \in {c} /\ owed[d] = n THEN NULL ELSE owed[d]]
      BY <1>11, <2>2 DEF Kick, Forget
    <3>2. inbox' \in Seq(Lines)
      BY <1>1, <1>4, <1>5, <2>1, <3>1, IsLine
    <3>3. /\ members' \in [Names -> SUBSET Nicks] /\ ops' \in [Names -> SUBSET Nicks]
          /\ \A d \in Names : ops'[d] \subseteq members'[d]
      BY <1>1, <2>1, <3>1
    <3>4. owed' \in [Names -> Nicks \cup {NULL}]
      BY <1>1, <3>1
    <3> QED
      BY <1>1, <1>2, <2>1, <3>2, <3>3, <3>4
  <2>3. CASE ~(me \in ops[c] /\ n \in members[c])
    <3>1. UNCHANGED <<inbox, members, ops, owed>>
      BY <1>11, <2>3 DEF Kick
    <3> QED
      BY <1>1, <1>2, <2>1, <3>1
  <2> QED
    BY <2>2, <2>3
<1>12. CASE Ping
  <2>1. inbox' \in Seq(Lines)
    <3>1. [ev |-> "PING"] \in Lines
      BY DEF Lines
    <3> QED
      BY <1>1, <1>12, <3>1, QueueGrows DEF Ping
  <2> QED
    BY <1>1, <1>2, <1>12, <2>1 DEF Ping
<1> QED
  BY <1>6, <1>7, <1>8, <1>9, <1>10, <1>11, <1>12 DEF ServerAnswers

\* A channel that the bot is in or out of, and one that remembers nobody.
LEMMA JoinedKeeps ==
  ASSUME NEW ch \in ChannelType, NEW b \in BOOLEAN
  PROVE  /\ [ch EXCEPT !.joined = b] \in ChannelType /\ [ch EXCEPT !.joined = b].users = ch.users
         /\ [ch EXCEPT !.joined = b].joined = b
  BY DEF ChannelType

\* A channel that remembers whom the bot kicks back.
LEMMA KickNickKeeps ==
  ASSUME NEW ch \in ChannelType, NEW k \in Nicks \cup {NULL}
  PROVE  /\ [ch EXCEPT !.kick_nick = k] \in ChannelType
         /\ [ch EXCEPT !.kick_nick = k].users = ch.users
         /\ [ch EXCEPT !.kick_nick = k].joined = ch.joined
  BY DEF ChannelType

\* A channel that the bot is out of.
LEMMA OutKeeps ==
  ASSUME NEW ch \in ChannelType, C_USERS_MAX \in Nat
  PROVE  /\ Out(ch) \in ChannelType /\ Len(Out(ch).users) <= C_USERS_MAX
         /\ Out(ch).joined = FALSE
<1>1. << >> \in Seq(User) /\ Len(<< >>) = 0
  OBVIOUS
<1>2. Out(ch) = [ch EXCEPT !.users = << >>, !.joined = FALSE]
  BY DEF Out
<1>3. Out(ch) \in ChannelType /\ Out(ch).users = << >> /\ Out(ch).joined = FALSE
  BY <1>1, <1>2 DEF ChannelType, User
<1> QED
  BY <1>1, <1>3

\* One channel of the table is changed.
LEMMA TableStep ==
  ASSUME Table(channels), NEW ch, InChannel(ch),
         Known => ch \in ChannelType /\ Len(ch.users) <= C_USERS_MAX
  PROVE  Table(channels') /\ DOMAIN channels' = DOMAIN channels
  BY DEF Table, InChannel, Known

\* All channels of the table are changed.
LEMMA TableMap ==
  ASSUME Table(channels), NEW f, channels' = [c \in DOMAIN channels |-> f[c]],
         \A c \in DOMAIN channels : f[c] \in ChannelType /\ Len(f[c].users) <= C_USERS_MAX
  PROVE  Table(channels') /\ DOMAIN channels' = DOMAIN channels
  BY DEF Table

\* A channel is deleted.
LEMMA TableWithout ==
  ASSUME Table(channels), NEW c, ChannelsAssumption, channels' = Without(c)
  PROVE  Table(channels')
<1>1. /\ IsFiniteSet(DOMAIN channels \ {c})
      /\ Cardinality(DOMAIN channels \ {c}) <= Cardinality(DOMAIN channels)
  BY FS_Subset DEF Table
<1>2. DOMAIN channels' = DOMAIN channels \ {c}
  BY DEF Without
<1>3. Cardinality(DOMAIN channels') <= CHANNEL_MAX
  <2>1. /\ Cardinality(DOMAIN channels') \in Nat /\ Cardinality(DOMAIN channels) \in Nat
        /\ Cardinality(DOMAIN channels) <= CHANNEL_MAX
    BY <1>1, <1>2, FS_CardinalityType DEF Table
  <2> QED
    BY <1>1, <1>2, <2>1, ChannelsAssumption
<1> QED
  BY <1>1, <1>2, <1>3 DEF Table, Without

\* What a line makes of the bot.
LEMMA GotTypes ==
  ASSUME CType, NEW ev, Got(ev), Table(channels'), nick' \in Nicks, outbox' \in Seq(Commands),
         owed' \in [Names -> Nicks \cup {NULL}], races' \subseteq {"who", "refusal", "first", "mode"}
  PROVE  CType'
<1>1. inbox' \in Seq(Lines)
  BY QueueGrows DEF CType, Got
<1> QED
  BY <1>1 DEF CType, Got, server

\* The line that is handled.
LEMMA HeadFields ==
  ASSUME CType, NEW ev, Got(ev)
  PROVE  /\ m \in Lines /\ m.ev = ev
         /\ Known => channel \in ChannelType /\ Len(channel.users) <= C_USERS_MAX
         /\ C_USERS_MAX \in Nat /\ Len(inbox) # 0 /\ m = inbox[1]
<1>1. m \in Lines /\ m = inbox[1] /\ Len(inbox) # 0
  BY QueueGrows DEF CType, Got, m
<1> QED
  BY <1>1, ChannelsAssumption DEF CType, Table, Known, channel, Got, m

\* An event, of any kind.
LEMMA EventTypes == ASSUME CType, Event PROVE CType'
<1> USE DEF Say, history
<1>1. /\ Table(channels) /\ nick \in Nicks /\ outbox \in Seq(Commands)
      /\ owed \in [Names -> Nicks \cup {NULL}] /\ races \subseteq {"who", "refusal", "first", "mode"}
  BY DEF CType
<1>2. \A t \in Seq(Commands) : outbox \o t \in Seq(Commands)
  BY <1>1
<1>3. << >> \in Seq(Commands) /\ \A l \in Commands : <<l>> \in Seq(Commands)
  BY <1>1, QueueGrows
<1>4. CASE event_join
  <2>1. Got("JOIN")
    BY <1>4 DEF event_join
  <2>2. m \in Lines /\ m.ev = "JOIN" /\ m.c \in Names /\ m.who \in Nicks /\ C_USERS_MAX \in Nat
    BY <2>1, HeadFields, LineFields
  <2> DEFINE a == user_add(channel, m.who, FALSE)
             b == a.joined \/ m.who = nick
  <2>3. Known => a \in ChannelType /\ Len(a.users) <= C_USERS_MAX
    BY <2>1, <2>2, HeadFields, AddKeeps
  <2>4. b \in BOOLEAN
    OBVIOUS
  <2>5. InChannel([a EXCEPT !.joined = b])
    BY <1>4 DEF event_join
  <2> HIDE DEF a, b
  <2>6. Known => /\ [a EXCEPT !.joined = b] \in ChannelType
                 /\ Len([a EXCEPT !.joined = b].users) <= C_USERS_MAX
    BY <2>3, <2>4, JoinedKeeps
  <2>7. Table(channels')
    BY <1>1, <2>5, <2>6, TableStep
  <2>8. outbox' \in Seq(Commands)
    BY <1>2, <1>3, <1>4, <2>2, IsCommand DEF event_join
  <2> QED
    BY <1>1, <1>4, <2>1, <2>7, <2>8, GotTypes DEF event_join
<1>5. CASE event_quit
  <2>1. Got("QUIT")
    BY <1>5 DEF event_quit
  <2> DEFINE f == [c \in DOMAIN channels |-> user_del(channels[c], m.who)]
  <2>2. \A c \in DOMAIN channels : f[c] \in ChannelType /\ Len(f[c].users) <= C_USERS_MAX
    BY <1>1, DelKeeps, ChannelsAssumption DEF Table
  <2>3. channels' = [c \in DOMAIN channels |-> f[c]]
    BY <1>5 DEF event_quit
  <2> HIDE DEF f
  <2>4. Table(channels')
    BY <1>1, <2>2, <2>3, TableMap
  <2> QED
    BY <1>1, <1>5, <2>1, <2>4, GotTypes DEF event_quit
<1>6. CASE event_nick
  <2>1. Got("NICK")
    BY <1>6 DEF event_nick
  <2>2. m \in Lines /\ m.who \in Nicks /\ m.new \in Nicks
    BY <2>1, HeadFields, LineFields
  <2> DEFINE f == [c \in DOMAIN channels |-> user_change_nick(channels[c], m.who, m.new)]
  <2>3. \A c \in DOMAIN channels : f[c] \in ChannelType /\ Len(f[c].users) <= C_USERS_MAX
    BY <1>1, <2>2, NickKeeps, ChannelsAssumption DEF Table
  <2>4. channels' = [c \in DOMAIN channels |-> f[c]]
    BY <1>6 DEF event_nick
  <2> HIDE DEF f
  <2>5. Table(channels')
    BY <1>1, <2>3, <2>4, TableMap
  <2> QED
    BY <1>1, <1>6, <2>1, <2>2, <2>5, GotTypes DEF event_nick
<1>7. CASE event_kick
  <2>1. Got("KICK")
    BY <1>7 DEF event_kick
  <2>2. m \in Lines /\ m.c \in Names /\ m.who \in Nicks /\ m.by \in Nicks /\ C_USERS_MAX \in Nat
    BY <2>1, HeadFields, LineFields
  <2> DEFINE a == [Out(channel) EXCEPT !.kick_nick = m.by]
             d == user_del(channel, m.who)
             ch == IF nick = m.who THEN a ELSE d
  <2>3. Known => a \in ChannelType /\ Len(a.users) <= C_USERS_MAX
    <3>1. Known => Out(channel) \in ChannelType /\ Len(Out(channel).users) <= C_USERS_MAX
      BY <2>1, <2>2, HeadFields, OutKeeps
    <3>2. Known => a \in ChannelType /\ a.users = Out(channel).users
      BY <2>2, <3>1, KickNickKeeps
    <3> QED
      BY <2>2, <3>1, <3>2
  <2>4. Known => d \in ChannelType /\ Len(d.users) <= C_USERS_MAX
    BY <2>1, HeadFields, DelKeeps
  <2>5. InChannel(ch)
    BY <1>7 DEF event_kick
  <2> HIDE DEF a, d
  <2>6. Table(channels')
    BY <1>1, <2>3, <2>4, <2>5, TableStep
  <2>7. outbox' \in Seq(Commands)
    BY <1>2, <1>3, <1>7, <2>2, IsCommand DEF event_kick
  <2>8. owed' \in [Names -> Nicks \cup {NULL}]
    BY <1>1, <1>7 DEF event_kick
  <2> QED
    BY <1>1, <1>7, <2>1, <2>6, <2>7, <2>8, GotTypes DEF event_kick
<1>8. CASE event_part
  <2>1. Got("PART")
    BY <1>8 DEF event_part
  <2> DEFINE a == Out(channel)
             d == user_del(channel, m.who)
             ch == IF nick = m.who THEN a ELSE d
  <2>2. Known => a \in ChannelType /\ Len(a.users) <= C_USERS_MAX
    BY <2>1, HeadFields, OutKeeps, ChannelsAssumption
  <2>3. Known => d \in ChannelType /\ Len(d.users) <= C_USERS_MAX
    BY <2>1, HeadFields, DelKeeps
  <2>4. InChannel(ch)
    BY <1>8 DEF event_part
  <2> HIDE DEF a, d
  <2>5. Table(channels')
    BY <1>1, <2>2, <2>3, <2>4, TableStep
  <2> QED
    BY <1>1, <1>8, <2>1, <2>5, GotTypes DEF event_part
<1>9. CASE event_mode
  <2>1. Got("MODE")
    BY <1>9 DEF event_mode
  <2>2. m \in Lines /\ Len(m.modes) \in Nat
    BY <2>1, HeadFields, LineFields
  <2>3. Known => ModeLetters(channel) \in ChannelType
                 /\ Len(ModeLetters(channel).users) <= C_USERS_MAX
    BY <2>1, <2>2, HeadFields, ModesKeep
  <2>4. InChannel(ModeLetters(channel))
    BY <1>9 DEF event_mode
  <2>5. Table(channels')
    BY <1>1, <2>3, <2>4, TableStep
  <2> QED
    BY <1>1, <1>9, <2>1, <2>5, GotTypes DEF event_mode
<1>10. CASE event_ping
  <2>1. Got("PING") /\ channels' = channels /\ nick' = nick
    BY <1>10 DEF event_ping, bot
  <2>2. outbox' \in Seq(Commands)
    BY <1>1, <1>2, <1>10, JoinAllIs DEF event_ping
  <2> QED
    BY <1>1, <1>10, <2>1, <2>2, GotTypes DEF event_ping
<1> QED
  BY <1>4, <1>5, <1>6, <1>7, <1>8, <1>9, <1>10 DEF Event

\* A numeric reply, of any kind.
LEMMA ReplyTypes == ASSUME CType, Reply PROVE CType'
<1> USE DEF Say, history
<1>1. /\ Table(channels) /\ nick \in Nicks /\ outbox \in Seq(Commands)
      /\ owed \in [Names -> Nicks \cup {NULL}] /\ races \subseteq {"who", "refusal", "first", "mode"}
  BY DEF CType
<1>2. \A t \in Seq(Commands) : outbox \o t \in Seq(Commands)
  BY <1>1
<1>3. << >> \in Seq(Commands) /\ \A l \in Commands : <<l>> \in Seq(Commands)
  BY <1>1, QueueGrows
<1>4. CASE reply_whoreply
  <2>1. Got("WHOREPLY")
    BY <1>4 DEF reply_whoreply
  <2>2. m \in Lines /\ m.c \in Names /\ m.who \in Nicks /\ m.op \in BOOLEAN /\ C_USERS_MAX \in Nat
    BY <2>1, HeadFields, LineFields
  <2> DEFINE a == user_add(channel, m.who, m.op)
             k == IF a.kick_nick = m.who THEN NULL ELSE a.kick_nick
  <2>3. Known => a \in ChannelType /\ Len(a.users) <= C_USERS_MAX
    BY <2>1, <2>2, HeadFields, AddKeeps
  <2>4. InChannel([a EXCEPT !.kick_nick = k])
    BY <1>4 DEF reply_whoreply
  <2> HIDE DEF a
  <2>5. Known => k \in Nicks \cup {NULL}
    BY <2>3, ChannelFields
  <2> HIDE DEF k
  <2>6. Known => /\ [a EXCEPT !.kick_nick = k] \in ChannelType
                 /\ Len([a EXCEPT !.kick_nick = k].users) <= C_USERS_MAX
    BY <2>3, <2>5, KickNickKeeps
  <2>7. Table(channels')
    BY <1>1, <2>4, <2>6, TableStep
  <2>8. outbox' \in Seq(Commands)
    BY <1>2, <1>3, <1>4, <2>2, IsCommand DEF reply_whoreply
  <2>9. owed' \in [Names -> Nicks \cup {NULL}] /\ races' \subseteq {"who", "refusal", "first", "mode"}
    BY <1>1, <1>4 DEF reply_whoreply
  <2> QED
    BY <1>1, <1>4, <2>1, <2>7, <2>8, <2>9, GotTypes DEF reply_whoreply
<1>5. CASE reply_endofwho
  <2>1. Got("ENDOFWHO")
    BY <1>5 DEF reply_endofwho
  <2>2. Known => /\ [channel EXCEPT !.kick_nick = NULL] \in ChannelType
                 /\ Len([channel EXCEPT !.kick_nick = NULL].users) <= C_USERS_MAX
    <3>1. NULL \in Nicks \cup {NULL}
      OBVIOUS
    <3> QED
      BY <2>1, <3>1, HeadFields, KickNickKeeps
  <2>3. InChannel([channel EXCEPT !.kick_nick = NULL])
    BY <1>5 DEF reply_endofwho
  <2>4. Table(channels')
    BY <1>1, <2>2, <2>3, TableStep
  <2>5. races' \subseteq {"who", "refusal", "first", "mode"}
    BY <1>1, <1>5 DEF reply_endofwho
  <2> QED
    BY <1>1, <1>5, <2>1, <2>4, <2>5, GotTypes DEF reply_endofwho
<1>6. CASE reply_bannedfromchan
  <2>1. Got("BANNED") /\ channels' = channels /\ nick' = nick
    BY <1>6 DEF reply_bannedfromchan, bot
  <2>2. m.c \in Names
    BY <2>1, HeadFields, LineFields
  <2>3. outbox' \in Seq(Commands)
    <3>1. <<[cmd |-> "JOIN", c |-> m.c]>> \in Seq(Commands)
      BY <1>3, <2>2 DEF Commands
    <3>2. outbox' = outbox \o <<[cmd |-> "JOIN", c |-> m.c]>> \/ outbox' = outbox \o << >>
      BY <1>6, Zenon DEF reply_bannedfromchan
    <3> QED
      BY <1>2, <1>3, <3>1, <3>2
  <2> QED
    BY <1>1, <1>6, <2>1, <2>3, GotTypes DEF reply_bannedfromchan
<1>7. CASE reply_toomanychannels
  <2>1. Got("TOOMANY") /\ channels' = Without(m.c)
    BY <1>7 DEF reply_toomanychannels
  <2>2. Table(channels')
    BY <1>1, <2>1, TableWithout, ChannelsAssumption
  <2>3. owed' \in [Names -> Nicks \cup {NULL}] /\ races' \subseteq {"who", "refusal", "first", "mode"}
    BY <1>1, <1>7 DEF reply_toomanychannels
  <2> QED
    BY <1>1, <1>7, <2>1, <2>2, <2>3, GotTypes DEF reply_toomanychannels
<1> QED
  BY <1>4, <1>5, <1>6, <1>7 DEF Reply

\* !join and !part.
LEMMA CommandTypes == ASSUME CType, Command PROVE CType'
<1> USE DEF Say, Commanded, history
<1>1. /\ Table(channels) /\ nick \in Nicks /\ outbox \in Seq(Commands)
      /\ owed \in [Names -> Nicks \cup {NULL}] /\ races \subseteq {"who", "refusal", "first", "mode"}
  BY DEF CType
<1>2. ASSUME Table(channels'), UNCHANGED <<nick, inbox, server, races>>, outbox' \in Seq(Commands),
             owed' \in [Names -> Nicks \cup {NULL}]
      PROVE  CType'
  BY <1>2 DEF CType, server
<1>3. ASSUME NEW c \in Names PROVE /\ outbox \o <<[cmd |-> "JOIN", c |-> c]>> \in Seq(Commands)
                                   /\ outbox \o <<[cmd |-> "PART", c |-> c]>> \in Seq(Commands)
  <2>1. [cmd |-> "JOIN", c |-> c] \in Commands /\ [cmd |-> "PART", c |-> c] \in Commands
    BY DEF Commands
  <2> QED
    BY <1>1, <2>1, QueueGrows
<1>4. ASSUME NEW c \in Names, scriptcmd_join(c) PROVE CType'
  <2>1. /\ c \notin DOMAIN channels /\ Cardinality(DOMAIN channels) < CHANNEL_MAX
        /\ channels' = [d \in DOMAIN channels \cup {c} |-> IF d = c THEN NewChannel ELSE channels[d]]
    BY <1>4 DEF scriptcmd_join
  <2>2. NewChannel \in ChannelType /\ Len(NewChannel.users) = 0
    BY DEF NewChannel, ChannelType
  <2>3. /\ IsFiniteSet(DOMAIN channels \cup {c})
        /\ Cardinality(DOMAIN channels \cup {c}) = Cardinality(DOMAIN channels) + 1
        /\ Cardinality(DOMAIN channels) \in Nat
    BY <1>1, <2>1, FS_AddElement, FS_CardinalityType DEF Table
  <2>4. Cardinality(DOMAIN channels \cup {c}) <= CHANNEL_MAX
    BY <2>1, <2>3, ChannelsAssumption
  <2>5. Table(channels')
    BY <1>1, <2>1, <2>2, <2>3, <2>4, ChannelsAssumption DEF Table
  <2> QED
    BY <1>1, <1>2, <1>3, <1>4, <2>5 DEF scriptcmd_join
<1>5. ASSUME NEW c \in Names, scriptcmd_part(c) PROVE CType'
  <2>1. Table(channels')
    BY <1>1, <1>5, TableWithout, ChannelsAssumption DEF scriptcmd_part
  <2>2. owed' \in [Names -> Nicks \cup {NULL}]
    BY <1>1, <1>5 DEF scriptcmd_part
  <2> QED
    BY <1>1, <1>2, <1>3, <1>5, <2>1, <2>2 DEF scriptcmd_part
<1> QED
  BY <1>4, <1>5 DEF Command

\* A new connection.
LEMMA ReconnectTypes == ASSUME CType, Reconnect PROVE CType'
<1>1. /\ Table(channels) /\ me \in Nicks
      /\ members \in [Names -> SUBSET Nicks] /\ ops \in [Names -> SUBSET Nicks]
      /\ \A c \in Names : ops[c] \subseteq members[c]
      /\ owed \in [Names -> Nicks \cup {NULL}] /\ races \subseteq {"who", "refusal", "first", "mode"}
  BY DEF CType
<1> DEFINE f == [c \in DOMAIN channels |-> Out(channels[c])]
<1>2. \A c \in DOMAIN channels : f[c] \in ChannelType /\ Len(f[c].users) <= C_USERS_MAX
  BY <1>1, OutKeeps, ChannelsAssumption DEF Table
<1>3. channels' = [c \in DOMAIN channels |-> f[c]]
  BY DEF Reconnect
<1> HIDE DEF f
<1>4. Table(channels')
  BY <1>1, <1>2, <1>3, TableMap
<1>5. outbox' \in Seq(Commands)
  BY <1>4, JoinAllIs DEF Reconnect
<1>6. /\ members' \in [Names -> SUBSET Nicks] /\ ops' \in [Names -> SUBSET Nicks]
      /\ \A c \in Names : ops'[c] \subseteq members'[c]
  BY <1>1 DEF Reconnect
<1>7. nick' \in Nicks /\ me' \in Nicks /\ inbox' \in Seq(Lines) /\ races' = races
  BY ChannelsAssumption DEF Reconnect
<1>8. owed' \in [Names -> Nicks \cup {NULL}]
  BY <1>1 DEF Reconnect
<1> QED
  BY <1>1, <1>4, <1>5, <1>6, <1>7, <1>8 DEF CType

\* The state at the start.
LEMMA InitTypes == ASSUME Init PROVE CType
<1>1. Table(channels)
  <2>1. NewChannel \in ChannelType /\ Len(NewChannel.users) = 0
    BY DEF NewChannel, ChannelType
  <2> QED
    BY <2>1, ChannelsAssumption DEF Init, Table
<1>2. outbox \in Seq(Commands)
  <2>1. {d \in DOMAIN channels : ~channels[d].joined} = conf
    BY DEF Init, NewChannel
  <2>2. outbox = JoinAll(channels)
    BY <2>1, Zenon DEF Init, JoinAll
  <2> QED
    BY <1>1, <2>2, JoinAllIs
<1>3. /\ members \in [Names -> SUBSET Nicks] /\ ops \in [Names -> SUBSET Nicks]
      /\ \A c \in Names : ops[c] \subseteq members[c]
  <2>1. PICK o \in [Names -> SUBSET (Nicks \ {nick_orig})] :
          members = o /\ ops = [c \in Names |-> IF o[c] = {} THEN {} ELSE {CHOOSE n \in o[c] : TRUE}]
    BY DEF Init
  <2>2. \A c \in Names : o[c] # {} => (CHOOSE n \in o[c] : TRUE) \in o[c]
    OBVIOUS
  <2>3. \A c \in Names : ops[c] \subseteq members[c]
    BY <2>1, <2>2
  <2>4. members \in [Names -> SUBSET Nicks]
    BY <2>1
  <2>5. \A c \in Names : ops[c] \in SUBSET Nicks
    BY <2>3, <2>4
  <2> QED
    BY <2>1, <2>3, <2>4, <2>5
<1> QED
  BY <1>1, <1>2, <1>3, ChannelsAssumption DEF Init, CType

\* Every step.
LEMMA TypesKeep == ASSUME CType, [Next]_vars PROVE CType'
<1>1. CASE UNCHANGED vars
  BY <1>1 DEF CType, Table, vars, bot, server, history, bounds
<1> QED
  BY <1>1, PersonTypes, ServerTypes, ReplyTypes, EventTypes, CommandTypes, ReconnectTypes DEF Next

\* The table holds no more channels, and no channel more users, than there is
\* room for; whoever has op is in the channel: NetServer::channel_add,
\* Channel::user_add and what the handlers make of them, for any limits.
THEOREM TypeCorrect == Spec => []TypeOK
<1>1. Spec => []CType
  BY InitTypes, TypesKeep, PTL DEF Spec
<1> QED
  BY <1>1, TypesHold, PTL

-----------------------------------------------------------------------------
(* Where the bot is, and what its lines will tell it.                         *)

\* What somebody with nick n is called after line l.
Heard(l, n) == IF l.ev = "NICK" /\ l.who = n THEN l.new ELSE n

\* The nick of the bot before each of the lines of s: a at first, z at last.
Follows(v, s, a, z) ==
  /\ v[0] = a /\ v[Len(s)] = z
  /\ \A i \in 1..Len(s) : v[i] = Heard(s[i], v[i - 1])

\* The line tells one with nick n that it is in c now, or out of it.
About(l, n, c) == l.ev \in {"JOIN", "PART", "KICK"} /\ l.c = c /\ l.who = n

\* The lines of s that tell the bot so.
News(v, s, c) == {i \in 1..Len(s) : About(s[i], v[i - 1], c)}

\* The last of them is true, where M is the channels that the bot is in.
Told(v, s, c, M) ==
  \A i \in News(v, s, c) : (\A j \in News(v, s, c) : j <= i) => (s[i].ev = "JOIN" <=> c \in M)

Inside == {c \in Names : me \in members[c]}

JoinOf(c) == [cmd |-> "JOIN", c |-> c]
PartOf(c) == [cmd |-> "PART", c |-> c]

\* The table has it right, or will when the server has seen the bot's PART.
Agrees(c) ==
  /\ channels[c].joined => c \in Inside
  /\ "refusal" \notin races /\ c \in Inside => channels[c].joined \/ Has(outbox, PartOf(c))

\* The bot is not in a channel that it has no entry for, or is about to leave.
Outside(c) ==
  "refusal" \notin races =>
    \/ c \notin Inside /\ ~Has(outbox, JoinOf(c))
    \/ Ends(outbox, PartOf(c), {JoinOf(c)})

SelfWith(v) ==
  /\ Follows(v, inbox, nick, me)
  /\ \A c \in Names :
       /\ Told(v, inbox, c, Inside)
       /\ c \in DOMAIN channels /\ News(v, inbox, c) = {} => Agrees(c)
       /\ c \notin DOMAIN channels => Outside(c)

SelfInv == CType /\ \E v : SelfWith(v)

\* One line more.
LEMMA HearsMore ==
  ASSUME NEW s \in Seq(Lines), NEW v, NEW a, NEW z, Follows(v, s, a, z), NEW l \in Lines
  PROVE  \E w : /\ Follows(w, Append(s, l), a, Heard(l, z))
                /\ \A c :
                     /\ About(l, z, c) =>
                          /\ News(w, Append(s, l), c) # {}
                          /\ \A M : (l.ev = "JOIN" <=> c \in M) => Told(w, Append(s, l), c, M)
                     /\ ~About(l, z, c) =>
                          /\ News(w, Append(s, l), c) = News(v, s, c)
                          /\ \A M : Told(v, s, c, M) => Told(w, Append(s, l), c, M)
<1> DEFINE k == Len(s)
           t == Append(s, l)
           w == [i \in 0..(k + 1) |-> IF i = k + 1 THEN Heard(l, z) ELSE v[i]]
<1>1. k \in Nat /\ Len(t) = k + 1 /\ t[k + 1] = l /\ \A i \in 1..k : t[i] = s[i]
  OBVIOUS
<1>2. \A i \in 0..k : i \in 0..(k + 1) /\ i # k + 1
  BY <1>1
<1>3. \A i \in 0..k : w[i] = v[i]
  BY <1>2
<1>4. w[k + 1] = Heard(l, z)
  BY <1>1
<1> HIDE DEF w, t
<1>5. \A i \in 1..k : i \in 0..k /\ i - 1 \in 0..k
  BY <1>1
<1>6. w[k] = z /\ w[0] = a
  <2>1. k \in 0..k /\ 0 \in 0..k
    BY <1>1
  <2> QED
    BY <1>3, <2>1 DEF Follows
<1>7. (k + 1) - 1 = k /\ \A i \in 1..(k + 1) : i = k + 1 \/ i \in 1..k
  BY <1>1
<1> HIDE DEF k
<1>8. Follows(w, t, a, Heard(l, z))
  <2>1. \A i \in 1..k : v[i] = Heard(s[i], v[i - 1])
    BY DEF Follows, k
  <2>2. \A i \in 1..k : w[i] = Heard(t[i], w[i - 1])
    BY <1>1, <1>3, <1>5, <2>1
  <2>3. w[k + 1] = Heard(t[k + 1], w[(k + 1) - 1])
    BY <1>1, <1>4, <1>6, <1>7
  <2> QED
    BY <1>1, <1>4, <1>6, <1>7, <2>2, <2>3 DEF Follows
<1>9. ASSUME NEW c
      PROVE  /\ \A i \in 1..k : i \in News(w, t, c) <=> i \in News(v, s, c)
             /\ k + 1 \in News(w, t, c) <=> About(l, z, c)
             /\ News(w, t, c) \subseteq 1..(k + 1) /\ News(v, s, c) \subseteq 1..k
  <2>1. \A i \in 1..k : i \in 1..(k + 1) /\ k + 1 \in 1..(k + 1)
    BY <1>1
  <2>2. \A i \in 1..k : About(t[i], w[i - 1], c) <=> About(s[i], v[i - 1], c)
    BY <1>1, <1>3, <1>5
  <2>3. About(t[k + 1], w[(k + 1) - 1], c) <=> About(l, z, c)
    BY <1>1, <1>6, <1>7
  <2>4. k + 1 \in 1..(k + 1)
    BY <1>1
  <2> QED
    BY <1>1, <2>1, <2>2, <2>3, <2>4 DEF News, k
<1>10. ASSUME NEW c, About(l, z, c)
       PROVE  /\ News(w, t, c) # {}
              /\ \A M : (l.ev = "JOIN" <=> c \in M) => Told(w, t, c, M)
  <2>1. k + 1 \in News(w, t, c) /\ News(w, t, c) \subseteq 1..(k + 1)
    BY <1>9, <1>10
  <2>2. \A i \in 1..(k + 1) : k + 1 <= i => i = k + 1
    BY <1>1
  <2> QED
    BY <1>1, <2>1, <2>2 DEF Told
<1>11. ASSUME NEW c, ~About(l, z, c)
       PROVE  /\ News(w, t, c) = News(v, s, c)
              /\ \A M : Told(v, s, c, M) => Told(w, t, c, M)
  <2>1. News(w, t, c) = News(v, s, c)
    BY <1>7, <1>9, <1>11
  <2>2. \A i \in News(v, s, c) : t[i] = s[i]
    BY <1>1, <1>9
  <2> QED
    BY <2>1, <2>2 DEF Told
<1> QED
  BY <1>8, <1>10, <1>11 DEF t

\* Lines that change nobody's nick and tell of nobody who comes or goes.
Plain(l) == l.ev \notin {"NICK", "JOIN", "PART", "KICK"}

\* Such lines are added.
LEMMA HearsPlain ==
  ASSUME NEW s \in Seq(Lines), NEW v, NEW a, NEW z, Follows(v, s, a, z),
         NEW t \in Seq(Lines), \A i \in DOMAIN t : Plain(t[i])
  PROVE  \E w : /\ Follows(w, s \o t, a, z)
                /\ \A c : /\ News(w, s \o t, c) = News(v, s, c)
                          /\ \A M : Told(v, s, c, M) => Told(w, s \o t, c, M)
<1> DEFINE k == Len(s)
           n == Len(s) + Len(t)
           u == s \o t
           w == [i \in 0..n |-> IF i \in 1..k THEN v[i] ELSE IF i = 0 THEN a ELSE z]
<1>1. /\ k \in Nat /\ n \in Nat /\ Len(u) = n /\ k <= n
      /\ \A i \in 1..k : u[i] = s[i] /\ i \in 1..n
  OBVIOUS
<1>2. \A i \in 1..n : i \notin 1..k => Plain(u[i])
  <2>1. \A i \in 1..n : i \notin 1..k => i - k \in DOMAIN t /\ u[i] = t[i - k]
    OBVIOUS
  <2> QED
    BY <2>1
<1> HIDE DEF u
<1>3. v[0] = a /\ v[k] = z
  BY DEF Follows
<1>4. \A i \in 0..n : i \notin 1..k /\ i # 0 => w[i] = z
  OBVIOUS
<1>5. w[0] = a /\ \A i \in 1..k : w[i] = v[i]
  BY <1>1
<1> HIDE DEF w
<1>6. \A i \in 1..k : w[i - 1] = v[i - 1]
  <2>1. \A i \in 1..k : i - 1 = 0 \/ i - 1 \in 1..k
    BY <1>1
  <2> QED
    BY <1>3, <1>5, <2>1
<1>7. w[k] = z /\ w[n] = z
  <2>1. k = 0 \/ k \in 1..k
    BY <1>1
  <2>2. w[k] = z
    BY <1>3, <1>5, <2>1
  <2>3. n = k \/ (n \in 0..n /\ n \notin 1..k /\ n # 0)
    BY <1>1
  <2> QED
    BY <1>4, <2>2, <2>3
<1>8. \A i \in 1..n : i \notin 1..k => w[i] = z /\ w[i - 1] = z
  <2> TAKE i \in 1..n
  <2> HAVE i \notin 1..k
  <2>1. i \in 0..n /\ i # 0 /\ i - 1 \in 0..n
        /\ (i - 1 = k \/ (i - 1 \notin 1..k /\ i - 1 # 0))
    BY <1>1
  <2> QED
    BY <1>4, <1>7, <2>1
<1> HIDE DEF k, n
<1>9. Follows(w, u, a, z)
  <2>1. \A i \in 1..k : w[i] = Heard(u[i], w[i - 1])
    BY <1>1, <1>5, <1>6 DEF Follows, k
  <2>2. \A i \in 1..n : i \notin 1..k => w[i] = Heard(u[i], w[i - 1])
    BY <1>2, <1>8 DEF Heard, Plain
  <2> QED
    BY <1>1, <1>5, <1>7, <2>1, <2>2 DEF Follows
<1>10. ASSUME NEW c
       PROVE  /\ News(w, u, c) = News(v, s, c)
              /\ \A M : Told(v, s, c, M) => Told(w, u, c, M)
  <2>1. \A i \in 1..k : About(u[i], w[i - 1], c) <=> About(s[i], v[i - 1], c)
    BY <1>1, <1>6
  <2>2. \A i \in 1..n : i \notin 1..k => ~About(u[i], w[i - 1], c)
    BY <1>2 DEF About, Plain
  <2>3. News(w, u, c) = News(v, s, c)
    BY <1>1, <2>1, <2>2 DEF News, k
  <2>4. \A i \in News(v, s, c) : u[i] = s[i]
    BY <1>1 DEF News, k
  <2> QED
    BY <2>3, <2>4 DEF Told
<1> QED
  BY <1>9, <1>10 DEF u

\* What w makes of the lines behind the first one of s, when v is so of s.
Shorter(w, v, s, a, z) ==
  /\ Follows(w, Tail(s), Heard(Head(s), a), z)
  /\ \A c :
       /\ ~About(Head(s), a, c) /\ News(w, Tail(s), c) = {} => News(v, s, c) = {}
       /\ \A M : Told(v, s, c, M) =>
            /\ Told(w, Tail(s), c, M)
            /\ About(Head(s), a, c) /\ News(w, Tail(s), c) = {}
                 => (Head(s).ev = "JOIN" <=> c \in M)

\* The first line is handled.
LEMMA HearsFirst ==
  ASSUME NEW s \in Seq(Lines), s # << >>, NEW v, NEW a, NEW z, Follows(v, s, a, z)
  PROVE  \E w : Shorter(w, v, s, a, z)
<1> DEFINE k == Len(s) - 1
           t == Tail(s)
           w == [i \in 0..k |-> v[i + 1]]
<1>1. /\ k \in Nat /\ Len(s) = k + 1 /\ Len(t) = k /\ Head(s) = s[1]
      /\ \A i \in 1..k : t[i] = s[i + 1]
  OBVIOUS
<1> HIDE DEF k, t
<1>2. \A i \in 0..k : w[i] = v[i + 1]
  OBVIOUS
<1> HIDE DEF w
<1>3. \A i \in 1..k : /\ i \in 0..k /\ i - 1 \in 0..k /\ (i - 1) + 1 = i /\ (i + 1) - 1 = i
                      /\ i + 1 \in 1..(k + 1)
  BY <1>1
<1>4. \A i \in 1..k : w[i] = v[i + 1] /\ w[i - 1] = v[i]
  BY <1>2, <1>3
<1>5. \A i \in 1..(k + 1) : i = 1 \/ (i - 1 \in 1..k /\ (i - 1) + 1 = i)
  BY <1>1
<1>6. 1 \in 1..(k + 1) /\ 0 \in 0..k /\ k \in 0..k /\ 0 + 1 = 1 /\ 1 - 1 = 0
  BY <1>1
<1>7. Follows(w, t, Heard(Head(s), a), z)
  <2>1. v[1] = Heard(s[1], v[0]) /\ v[0] = a /\ v[k + 1] = z
        /\ \A i \in 1..k : v[i + 1] = Heard(s[i + 1], v[i])
    BY <1>1, <1>3, <1>6 DEF Follows
  <2>2. w[0] = Heard(Head(s), a) /\ w[k] = z
    BY <1>1, <1>2, <1>6, <2>1
  <2> QED
    BY <1>1, <1>4, <2>1, <2>2 DEF Follows
<1>8. ASSUME NEW c
      PROVE  /\ \A i \in 1..k : i \in News(w, t, c) <=> i + 1 \in News(v, s, c)
             /\ 1 \in News(v, s, c) <=> About(Head(s), a, c)
             /\ News(w, t, c) \subseteq 1..k /\ News(v, s, c) \subseteq 1..(k + 1)
  <2>1. \A i \in 1..k : About(t[i], w[i - 1], c) <=> About(s[i + 1], v[(i + 1) - 1], c)
    BY <1>1, <1>3, <1>4
  <2>2. About(s[1], v[1 - 1], c) <=> About(Head(s), a, c)
    BY <1>1, <1>6 DEF Follows
  <2> QED
    BY <1>1, <1>3, <1>6, <2>1, <2>2 DEF News
<1>9. ASSUME NEW c
      PROVE  ~About(Head(s), a, c) /\ News(w, t, c) = {} => News(v, s, c) = {}
  BY <1>5, <1>8
<1>10. ASSUME NEW c, NEW M, Told(v, s, c, M)
       PROVE  /\ Told(w, t, c, M)
              /\ About(Head(s), a, c) /\ News(w, t, c) = {} => (Head(s).ev = "JOIN" <=> c \in M)
  <2>1. ASSUME NEW i \in News(w, t, c), \A j \in News(w, t, c) : j <= i
        PROVE  t[i].ev = "JOIN" <=> c \in M
    <3>1. i \in 1..k /\ i + 1 \in News(v, s, c) /\ t[i] = s[i + 1]
      BY <1>1, <1>8
    <3>2. ASSUME NEW j \in News(v, s, c) PROVE j <= i + 1
      <4>1. CASE j = 1
        BY <1>1, <3>1, <4>1
      <4>2. CASE j # 1
        <5>1. j \in 1..(k + 1) /\ j - 1 \in 1..k /\ (j - 1) + 1 = j
          BY <1>5, <1>8, <4>2
        <5>2. j - 1 <= i
          BY <1>8, <2>1, <5>1
        <5> QED
          BY <1>1, <3>1, <5>1, <5>2
      <4> QED
        BY <4>1, <4>2
    <3> QED
      BY <1>10, <3>1, <3>2 DEF Told
  <2>2. ASSUME About(Head(s), a, c), News(w, t, c) = {} PROVE Head(s).ev = "JOIN" <=> c \in M
    <3>1. 1 \in News(v, s, c) /\ \A j \in News(v, s, c) : j = 1
      BY <1>5, <1>8, <2>2
    <3>2. \A j \in News(v, s, c) : j <= 1
      BY <3>1
    <3> QED
      BY <1>1, <1>10, <3>1, <3>2 DEF Told
  <2> QED
    BY <2>1, <2>2 DEF Told
<1>11. Shorter(w, v, s, a, z)
  BY <1>7, <1>9, <1>10 DEF t, Shorter
<1> QED
  BY <1>11

-----------------------------------------------------------------------------
(* What the network and the bot do to it.                                     *)

\* Nothing that the bot said is lost that its tables rest on.
Remembers ==
  /\ "refusal" \in races => "refusal" \in races'
  /\ \A c \in Names : /\ Has(outbox, PartOf(c)) /\ c \in Inside /\ c \in Inside' => Has(outbox', PartOf(c))
                      /\ Outside(c) => Outside(c)'

\* Somebody, or the server, says one line.
LEMMA LineKeeps ==
  ASSUME SelfInv, CType', UNCHANGED bot, Remembers,
         NEW l \in Lines, inbox' = Append(inbox, l), me' = Heard(l, me),
         \A c \in Names : About(l, me, c) => (l.ev = "JOIN" <=> c \in Inside'),
         \A c \in Names : ~About(l, me, c) => (c \in Inside' <=> c \in Inside)
  PROVE  SelfInv'
<1>1. PICK v : SelfWith(v)
  BY DEF SelfInv
<1>2. inbox \in Seq(Lines)
  BY DEF SelfInv, CType
<1>3. PICK w : /\ Follows(w, inbox', nick, me')
               /\ \A c :
                    /\ About(l, me, c) =>
                         /\ News(w, inbox', c) # {}
                         /\ \A M : (l.ev = "JOIN" <=> c \in M) => Told(w, inbox', c, M)
                    /\ ~About(l, me, c) =>
                         /\ News(w, inbox', c) = News(v, inbox, c)
                         /\ \A M : Told(v, inbox, c, M) => Told(w, inbox', c, M)
  BY <1>1, <1>2, HearsMore, Zenon DEF SelfWith
<1>4. channels' = channels /\ nick' = nick
  BY DEF bot
<1>5. ASSUME NEW c \in Names
      PROVE  /\ Told(w, inbox', c, Inside')
             /\ c \in DOMAIN channels' /\ News(w, inbox', c) = {} => Agrees(c)'
             /\ c \notin DOMAIN channels' => Outside(c)'
  <2>1. /\ Told(v, inbox, c, Inside)
        /\ c \in DOMAIN channels /\ News(v, inbox, c) = {} => Agrees(c)
        /\ c \notin DOMAIN channels => Outside(c)
    BY <1>1 DEF SelfWith
  <2>2. CASE About(l, me, c)
    BY <1>3, <1>4, <2>1, <2>2 DEF Remembers
  <2>3. CASE ~About(l, me, c)
    <3>1. c \in Inside' <=> c \in Inside
      BY <2>3
    <3>2. Told(v, inbox, c, Inside')
      BY <2>1, <3>1 DEF Told
    <3>3. Told(w, inbox', c, Inside') /\ News(w, inbox', c) = News(v, inbox, c)
      BY <1>3, <2>3, <3>2
    <3>4. Agrees(c) => Agrees(c)'
      BY <1>4, <3>1, Zenon DEF Agrees, Remembers, PartOf
    <3> QED
      BY <1>4, <2>1, <3>3, <3>4 DEF Remembers
  <2> QED
    BY <2>2, <2>3
<1>6. SelfWith(w)'
  BY <1>3, <1>4, <1>5, Zenon DEF SelfWith
<1> QED
  BY <1>6 DEF SelfInv

\* It says lines that tell the bot nothing of where it is, or none.
LEMMA PlainKeeps ==
  ASSUME SelfInv, CType', UNCHANGED bot, Remembers, me' = me, Inside' = Inside,
         NEW t \in Seq(Lines), \A i \in DOMAIN t : Plain(t[i]), inbox' = inbox \o t
  PROVE  SelfInv'
<1>1. PICK v : SelfWith(v)
  BY DEF SelfInv
<1>2. inbox \in Seq(Lines)
  BY DEF SelfInv, CType
<1>3. PICK w : /\ Follows(w, inbox', nick, me)
               /\ \A c : /\ News(w, inbox', c) = News(v, inbox, c)
                         /\ \A M : Told(v, inbox, c, M) => Told(w, inbox', c, M)
  BY <1>1, <1>2, HearsPlain, Zenon DEF SelfWith
<1>4. channels' = channels /\ nick' = nick
  BY DEF bot
<1>5. ASSUME NEW c \in Names
      PROVE  /\ Told(w, inbox', c, Inside')
             /\ c \in DOMAIN channels' /\ News(w, inbox', c) = {} => Agrees(c)'
             /\ c \notin DOMAIN channels' => Outside(c)'
  <2>1. /\ Told(v, inbox, c, Inside)
        /\ c \in DOMAIN channels /\ News(v, inbox, c) = {} => Agrees(c)
        /\ c \notin DOMAIN channels => Outside(c)
    BY <1>1 DEF SelfWith
  <2>2. Agrees(c) => Agrees(c)'
    BY <1>4, Zenon DEF Agrees, Remembers, PartOf
  <2> QED
    BY <1>3, <1>4, <2>1, <2>2 DEF Remembers
<1>6. SelfWith(w)'
  BY <1>3, <1>4, <1>5, Zenon DEF SelfWith
<1> QED
  BY <1>6 DEF SelfInv

\* The bot handles a line; of a channel of the table it takes down whether it
\* is in it when the line tells it, and only then.
LEMMA GotKeeps ==
  ASSUME SelfInv, CType', NEW ev, Got(ev), nick' = Heard(m, nick),
         "refusal" \in races => "refusal" \in races',
         DOMAIN channels' \subseteq DOMAIN channels,
         \A c \in DOMAIN channels' : About(m, nick, c) => (channels'[c].joined <=> m.ev = "JOIN"),
         \A c \in DOMAIN channels' : ~About(m, nick, c) => (channels'[c].joined <=> channels[c].joined),
         \A c \in Names : Has(outbox, PartOf(c)) => Has(outbox', PartOf(c)),
         \A c \in Names \ DOMAIN channels : Outside(c) => Outside(c)',
         \A c \in DOMAIN channels \ DOMAIN channels' : Outside(c)'
  PROVE  SelfInv'
<1>1. PICK v : SelfWith(v)
  BY DEF SelfInv
<1>2. inbox \in Seq(Lines) /\ inbox # << >> /\ inbox' = Tail(inbox) /\ m = Head(inbox)
  BY DEF SelfInv, CType, Got, m
<1>3. PICK w : Shorter(w, v, inbox, nick, me)
  <2>1. Follows(v, inbox, nick, me)
    BY <1>1 DEF SelfWith
  <2> QED
    BY <1>2, <2>1, HearsFirst
<1>4. me' = me /\ Inside' = Inside
  BY DEF Got, server, Inside
<1>5. ASSUME NEW c \in Names
      PROVE  /\ Told(w, inbox', c, Inside')
             /\ c \in DOMAIN channels' /\ News(w, inbox', c) = {} => Agrees(c)'
             /\ c \notin DOMAIN channels' => Outside(c)'
  <2>1. /\ Told(v, inbox, c, Inside)
        /\ c \in DOMAIN channels /\ News(v, inbox, c) = {} => Agrees(c)
        /\ c \notin DOMAIN channels => Outside(c)
    BY <1>1 DEF SelfWith
  <2>2. Told(w, inbox', c, Inside')
    BY <1>2, <1>3, <1>4, <2>1 DEF Shorter
  <2>3. ASSUME c \in DOMAIN channels', News(w, inbox', c) = {} PROVE Agrees(c)'
    <3>1. CASE About(m, nick, c)
      <4>1. m.ev = "JOIN" <=> c \in Inside'
        BY <1>2, <1>3, <1>4, <2>1, <2>3, <3>1 DEF Shorter
      <4>2. channels'[c].joined <=> m.ev = "JOIN"
        BY <2>3, <3>1
      <4> QED
        BY <4>1, <4>2, Zenon DEF Agrees
    <3>2. CASE ~About(m, nick, c)
      <4>1. Agrees(c)
        BY <1>2, <1>3, <2>1, <2>3, <3>2 DEF Shorter
      <4>2. (channels'[c].joined <=> channels[c].joined)
        BY <2>3, <3>2
      <4>3. Has(outbox, PartOf(c)) => Has(outbox', PartOf(c))
        OBVIOUS
      <4> QED
        BY <1>4, <4>1, <4>2, <4>3, Zenon DEF Agrees, PartOf
    <3> QED
      BY <3>1, <3>2
  <2> QED
    BY <2>1, <2>2, <2>3
<1>6. SelfWith(w)'
  <2>1. Follows(w, inbox', nick', me')
    BY <1>2, <1>3, <1>4 DEF Shorter
  <2> QED
    BY <1>5, <2>1, Zenon DEF SelfWith
<1> QED
  BY <1>6 DEF SelfInv

\* The bot's commands.
LEMMA PartJoin ==
  ASSUME NEW c, NEW d
  PROVE  /\ PartOf(c) # JoinOf(d) /\ (JoinOf(c) = JoinOf(d) => c = d) /\ (PartOf(c) = PartOf(d) => c = d)
         /\ PartOf(c).cmd = "PART" /\ PartOf(c).c = c /\ JoinOf(c).cmd = "JOIN" /\ JoinOf(c).c = c
  BY DEF PartOf, JoinOf

\* The bot says something.
LEMMA SaidKeeps ==
  ASSUME outbox \in Seq(Commands), NEW t \in Seq(Commands), outbox' = outbox \o t,
         Inside' = Inside, "refusal" \in races => "refusal" \in races', NEW c
  PROVE  /\ Has(outbox, PartOf(c)) => Has(outbox', PartOf(c))
         /\ ~Has(t, JoinOf(c)) => (Outside(c) => Outside(c)')
<1>1. \A x : Has(outbox', x) <=> Has(outbox, x) \/ Has(t, x)
  BY HasConcat, Zenon
<1>2. ~Has(t, JoinOf(c)) /\ Ends(outbox, PartOf(c), {JoinOf(c)}) => Ends(outbox', PartOf(c), {JoinOf(c)})
  <2>1. SUFFICES ASSUME ~Has(t, JoinOf(c)), Ends(outbox, PartOf(c), {JoinOf(c)})
                 PROVE  Ends(outbox', PartOf(c), {JoinOf(c)})
    OBVIOUS
  <2>2. \A y \in {JoinOf(c)} : ~Has(t, y)
    BY <2>1
  <2> QED
    BY <2>1, <2>2, EndsConcat, Zenon
<1>3. JoinOf(c)' = JoinOf(c) /\ PartOf(c)' = PartOf(c)
  BY DEF JoinOf, PartOf
<1> QED
  BY <1>1, <1>2, <1>3, Zenon DEF Outside

\* The server takes one.
LEMMA TakenRemembers ==
  ASSUME outbox \in Seq(Commands), outbox # << >>, outbox' = Tail(outbox),
         "refusal" \in races => "refusal" \in races',
         \A c \in Names : c \in Inside' => c \in Inside \/ Head(outbox) = JoinOf(c),
         \A c \in Names : Head(outbox) = PartOf(c) => c \notin Inside'
  PROVE  Remembers
<1>1. \A x : Has(outbox, x) <=> Head(outbox) = x \/ Has(outbox', x)
  BY HasTail, Zenon
<1>2. ASSUME NEW c \in Names PROVE Outside(c) => Outside(c)'
  <2>1. Ends(outbox, PartOf(c), {JoinOf(c)}) =>
          \/ Ends(outbox', PartOf(c), {JoinOf(c)})
          \/ Head(outbox) = PartOf(c) /\ ~Has(outbox', JoinOf(c))
    BY EndsTail
  <2>2. JoinOf(c)' = JoinOf(c) /\ PartOf(c)' = PartOf(c) /\ JoinOf(c) # PartOf(c)
    BY DEF JoinOf, PartOf
  <2>3. CASE c \in Inside' => c \in Inside
    BY <1>1, <2>1, <2>2, <2>3, Zenon DEF Outside
  <2>4. CASE Head(outbox) = JoinOf(c)
    BY <1>1, <2>1, <2>2, <2>4, Zenon DEF Outside
  <2> QED
    BY <2>3, <2>4
<1>3. ASSUME NEW c \in Names
      PROVE  Has(outbox, PartOf(c)) /\ c \in Inside' => Has(outbox', PartOf(c))
  BY <1>1, Zenon
<1> QED
  BY <1>2, <1>3, Zenon DEF Remembers

\* A JOIN is told by its channel.
LEMMA IsJoin ==
  ASSUME NEW l \in Commands, l.cmd = "JOIN"
  PROVE  l = JoinOf(l.c)
  BY DEF Commands, JoinOf

\* The bot is told nothing, and has nothing to be told.
LEMMA StillKeeps ==
  ASSUME SelfInv, CType', UNCHANGED bot, Remembers, me' = me, Inside' = Inside, inbox' = inbox
  PROVE  SelfInv'
<1>1. << >> \in Seq(Lines) /\ inbox' = inbox \o << >> /\ \A i \in DOMAIN << >> : Plain(<< >>[i])
  BY QueueGrows DEF SelfInv, CType
<1> QED
  BY <1>1, PlainKeeps

\* What is appended to the queue is a line.
LEMMA LastIsLine ==
  ASSUME CType, CType', NEW l, inbox' = Append(inbox, l)
  PROVE  l \in Lines
<1>1. inbox \in Seq(Lines) /\ inbox' \in Seq(Lines)
  BY DEF CType
<1>2. Len(inbox') = Len(inbox) + 1 /\ inbox'[Len(inbox) + 1] = l /\ Len(inbox) \in Nat
  BY <1>1
<1>3. Len(inbox) + 1 \in 1..Len(inbox')
  BY <1>2
<1>4. \A i \in 1..Len(inbox') : inbox'[i] \in Lines
  BY <1>1
<1> QED
  BY <1>2, <1>3, <1>4

\* Whatever a person does: the bot hears of it if he is the bot or it is about him.
LEMMA PersonSelf == ASSUME SelfInv, CType', Person PROVE SelfInv'
<1> USE DEF PersonActs, Tell
<1>1. /\ members \in [Names -> SUBSET Nicks] /\ members' \in [Names -> SUBSET Nicks]
      /\ me \in Nicks /\ me' \in Nicks
  BY DEF SelfInv, CType
<1>2. ASSUME outbox' = outbox, Inside' \subseteq Inside, "refusal" \in races => "refusal" \in races'
      PROVE  Remembers
  <2>1. ASSUME NEW c PROVE JoinOf(c)' = JoinOf(c) /\ PartOf(c)' = PartOf(c)
    BY DEF JoinOf, PartOf
  <2>2. ASSUME NEW c PROVE Outside(c) => Outside(c)'
    BY <1>2, <2>1, Zenon DEF Outside
  <2> QED
    BY <1>2, <2>2 DEF Remembers
<1>3. \A c : c \in Inside <=> c \in Names /\ me \in members[c]
  BY DEF Inside
<1>4. \A c : c \in Inside' <=> c \in Names /\ me' \in members'[c]
  BY DEF Inside
<1>5. ASSUME NEW c \in Names, NEW n \in Nicks, Joins(c, n) PROVE SelfInv'
  <2> DEFINE l == [ev |-> "JOIN", c |-> c, who |-> n]
  <2>1. /\ UNCHANGED bot /\ me' = me /\ outbox' = outbox /\ races' = races /\ n # me
        /\ inbox' = (IF me \in members[c] THEN Append(inbox, l) ELSE inbox)
        /\ members' = [members EXCEPT ![c] = @ \cup {n}]
    BY <1>5 DEF Joins
  <2>2. Inside' = Inside
    BY <1>1, <1>3, <1>4, <2>1
  <2>3. Remembers
    BY <1>2, <2>1, <2>2
  <2>4. l \in Lines /\ Heard(l, me) = me /\ \A d : ~About(l, me, d)
    BY <2>1, IsLine DEF Heard, About
  <2> HIDE DEF l
  <2> QED
    BY <2>1, <2>2, <2>3, <2>4, LineKeeps, StillKeeps
<1>6. ASSUME NEW c \in Names, NEW n \in Nicks, Leaves(c, n) PROVE SelfInv'
  <2> DEFINE l == [ev |-> "PART", c |-> c, who |-> n]
  <2>1. /\ UNCHANGED bot /\ me' = me /\ outbox' = outbox /\ races' = races /\ n \in members[c]
        /\ inbox' = (IF me \in members[c] THEN Append(inbox, l) ELSE inbox)
        /\ members' = [members EXCEPT ![c] = @ \ {n}]
    BY <1>6 DEF Leaves
  <2>2. Inside' \subseteq Inside /\ \A d \in Names : (d = c /\ n = me) \/ (d \in Inside' <=> d \in Inside)
    BY <1>1, <1>3, <1>4, <2>1
  <2>3. n = me => c \notin Inside'
    BY <1>1, <1>4, <2>1
  <2>4. Remembers
    BY <1>2, <2>1, <2>2
  <2>5. l \in Lines /\ Heard(l, me) = me /\ l.ev # "JOIN" /\ \A d : About(l, me, d) <=> d = c /\ n = me
    BY IsLine DEF Heard, About
  <2> HIDE DEF l
  <2>6. CASE me \in members[c]
    BY <2>1, <2>2, <2>3, <2>4, <2>5, <2>6, LineKeeps
  <2>7. CASE me \notin members[c]
    <3>1. Inside' = Inside
      BY <1>3, <1>4, <2>1, <2>2, <2>7
    <3> QED
      BY <2>1, <2>4, <2>7, <3>1, StillKeeps
  <2> QED
    BY <2>6, <2>7
<1>7. ASSUME NEW n \in Nicks, Quits(n) PROVE SelfInv'
  <2> DEFINE l == [ev |-> "QUIT", who |-> n]
  <2>1. /\ UNCHANGED bot /\ me' = me /\ outbox' = outbox /\ races' = races /\ n # me
        /\ inbox' = Append(inbox, l) \/ inbox' = inbox
        /\ members' = [c \in Names |-> members[c] \ {n}]
    BY <1>7 DEF Quits
  <2>2. Inside' = Inside
    BY <1>1, <1>3, <1>4, <2>1
  <2>3. Remembers
    BY <1>2, <2>1, <2>2
  <2>4. l \in Lines /\ Heard(l, me) = me /\ \A d : ~About(l, me, d)
    BY <2>1, IsNickLine DEF Heard, About
  <2> HIDE DEF l
  <2> QED
    BY <2>1, <2>2, <2>3, <2>4, LineKeeps, StillKeeps
<1>8. ASSUME NEW n \in Nicks, NEW new \in Nicks, Renames(n, new) PROVE SelfInv'
  <2> DEFINE l == [ev |-> "NICK", who |-> n, new |-> new]
             renamed(S) == IF n \in S THEN (S \ {n}) \cup {new} ELSE S
  <2>1. /\ UNCHANGED bot /\ outbox' = outbox /\ races' = races /\ new # me
        /\ me' = (IF n = me THEN new ELSE me)
        /\ inbox' = Append(inbox, l) \/ (inbox' = inbox /\ n # me)
        /\ members' = [c \in Names |-> renamed(members[c])]
        /\ \A c \in Names : new \notin members[c]
    BY <1>8 DEF Renames
  <2>2. \A c \in Names : me' \in renamed(members[c]) <=> me \in members[c]
    BY <2>1
  <2>3. Inside' = Inside
    BY <1>3, <1>4, <2>1, <2>2
  <2>4. Remembers
    BY <1>2, <2>1, <2>3
  <2>5. l \in Lines /\ Heard(l, me) = me' /\ \A d : ~About(l, me, d)
    BY <2>1, IsNickLine DEF Heard, About
  <2> HIDE DEF l
  <2> QED
    BY <2>1, <2>3, <2>4, <2>5, LineKeeps, StillKeeps
<1>9. ASSUME NEW c \in Names, NEW by \in Nicks, NEW n \in Nicks, Kicks(c, by, n) PROVE SelfInv'
  <2> DEFINE l == [ev |-> "KICK", c |-> c, by |-> by, who |-> n]
  <2>1. /\ UNCHANGED bot /\ me' = me /\ outbox' = outbox /\ races' = races /\ n \in members[c]
        /\ inbox' = (IF me \in members[c] THEN Append(inbox, l) ELSE inbox)
        /\ members' = [members EXCEPT ![c] = @ \ {n}]
    BY <1>9 DEF Kicks
  <2>2. Inside' \subseteq Inside /\ \A d \in Names : (d = c /\ n = me) \/ (d \in Inside' <=> d \in Inside)
    BY <1>1, <1>3, <1>4, <2>1
  <2>3. n = me => c \notin Inside'
    BY <1>1, <1>4, <2>1
  <2>4. Remembers
    BY <1>2, <2>1, <2>2
  <2>5. l \in Lines /\ Heard(l, me) = me /\ l.ev # "JOIN" /\ \A d : About(l, me, d) <=> d = c /\ n = me
    BY IsLine DEF Heard, About
  <2> HIDE DEF l
  <2>6. CASE me \in members[c]
    BY <2>1, <2>2, <2>3, <2>4, <2>5, <2>6, LineKeeps
  <2>7. CASE me \notin members[c]
    <3>1. Inside' = Inside
      BY <1>3, <1>4, <2>1, <2>2, <2>7
    <3> QED
      BY <2>1, <2>4, <2>7, <3>1, StillKeeps
  <2> QED
    BY <2>6, <2>7
<1>10. ASSUME NEW c \in Names, NEW by \in Nicks, NEW n \in Nicks, NEW sign \in {"+", "-"},
              NEW before \in Beside, SetsMode(c, by, sign, before, n)
       PROVE  SelfInv'
  <2> DEFINE l == [ev |-> "MODE", c |-> c,
                   modes |-> IF before = "none" THEN <<sign, "o">> ELSE <<sign, before, "o">>,
                   args |-> IF before = "b" THEN <<NULL, n>> ELSE <<n>>]
  <2>1. /\ UNCHANGED bot /\ me' = me /\ outbox' = outbox /\ members' = members
        /\ races \subseteq races'
    BY <1>10 DEF SetsMode
  <2>2. Inside' = Inside
    BY <1>3, <1>4, <2>1
  <2>3. Remembers
    BY <1>2, <2>1, <2>2
  <2>4. l.ev = "MODE"
    OBVIOUS
  <2>5. inbox' = Append(inbox, l) \/ inbox' = inbox
    BY <1>10, Zenon DEF SetsMode
  <2> HIDE DEF l
  <2>6. Heard(l, me) = me /\ \A d : ~About(l, me, d)
    BY <2>4 DEF Heard, About
  <2>7. CASE inbox' = Append(inbox, l)
    <3>1. l \in Lines
      BY <2>7, LastIsLine DEF SelfInv
    <3> QED
      BY <2>1, <2>2, <2>3, <2>6, <2>7, <3>1, LineKeeps
  <2> QED
    BY <2>1, <2>2, <2>3, <2>5, <2>7, StillKeeps
<1> QED
  BY <1>5, <1>6, <1>7, <1>8, <1>9, <1>10 DEF Person

\* The server answers: what it makes of the bot it tells the bot.
LEMMA ServerSelf == ASSUME SelfInv, CType', ServerAnswers \/ Ping PROVE SelfInv'
<1> USE DEF Asked, Answers, server, history
<1>1. /\ inbox \in Seq(Lines) /\ outbox \in Seq(Commands)
      /\ members \in [Names -> SUBSET Nicks] /\ members' \in [Names -> SUBSET Nicks] /\ me \in Nicks
  BY DEF SelfInv, CType
<1>2. outbox # << >> => /\ Head(outbox) \in Commands /\ Head(outbox).c \in Names
                        /\ Head(outbox).cmd = "KICK" => Head(outbox).who \in Nicks
  BY <1>1, QueueGrows, CommandFields
<1>3. \A c : c \in Inside <=> c \in Names /\ me \in members[c]
  BY DEF Inside
<1>4. \A c : c \in Inside' <=> c \in Names /\ me' \in members'[c]
  BY DEF Inside
<1>5. \A l \in Lines : inbox \o <<l>> = Append(inbox, l)
  BY <1>1
<1>7. ASSUME NEW cmd, Asked(cmd), "refusal" \in races => "refusal" \in races',
             Inside' \subseteq Inside,
             cmd = "PART" => Head(outbox).c \notin Inside'
      PROVE  Remembers /\ UNCHANGED bot
  <2>1. UNCHANGED bot /\ outbox # << >> /\ outbox' = Tail(outbox) /\ Head(outbox).cmd = cmd
    BY <1>7
  <2>2. \A c \in Names : Head(outbox) = PartOf(c) => c \notin Inside'
    <3>1. ASSUME NEW c, Head(outbox) = PartOf(c) PROVE cmd = "PART" /\ Head(outbox).c = c
      BY <2>1, <3>1 DEF PartOf
    <3> QED
      BY <1>7, <3>1, Zenon
  <2>3. \A c \in Names : c \in Inside' => c \in Inside \/ Head(outbox) = JoinOf(c)
    BY <1>7
  <2>4. Remembers
    BY <1>1, <1>7, <2>1, <2>2, <2>3, TakenRemembers
  <2> QED
    BY <2>1, <2>4
<1>8. ASSUME NEW c \in Names, Accept(c) PROVE SelfInv'
  <2> DEFINE l == [ev |-> "JOIN", c |-> c, who |-> me]
  <2>1. /\ Asked("JOIN") /\ c = Head(outbox).c /\ me' = me /\ inbox' = inbox \o <<l>>
        /\ members' = [members EXCEPT ![c] = @ \cup {me}] /\ races \subseteq races'
    BY <1>8 DEF Accept
  <2>2. \A d \in Names : d = c \/ (d \in Inside' <=> d \in Inside)
    BY <1>1, <1>3, <1>4, <2>1
  <2>3. c \in Inside'
    BY <1>1, <1>4, <2>1
  <2>4. Head(outbox) = JoinOf(c)
    BY <1>2, <2>1, IsJoin
  <2>5. Remembers /\ UNCHANGED bot
    <3>1. /\ UNCHANGED bot /\ outbox # << >> /\ outbox' = Tail(outbox)
          /\ "refusal" \in races => "refusal" \in races'
      BY <2>1
    <3>2. \A d \in Names : Head(outbox) = PartOf(d) => d \notin Inside'
      BY <2>4, PartJoin, Zenon
    <3>3. \A d \in Names : d \in Inside' => d \in Inside \/ Head(outbox) = JoinOf(d)
      BY <2>2, <2>4
    <3>4. Remembers
      BY <1>1, <3>1, <3>2, <3>3, TakenRemembers
    <3> QED
      BY <3>1, <3>4
  <2>6. l \in Lines /\ Heard(l, me) = me /\ l.ev = "JOIN" /\ \A d : About(l, me, d) <=> d = c
    BY <1>1, IsLine DEF Heard, About
  <2> HIDE DEF l
  <2> QED
    BY <1>5, <2>1, <2>2, <2>3, <2>5, <2>6, LineKeeps
<1>9. ASSUME NEW c \in Names, Refuse(c) PROVE SelfInv'
  <2>1. PICK why \in Refusals : inbox' = inbox \o <<[ev |-> why, c |-> c]>>
    BY <1>9 DEF Refuse
  <2> DEFINE l == [ev |-> why, c |-> c]
  <2>2. Asked("JOIN") /\ UNCHANGED <<me, members, races>>
    BY <1>9 DEF Refuse
  <2>3. Inside' = Inside
    BY <2>2 DEF Inside
  <2>4. Remembers /\ UNCHANGED bot
    BY <1>7, <2>2, <2>3
  <2>5. why \in {"BANNED", "TOOMANY"}
    BY ChannelsAssumption
  <2>6. l \in Lines /\ Heard(l, me) = me /\ \A d : ~About(l, me, d)
    BY <2>5 DEF Lines, Heard, About
  <2> HIDE DEF l
  <2> QED
    BY <1>5, <2>1, <2>2, <2>3, <2>4, <2>6, LineKeeps DEF l
<1>10. CASE Ignore
  <2>1. UNCHANGED <<inbox, me, members, races>>
    BY <1>10 DEF Ignore
  <2>2. Inside' = Inside
    BY <2>1 DEF Inside
  <2>3. \/ Asked("JOIN")
        \/ Asked("PART") /\ Head(outbox).c \notin Inside'
    BY <1>3, <1>10, <2>2 DEF Ignore
  <2>4. Remembers /\ UNCHANGED bot
    BY <1>7, <2>1, <2>2, <2>3
  <2> QED
    BY <2>1, <2>2, <2>4, StillKeeps
<1>11. CASE Part
  <2> DEFINE c == Head(outbox).c
             l == [ev |-> "PART", c |-> c, who |-> me]
  <2>1. /\ Asked("PART") /\ me' = me /\ inbox' = inbox \o <<l>> /\ races' = races
        /\ members' = [members EXCEPT ![c] = @ \ {me}] /\ c \in Names
    BY <1>2, <1>11 DEF Part
  <2>2. \A d \in Names : d = c \/ (d \in Inside' <=> d \in Inside)
    BY <1>1, <1>3, <1>4, <2>1
  <2>3. c \notin Inside' /\ Inside' \subseteq Inside
    BY <1>1, <1>3, <1>4, <2>1
  <2>4. Remembers /\ UNCHANGED bot
    BY <1>7, <2>1, <2>3
  <2>5. l \in Lines /\ Heard(l, me) = me /\ l.ev # "JOIN" /\ \A d : About(l, me, d) <=> d = c
    BY <1>1, <2>1, IsLine DEF Heard, About
  <2> HIDE DEF l, c
  <2> QED
    BY <1>5, <2>1, <2>2, <2>3, <2>4, <2>5, LineKeeps
<1>12. CASE Who
  <2> DEFINE c == Head(outbox).c
             e == [ev |-> "ENDOFWHO", c |-> c]
  <2>1. Asked("WHO") /\ UNCHANGED <<me, members, races>> /\ c \in Names
    BY <1>2, <1>12 DEF Who
  <2>2. Inside' = Inside
    BY <2>1 DEF Inside
  <2>3. Remembers /\ UNCHANGED bot
    BY <1>7, <2>1, <2>2
  <2>4. inbox' = inbox \o (Replies(c) \o <<e>>) \/ inbox' = inbox \o <<e>>
    BY <1>12, Zenon DEF Who, Replies
  <2>5. e \in Lines /\ Plain(e)
    BY <2>1 DEF Lines, Plain
  <2> HIDE DEF e
  <2>6. /\ Replies(c) \in Seq(Lines) /\ \A i \in DOMAIN Replies(c) : Plain(Replies(c)[i])
    BY <2>1, RepliesAre DEF Plain, SelfInv
  <2> HIDE DEF c
  <2>7. /\ <<e>> \in Seq(Lines) /\ \A i \in DOMAIN <<e>> : Plain(<<e>>[i])
    BY <2>5
  <2>8. ASSUME NEW r \in Seq(Lines), \A i \in DOMAIN r : Plain(r[i])
        PROVE  r \o <<e>> \in Seq(Lines) /\ \A i \in DOMAIN (r \o <<e>>) : Plain((r \o <<e>>)[i])
    <3>1. /\ r \o <<e>> \in Seq(Lines) /\ DOMAIN (r \o <<e>>) = 1..(Len(r) + 1) /\ Len(r) \in Nat
          /\ DOMAIN r = 1..Len(r) /\ (r \o <<e>>)[Len(r) + 1] = e
          /\ \A i \in 1..Len(r) : (r \o <<e>>)[i] = r[i]
      BY <2>5
    <3>2. \A i \in 1..(Len(r) + 1) : i \in 1..Len(r) \/ i = Len(r) + 1
      BY <3>1
    <3> QED
      BY <2>5, <2>8, <3>1, <3>2
  <2>9. /\ Replies(c) \o <<e>> \in Seq(Lines)
        /\ \A i \in DOMAIN (Replies(c) \o <<e>>) : Plain((Replies(c) \o <<e>>)[i])
    BY <2>6, <2>8, Zenon
  <2> QED
    BY <2>1, <2>2, <2>3, <2>4, <2>7, <2>9, PlainKeeps
<1>13. CASE Kick
  <2> DEFINE c == Head(outbox).c
             n == Head(outbox).who
             l == [ev |-> "KICK", c |-> c, by |-> me, who |-> n]
  <2>1. Asked("KICK") /\ UNCHANGED <<me, races>> /\ c \in Names /\ n \in Nicks
    BY <1>2, <1>13 DEF Kick
  <2>2. CASE me \in ops[c] /\ n \in members[c]
    <3>1. inbox' = inbox \o <<l>> /\ members' = [members EXCEPT ![c] = @ \ {n}]
      BY <1>13, <2>2 DEF Kick
    <3>2. \A d \in Names : (d = c /\ n = me) \/ (d \in Inside' <=> d \in Inside)
      BY <1>1, <1>3, <1>4, <2>1, <3>1
    <3>3. Inside' \subseteq Inside /\ (n = me => c \notin Inside')
      BY <1>1, <1>3, <1>4, <2>1, <3>1
    <3>4. Remembers /\ UNCHANGED bot
      BY <1>7, <2>1, <3>3
    <3>5. l \in Lines /\ Heard(l, me) = me /\ l.ev # "JOIN" /\ \A d : About(l, me, d) <=> d = c /\ n = me
      BY <1>1, <2>1, IsLine DEF Heard, About
    <3> HIDE DEF l, c, n
    <3> QED
      BY <1>5, <2>1, <3>1, <3>2, <3>3, <3>4, <3>5, LineKeeps
  <2>3. CASE ~(me \in ops[c] /\ n \in members[c])
    <3>1. UNCHANGED <<inbox, members>>
      BY <1>13, <2>3 DEF Kick
    <3>2. Inside' = Inside
      BY <2>1, <3>1 DEF Inside
    <3>3. Remembers /\ UNCHANGED bot
      BY <1>7, <2>1, <3>2
    <3> QED
      BY <2>1, <3>1, <3>2, <3>3, StillKeeps
  <2> QED
    BY <2>2, <2>3
<1>14. CASE Ping
  <2>1. UNCHANGED <<bot, outbox, me, members, races>> /\ inbox' = Append(inbox, [ev |-> "PING"])
    BY <1>14 DEF Ping
  <2>2. Inside' = Inside
    BY <2>1 DEF Inside
  <2>3. Remembers
    <3>1. ASSUME NEW c PROVE JoinOf(c)' = JoinOf(c) /\ PartOf(c)' = PartOf(c)
      BY DEF JoinOf, PartOf
    <3>2. ASSUME NEW c PROVE Outside(c) => Outside(c)'
      BY <2>1, <2>2, <3>1, Zenon DEF Outside
    <3> QED
      BY <2>1, <3>2 DEF Remembers
  <2> DEFINE l == [ev |-> "PING"]
  <2>4. l \in Lines /\ Heard(l, me) = me /\ \A d : ~About(l, me, d)
    BY DEF Lines, Heard, About
  <2> HIDE DEF l
  <2> QED
    BY <2>1, <2>2, <2>3, <2>4, LineKeeps DEF l
<1> QED
  BY <1>8, <1>9, <1>10, <1>11, <1>12, <1>13, <1>14 DEF ServerAnswers

\* A handler that deletes no channel, and sends no JOIN but for one of the table.
LEMMA HandledKeeps ==
  ASSUME SelfInv, CType', NEW ev, Got(ev), nick' = Heard(m, nick),
         "refusal" \in races => "refusal" \in races',
         DOMAIN channels' = DOMAIN channels,
         \A c \in DOMAIN channels' : About(m, nick, c) => (channels'[c].joined <=> m.ev = "JOIN"),
         \A c \in DOMAIN channels' : ~About(m, nick, c) => (channels'[c].joined <=> channels[c].joined),
         NEW t \in Seq(Commands), outbox' = outbox \o t,
         \A c \in Names \ DOMAIN channels : ~Has(t, JoinOf(c))
  PROVE  SelfInv'
<1>1. outbox \in Seq(Commands) /\ Inside' = Inside
  BY DEF SelfInv, CType, Got, server, Inside
<1>2. \A c \in Names : Has(outbox, PartOf(c)) => Has(outbox', PartOf(c))
  BY <1>1, SaidKeeps
<1>3. \A c \in Names \ DOMAIN channels : Outside(c) => Outside(c)'
  BY <1>1, SaidKeeps
<1> QED
  BY <1>2, <1>3, GotKeeps

\* What becomes of the channel of the line, and of the others.
LEMMA ChannelStep ==
  ASSUME Table(channels), NEW ch, InChannel(ch)
  PROVE  /\ DOMAIN channels' = DOMAIN channels
         /\ \A c \in DOMAIN channels : c = m.c => Known /\ channels'[c] = ch /\ channels[c] = channel
         /\ \A c \in DOMAIN channels : c # m.c => channels'[c] = channels[c]
  BY DEF Table, InChannel, Known, channel

\* An event is handled.
LEMMA EventSelf == ASSUME SelfInv, CType', Event PROVE SelfInv'
<1> USE DEF Say, history, bot
<1>1. CType /\ Table(channels) /\ nick \in Nicks /\ outbox \in Seq(Commands)
  BY DEF SelfInv, CType
<1>2. /\ << >> \in Seq(Commands) /\ outbox \o << >> = outbox
      /\ \A l \in Commands : <<l>> \in Seq(Commands)
      /\ \A c : ~Has(<< >>, JoinOf(c))
  BY <1>1, QueueGrows, HasNone
<1>3. \A c, l : Has(<<l>>, JoinOf(c)) => l = JoinOf(c)
  BY HasOne
<1>4. CASE event_join
  <2>1. Got("JOIN") /\ nick' = nick /\ races' = races
    BY <1>4 DEF event_join
  <2>2. m \in Lines /\ m.ev = "JOIN" /\ m.c \in Names /\ m.who \in Nicks /\ C_USERS_MAX \in Nat
    BY <1>1, <2>1, HeadFields, LineFields
  <2> DEFINE a == user_add(channel, m.who, FALSE)
             b == a.joined \/ m.who = nick
             t == IF m.who = nick /\ Known THEN <<[cmd |-> "WHO", c |-> m.c]>> ELSE << >>
  <2>3. Known => a \in ChannelType /\ a.joined = channel.joined /\ channel.joined \in BOOLEAN
    BY <1>1, <2>1, <2>2, HeadFields, AddKeeps, ChannelFields
  <2>4. b \in BOOLEAN
    OBVIOUS
  <2>5. InChannel([a EXCEPT !.joined = b]) /\ outbox' = outbox \o t
    BY <1>4 DEF event_join
  <2>6. Heard(m, nick) = nick /\ \A c : About(m, nick, c) <=> c = m.c /\ m.who = nick
    BY <2>2 DEF Heard, About
  <2>7. b <=> (a.joined \/ m.who = nick)
    BY Zenon
  <2> HIDE DEF a, b
  <2>8. Known => ([a EXCEPT !.joined = b].joined <=> channel.joined \/ m.who = nick)
    BY <2>3, <2>4, <2>7, JoinedKeeps
  <2>9. t \in Seq(Commands) /\ \A c : ~Has(t, JoinOf(c))
    <3>1. [cmd |-> "WHO", c |-> m.c] \in Commands /\ \A c : [cmd |-> "WHO", c |-> m.c] # JoinOf(c)
      BY <2>2 DEF Commands, JoinOf
    <3>2. t = <<[cmd |-> "WHO", c |-> m.c]>> \/ t = << >>
      BY Zenon
    <3> HIDE DEF t
    <3> QED
      BY <1>2, <1>3, <3>1, <3>2
  <2>10. /\ DOMAIN channels' = DOMAIN channels
         /\ \A c \in DOMAIN channels' : About(m, nick, c) => (channels'[c].joined <=> m.ev = "JOIN")
         /\ \A c \in DOMAIN channels' : ~About(m, nick, c) => (channels'[c].joined <=> channels[c].joined)
    <3> DEFINE ch == [a EXCEPT !.joined = b]
    <3>1. /\ DOMAIN channels' = DOMAIN channels
          /\ \A c \in DOMAIN channels : c = m.c => Known /\ channels'[c] = ch /\ channels[c] = channel
          /\ \A c \in DOMAIN channels : c # m.c => channels'[c] = channels[c]
      BY <1>1, <2>5, ChannelStep, Zenon
    <3>2. Known => (ch.joined <=> channel.joined \/ m.who = nick)
      BY <2>8, Zenon
    <3> HIDE DEF ch
    <3> QED
      BY <2>2, <2>6, <3>1, <3>2
  <2> HIDE DEF t
  <2> QED
    BY <2>1, <2>5, <2>6, <2>9, <2>10, HandledKeeps
<1>5. CASE event_quit
  <2>1. Got("QUIT") /\ nick' = nick /\ races' = races /\ outbox' = outbox \o << >>
        /\ channels' = [c \in DOMAIN channels |-> user_del(channels[c], m.who)]
    BY <1>2, <1>5 DEF event_quit
  <2>2. m.ev = "QUIT"
    BY <2>1 DEF Got, m
  <2>3. Heard(m, nick) = nick /\ \A c : ~About(m, nick, c)
    BY <2>2 DEF Heard, About
  <2>4. \A c \in DOMAIN channels : user_del(channels[c], m.who).joined = channels[c].joined
    BY <1>1, DelKeeps, ChannelsAssumption DEF Table
  <2>5. /\ DOMAIN channels' = DOMAIN channels
        /\ \A c \in DOMAIN channels' : channels'[c].joined = channels[c].joined
    BY <2>1, <2>4
  <2> QED
    BY <1>2, <2>1, <2>3, <2>5, HandledKeeps
<1>6. CASE event_nick
  <2>1. Got("NICK") /\ races' = races /\ outbox' = outbox \o << >>
        /\ channels' = [c \in DOMAIN channels |-> user_change_nick(channels[c], m.who, m.new)]
        /\ nick' = (IF nick = m.who THEN m.new ELSE nick)
    BY <1>2, <1>6 DEF event_nick
  <2>2. m.ev = "NICK" /\ m.new \in Nicks
    BY <1>1, <2>1, HeadFields, LineFields
  <2>3. Heard(m, nick) = nick' /\ \A c : ~About(m, nick, c)
    BY <2>1, <2>2 DEF Heard, About
  <2>4. \A c \in DOMAIN channels : user_change_nick(channels[c], m.who, m.new).joined = channels[c].joined
    BY <1>1, <2>2, NickKeeps, ChannelsAssumption DEF Table
  <2>5. /\ DOMAIN channels' = DOMAIN channels
        /\ \A c \in DOMAIN channels' : channels'[c].joined = channels[c].joined
    BY <2>1, <2>4
  <2> QED
    BY <1>2, <2>1, <2>3, <2>5, HandledKeeps
<1>7. CASE event_kick
  <2>1. Got("KICK") /\ nick' = nick /\ races' = races
    BY <1>7 DEF event_kick
  <2>2. m \in Lines /\ m.ev = "KICK" /\ m.c \in Names /\ m.who \in Nicks /\ m.by \in Nicks
        /\ C_USERS_MAX \in Nat
    BY <1>1, <2>1, HeadFields, LineFields
  <2> DEFINE a == [Out(channel) EXCEPT !.kick_nick = m.by]
             d == user_del(channel, m.who)
             ch == IF nick = m.who THEN a ELSE d
             t == IF nick = m.who /\ Known THEN <<[cmd |-> "JOIN", c |-> m.c]>> ELSE << >>
  <2>3. Known => a.joined = FALSE
    <3>1. Known => Out(channel) \in ChannelType /\ Out(channel).joined = FALSE
      BY <1>1, <2>1, <2>2, HeadFields, OutKeeps
    <3> QED
      BY <2>2, <3>1, KickNickKeeps
  <2>4. Known => d.joined = channel.joined
    BY <1>1, <2>1, HeadFields, DelKeeps
  <2>5. InChannel(ch) /\ outbox' = outbox \o t
    BY <1>7 DEF event_kick
  <2>6. Heard(m, nick) = nick /\ \A c : About(m, nick, c) <=> c = m.c /\ m.who = nick
    BY <2>2 DEF Heard, About
  <2> HIDE DEF a, d
  <2>7. Known => (ch.joined <=> channel.joined /\ m.who # nick)
    <3>1. CASE nick = m.who
      BY <2>3, <3>1
    <3>2. CASE nick # m.who
      BY <2>4, <3>2
    <3> QED
      BY <3>1, <3>2
  <2> HIDE DEF ch
  <2>8. t \in Seq(Commands) /\ \A c \in Names \ DOMAIN channels : ~Has(t, JoinOf(c))
    <3>1. /\ [cmd |-> "JOIN", c |-> m.c] \in Commands
          /\ \A c : [cmd |-> "JOIN", c |-> m.c] = JoinOf(c) => c = m.c
      BY <2>2 DEF Commands, JoinOf
    <3>2. (Known /\ t = <<[cmd |-> "JOIN", c |-> m.c]>>) \/ t = << >>
      BY Zenon
    <3> HIDE DEF t
    <3>3. CASE t = << >>
      BY <1>2, <3>3
    <3>4. CASE Known /\ t = <<[cmd |-> "JOIN", c |-> m.c]>>
      BY <1>2, <1>3, <3>1, <3>4 DEF Known
    <3> QED
      BY <3>2, <3>3, <3>4
  <2>9. /\ DOMAIN channels' = DOMAIN channels
        /\ \A c \in DOMAIN channels' : About(m, nick, c) => (channels'[c].joined <=> m.ev = "JOIN")
        /\ \A c \in DOMAIN channels' : ~About(m, nick, c) => (channels'[c].joined <=> channels[c].joined)
    BY <1>1, <2>2, <2>5, <2>6, <2>7, ChannelStep
  <2> HIDE DEF t
  <2> QED
    BY <2>1, <2>5, <2>6, <2>8, <2>9, HandledKeeps
<1>8. CASE event_part
  <2>1. Got("PART") /\ nick' = nick /\ races' = races /\ outbox' = outbox \o << >>
    BY <1>2, <1>8 DEF event_part
  <2>2. m \in Lines /\ m.ev = "PART" /\ C_USERS_MAX \in Nat
    BY <1>1, <2>1, HeadFields, LineFields
  <2> DEFINE a == Out(channel)
             d == user_del(channel, m.who)
             ch == IF nick = m.who THEN a ELSE d
  <2>3. Known => a.joined = FALSE
    BY <1>1, <2>1, <2>2, HeadFields, OutKeeps
  <2>4. Known => d.joined = channel.joined
    BY <1>1, <2>1, HeadFields, DelKeeps
  <2>5. InChannel(ch)
    BY <1>8 DEF event_part
  <2>6. Heard(m, nick) = nick /\ \A c : About(m, nick, c) <=> c = m.c /\ m.who = nick
    BY <2>2 DEF Heard, About
  <2> HIDE DEF a, d
  <2>7. Known => (ch.joined <=> channel.joined /\ m.who # nick)
    <3>1. CASE nick = m.who
      BY <2>3, <3>1
    <3>2. CASE nick # m.who
      BY <2>4, <3>2
    <3> QED
      BY <3>1, <3>2
  <2> HIDE DEF ch
  <2>8. /\ DOMAIN channels' = DOMAIN channels
        /\ \A c \in DOMAIN channels' : About(m, nick, c) => (channels'[c].joined <=> m.ev = "JOIN")
        /\ \A c \in DOMAIN channels' : ~About(m, nick, c) => (channels'[c].joined <=> channels[c].joined)
    BY <1>1, <2>2, <2>5, <2>6, <2>7, ChannelStep
  <2> QED
    BY <1>2, <2>1, <2>6, <2>8, HandledKeeps
<1>9. CASE event_mode
  <2>1. Got("MODE") /\ nick' = nick /\ races' = races /\ outbox' = outbox \o << >>
    BY <1>2, <1>9 DEF event_mode
  <2>2. m \in Lines /\ m.ev = "MODE" /\ Len(m.modes) \in Nat
    BY <1>1, <2>1, HeadFields, LineFields
  <2>3. Known => ModeLetters(channel).joined = channel.joined
    BY <1>1, <2>1, <2>2, HeadFields, ModesKeep
  <2>4. InChannel(ModeLetters(channel))
    BY <1>9 DEF event_mode
  <2>5. Heard(m, nick) = nick /\ \A c : ~About(m, nick, c)
    BY <2>2 DEF Heard, About
  <2>6. /\ DOMAIN channels' = DOMAIN channels
        /\ \A c \in DOMAIN channels' : channels'[c].joined = channels[c].joined
    BY <1>1, <2>3, <2>4, ChannelStep
  <2> QED
    BY <1>2, <2>1, <2>5, <2>6, HandledKeeps
<1>10. CASE event_ping
  <2>1. Got("PING") /\ channels' = channels /\ nick' = nick /\ races' = races
        /\ outbox' = outbox \o JoinAll(channels)
    BY <1>10 DEF event_ping
  <2>2. m.ev = "PING"
    BY <2>1 DEF Got, m
  <2>3. Heard(m, nick) = nick /\ \A c : ~About(m, nick, c)
    BY <2>2 DEF Heard, About
  <2>4. /\ JoinAll(channels) \in Seq(Commands)
        /\ \A c \in Names \ DOMAIN channels : ~Has(JoinAll(channels), JoinOf(c))
    <3>1. \A c, d : JoinOf(c) = [cmd |-> "JOIN", c |-> d] => c = d
      BY DEF JoinOf
    <3> QED
      BY <1>1, <3>1, JoinAllIs
  <2> QED
    BY <2>1, <2>3, <2>4, HandledKeeps
<1> QED
  BY <1>4, <1>5, <1>6, <1>7, <1>8, <1>9, <1>10 DEF Event

\* A numeric reply is handled: a refusal is the only one that deletes a channel.
LEMMA ReplySelf == ASSUME SelfInv, CType', Reply PROVE SelfInv'
<1> USE DEF Say, history, bot
<1>1. CType /\ Table(channels) /\ nick \in Nicks /\ outbox \in Seq(Commands)
  BY DEF SelfInv, CType
<1>2. /\ << >> \in Seq(Commands) /\ outbox \o << >> = outbox
      /\ \A l \in Commands : <<l>> \in Seq(Commands)
      /\ \A c : ~Has(<< >>, JoinOf(c))
  BY <1>1, QueueGrows, HasNone
<1>3. \A c, l : Has(<<l>>, JoinOf(c)) => l = JoinOf(c)
  BY HasOne
<1>4. CASE reply_whoreply
  <2>1. Got("WHOREPLY") /\ nick' = nick /\ races \subseteq races'
    BY <1>4 DEF reply_whoreply
  <2>2. m \in Lines /\ m.ev = "WHOREPLY" /\ m.c \in Names /\ m.who \in Nicks /\ m.op \in BOOLEAN
        /\ C_USERS_MAX \in Nat
    BY <1>1, <2>1, HeadFields, LineFields
  <2> DEFINE a == user_add(channel, m.who, m.op)
             k == IF a.kick_nick = m.who THEN NULL ELSE a.kick_nick
             t == IF Known /\ channel.kick_nick = m.who
                    THEN <<[cmd |-> "KICK", c |-> m.c, who |-> m.who]>> ELSE << >>
  <2>3. Known => a \in ChannelType /\ a.joined = channel.joined
    BY <1>1, <2>1, <2>2, HeadFields, AddKeeps
  <2>4. InChannel([a EXCEPT !.kick_nick = k]) /\ outbox' = outbox \o t
    BY <1>4 DEF reply_whoreply
  <2> HIDE DEF a
  <2>5. Known => k \in Nicks \cup {NULL}
    BY <2>3, ChannelFields
  <2> HIDE DEF k
  <2>6. Known => [a EXCEPT !.kick_nick = k].joined = channel.joined
    BY <2>3, <2>5, KickNickKeeps
  <2>7. Heard(m, nick) = nick /\ \A c : ~About(m, nick, c)
    BY <2>2 DEF Heard, About
  <2>8. t \in Seq(Commands) /\ \A c : ~Has(t, JoinOf(c))
    <3>1. /\ [cmd |-> "KICK", c |-> m.c, who |-> m.who] \in Commands
          /\ \A c : [cmd |-> "KICK", c |-> m.c, who |-> m.who] # JoinOf(c)
      <4>1. [cmd |-> "KICK", c |-> m.c, who |-> m.who] \in Commands
        BY <2>2 DEF Commands
      <4>2. [cmd |-> "KICK", c |-> m.c, who |-> m.who].cmd = "KICK" /\ \A c : JoinOf(c).cmd = "JOIN"
        BY DEF JoinOf
      <4> QED
        BY <4>1, <4>2
    <3>2. t = <<[cmd |-> "KICK", c |-> m.c, who |-> m.who]>> \/ t = << >>
      BY Zenon
    <3> HIDE DEF t
    <3> QED
      BY <1>2, <1>3, <3>1, <3>2
  <2>9. /\ DOMAIN channels' = DOMAIN channels
        /\ \A c \in DOMAIN channels' : channels'[c].joined = channels[c].joined
    BY <1>1, <2>4, <2>6, ChannelStep
  <2> HIDE DEF t
  <2> QED
    BY <2>1, <2>4, <2>7, <2>8, <2>9, HandledKeeps
<1>5. CASE reply_endofwho
  <2>1. Got("ENDOFWHO") /\ nick' = nick /\ races \subseteq races' /\ outbox' = outbox \o << >>
    BY <1>2, <1>5 DEF reply_endofwho
  <2>2. m.ev = "ENDOFWHO"
    BY <2>1 DEF Got, m
  <2>3. Heard(m, nick) = nick /\ \A c : ~About(m, nick, c)
    BY <2>2 DEF Heard, About
  <2>4. Known => [channel EXCEPT !.kick_nick = NULL].joined = channel.joined
    <3>1. NULL \in Nicks \cup {NULL}
      OBVIOUS
    <3> QED
      BY <1>1, <2>1, <3>1, HeadFields, KickNickKeeps
  <2>5. InChannel([channel EXCEPT !.kick_nick = NULL])
    BY <1>5 DEF reply_endofwho
  <2>6. /\ DOMAIN channels' = DOMAIN channels
        /\ \A c \in DOMAIN channels' : channels'[c].joined = channels[c].joined
    BY <1>1, <2>4, <2>5, ChannelStep
  <2> QED
    BY <1>2, <2>1, <2>3, <2>6, HandledKeeps
<1>6. CASE reply_bannedfromchan
  <2> DEFINE t == IF has_services /\ Known THEN <<[cmd |-> "JOIN", c |-> m.c]>> ELSE << >>
  <2>1. Got("BANNED") /\ channels' = channels /\ nick' = nick /\ races' = races /\ outbox' = outbox \o t
    BY <1>6 DEF reply_bannedfromchan
  <2>2. m.ev = "BANNED" /\ m.c \in Names
    BY <1>1, <2>1, HeadFields, LineFields
  <2>3. Heard(m, nick) = nick /\ \A c : ~About(m, nick, c)
    BY <2>2 DEF Heard, About
  <2>4. t \in Seq(Commands) /\ \A c \in Names \ DOMAIN channels : ~Has(t, JoinOf(c))
    <3>1. /\ [cmd |-> "JOIN", c |-> m.c] \in Commands
          /\ \A c : [cmd |-> "JOIN", c |-> m.c] = JoinOf(c) => c = m.c
      BY <2>2 DEF Commands, JoinOf
    <3>2. (Known /\ t = <<[cmd |-> "JOIN", c |-> m.c]>>) \/ t = << >>
      BY Zenon
    <3> HIDE DEF t
    <3>3. CASE t = << >>
      BY <1>2, <3>3
    <3>4. CASE Known /\ t = <<[cmd |-> "JOIN", c |-> m.c]>>
      BY <1>2, <1>3, <3>1, <3>4 DEF Known
    <3> QED
      BY <3>2, <3>3, <3>4
  <2> HIDE DEF t
  <2> QED
    BY <2>1, <2>3, <2>4, HandledKeeps
<1>7. CASE reply_toomanychannels
  <2>1. /\ Got("TOOMANY") /\ channels' = Without(m.c) /\ nick' = nick /\ outbox' = outbox
        /\ races \subseteq races'
        /\ me \in members[m.c] \/ Has(outbox, JoinOf(m.c)) => "refusal" \in races'
    BY <1>7 DEF reply_toomanychannels, Has, JoinOf
  <2>2. m.ev = "TOOMANY" /\ m.c \in Names
    BY <1>1, <2>1, HeadFields, LineFields
  <2>3. Heard(m, nick) = nick /\ \A c : ~About(m, nick, c)
    BY <2>2 DEF Heard, About
  <2>4. /\ DOMAIN channels' = DOMAIN channels \ {m.c}
        /\ \A c \in DOMAIN channels' : channels'[c].joined = channels[c].joined
    BY <2>1 DEF Without
  <2>5. Inside' = Inside
    BY <2>1 DEF Got, server, Inside
  <2>6. ASSUME NEW c PROVE JoinOf(c)' = JoinOf(c) /\ PartOf(c)' = PartOf(c)
    BY DEF JoinOf, PartOf
  <2>7. ASSUME NEW c PROVE Outside(c) => Outside(c)'
    <3>1. "refusal" \in races => "refusal" \in races'
      BY <2>1
    <3> QED
      BY <2>1, <2>5, <2>6, <3>1, Zenon DEF Outside
  <2>8. ASSUME NEW c \in DOMAIN channels, c = m.c PROVE Outside(c)'
    <3>1. c \in Inside => me \in members[c]
      BY DEF Inside
    <3>2. c \in Inside' \/ Has(outbox', JoinOf(c)) => "refusal" \in races'
      BY <2>1, <2>5, <2>8, <3>1
    <3> QED
      BY <2>6, <3>2, Zenon DEF Outside
  <2>9. \A c \in DOMAIN channels \ DOMAIN channels' : Outside(c)'
    BY <2>4, <2>8
  <2> QED
    BY <2>1, <2>3, <2>4, <2>7, <2>9, GotKeeps
<1> QED
  BY <1>4, <1>5, <1>6, <1>7 DEF Reply

\* !join sends a JOIN with the new entry, and !part a PART with its end.
LEMMA CommandSelf == ASSUME SelfInv, CType', Command PROVE SelfInv'
<1> USE DEF Say, Commanded, history, server
<1>1. PICK v : SelfWith(v)
  BY DEF SelfInv
<1>2. CType /\ Table(channels) /\ outbox \in Seq(Commands)
  BY DEF SelfInv, CType
<1>3. ASSUME NEW c PROVE JoinOf(c)' = JoinOf(c) /\ PartOf(c)' = PartOf(c)
  BY DEF JoinOf, PartOf
<1>4. ASSUME UNCHANGED <<nick, me, inbox>>, Inside' = Inside,
             \A d \in Names : /\ d \in DOMAIN channels' /\ News(v, inbox, d) = {} => Agrees(d)'
                              /\ d \notin DOMAIN channels' => Outside(d)'
      PROVE  SelfInv'
  <2>1. \A d \in Names : Told(v, inbox, d, Inside)
    BY <1>1 DEF SelfWith
  <2>2. SelfWith(v)'
    BY <1>1, <1>4, <2>1, Zenon DEF SelfWith
  <2> QED
    BY <2>2 DEF SelfInv
<1>5. ASSUME NEW d \in Names
      PROVE  /\ d \in DOMAIN channels /\ News(v, inbox, d) = {} => Agrees(d)
             /\ d \notin DOMAIN channels => Outside(d)
  BY <1>1 DEF SelfWith
<1>6. ASSUME NEW c \in Names, scriptcmd_join(c) PROVE SelfInv'
  <2> DEFINE t == <<JoinOf(c)>>
  <2>1. /\ c \notin DOMAIN channels /\ outbox' = outbox \o t
        /\ channels' = [d \in DOMAIN channels \cup {c} |-> IF d = c THEN NewChannel ELSE channels[d]]
        /\ UNCHANGED <<nick, me, inbox, members, races>>
    BY <1>6 DEF scriptcmd_join, JoinOf
  <2>2. Inside' = Inside
    BY <2>1 DEF Inside
  <2>3. t \in Seq(Commands) /\ \A d : Has(t, JoinOf(d)) => d = c
    <3>1. JoinOf(c) \in Commands /\ \A d : JoinOf(d) = JoinOf(c) => d = c
      BY DEF Commands, JoinOf
    <3> QED
      BY <3>1, HasOne, QueueGrows
  <2> HIDE DEF t
  <2>4. ASSUME NEW d
        PROVE  /\ Has(outbox, PartOf(d)) => Has(outbox', PartOf(d))
               /\ d # c => (Outside(d) => Outside(d)')
    BY <1>2, <2>1, <2>2, <2>3, SaidKeeps
  <2>5. Agrees(c)'
    <3>1. ~channels'[c].joined
      BY <2>1 DEF NewChannel
    <3>2. "refusal" \notin races /\ c \in Inside => Has(outbox, PartOf(c))
      BY <1>5, <2>1, Zenon DEF Outside, Ends, Has
    <3> QED
      BY <1>3, <2>1, <2>2, <2>4, <3>1, <3>2, Zenon DEF Agrees
  <2>6. ASSUME NEW d \in DOMAIN channels, Agrees(d) PROVE Agrees(d)'
    <3>1. channels'[d] = channels[d]
      BY <2>1
    <3> QED
      BY <1>3, <2>1, <2>2, <2>4, <2>6, <3>1, Zenon DEF Agrees
  <2>7. ASSUME NEW d \in Names
        PROVE  /\ d \in DOMAIN channels' /\ News(v, inbox, d) = {} => Agrees(d)'
               /\ d \notin DOMAIN channels' => Outside(d)'
    <3>1. DOMAIN channels' = DOMAIN channels \cup {c}
      BY <2>1
    <3> QED
      BY <1>5, <2>4, <2>5, <2>6, <3>1
  <2> QED
    BY <1>4, <2>1, <2>2, <2>7
<1>7. ASSUME NEW c \in Names, scriptcmd_part(c) PROVE SelfInv'
  <2> DEFINE t == <<PartOf(c)>>
  <2>1. /\ outbox' = outbox \o t /\ channels' = Without(c)
        /\ UNCHANGED <<nick, me, inbox, members, races>>
    BY <1>7 DEF scriptcmd_part, PartOf
  <2>2. Inside' = Inside
    BY <2>1 DEF Inside
  <2>3. t \in Seq(Commands) /\ \A d : ~Has(t, JoinOf(d))
    <3>1. PartOf(c) \in Commands /\ \A d : JoinOf(d) # PartOf(c)
      BY DEF Commands, JoinOf, PartOf
    <3> QED
      BY <3>1, HasOne, QueueGrows
  <2>4. Ends(outbox', PartOf(c), {JoinOf(c)})
    BY <1>2, <2>1, <2>3, EndsOne, EndsConcat
  <2> HIDE DEF t
  <2>5. ASSUME NEW d
        PROVE  /\ Has(outbox, PartOf(d)) => Has(outbox', PartOf(d))
               /\ Outside(d) => Outside(d)'
    BY <1>2, <2>1, <2>2, <2>3, SaidKeeps
  <2>6. Outside(c)'
    BY <1>3, <2>4, Zenon DEF Outside
  <2>7. ASSUME NEW d \in DOMAIN channels', Agrees(d) PROVE Agrees(d)'
    <3>1. channels'[d] = channels[d]
      BY <2>1 DEF Without
    <3> QED
      BY <1>3, <2>1, <2>2, <2>5, <2>7, <3>1, Zenon DEF Agrees
  <2>8. ASSUME NEW d \in Names
        PROVE  /\ d \in DOMAIN channels' /\ News(v, inbox, d) = {} => Agrees(d)'
               /\ d \notin DOMAIN channels' => Outside(d)'
    <3>1. DOMAIN channels' = DOMAIN channels \ {c}
      BY <2>1 DEF Without
    <3> QED
      BY <1>5, <2>5, <2>6, <2>7, <3>1
  <2> QED
    BY <1>4, <2>1, <2>2, <2>8
<1> QED
  BY <1>6, <1>7 DEF Command

\* A connection that begins: nothing is under way, and the bot is nowhere.
Fresh ==
  /\ CType /\ inbox = << >> /\ nick = me /\ \A c \in Names : me \notin members[c]
  /\ \A c \in DOMAIN channels : ~channels[c].joined
  /\ outbox = JoinAll(channels)

\* It satisfies the invariant.
LEMMA FreshSelf == Fresh => SelfInv
<1> SUFFICES ASSUME Fresh PROVE SelfInv
  OBVIOUS
<1> USE DEF Fresh
<1> DEFINE v == [i \in 0..0 |-> nick]
<1>1. Len(inbox) = 0 /\ v[0] = nick
  OBVIOUS
<1> HIDE DEF v
<1>2. Follows(v, inbox, nick, me) /\ \A c : News(v, inbox, c) = {}
  BY <1>1 DEF Follows, News
<1>3. \A c : c \notin Inside
  BY DEF Inside
<1>4. \A c \in Names : Told(v, inbox, c, Inside)
  BY <1>2 DEF Told
<1>5. \A c \in DOMAIN channels : Agrees(c)
  BY <1>3 DEF Agrees
<1>6. \A c \in Names \ DOMAIN channels : Outside(c)
  <2>1. \A c, d : JoinOf(c) = [cmd |-> "JOIN", c |-> d] => c = d
    BY DEF JoinOf
  <2>2. Table(channels)
    BY DEF CType
  <2> QED
    BY <1>3, <2>1, <2>2, JoinAllIs DEF Outside
<1>7. SelfWith(v)
  BY <1>2, <1>4, <1>5, <1>6 DEF SelfWith
<1> QED
  BY <1>7 DEF SelfInv

\* The state at the start.
LEMMA InitSelf == ASSUME Init PROVE SelfInv
<1>1. CType
  BY InitTypes
<1>2. outbox = JoinAll(channels)
  <2>1. {d \in DOMAIN channels : ~channels[d].joined} = conf
    BY DEF Init, NewChannel
  <2> QED
    BY <2>1, Zenon DEF Init, JoinAll
<1>3. \A c \in Names : me \notin members[c]
  BY DEF Init
<1>4. \A c \in DOMAIN channels : ~channels[c].joined
  BY DEF Init, NewChannel
<1> QED
  BY <1>1, <1>2, <1>3, <1>4, FreshSelf DEF Init, Fresh

\* A new connection.
LEMMA ReconnectSelf == ASSUME CType, CType', Reconnect PROVE SelfInv'
<1>1. /\ inbox' = << >> /\ nick' = me' /\ outbox' = JoinAll(channels')
      /\ channels' = [c \in DOMAIN channels |-> Out(channels[c])]
  BY DEF Reconnect
<1>2. \A c \in Names : me' \notin members'[c]
  BY DEF Reconnect
<1>3. \A c \in DOMAIN channels' : ~channels'[c].joined
  <2>1. \A c \in DOMAIN channels : Out(channels[c]).joined = FALSE
    BY OutKeeps, ChannelsAssumption DEF CType, Table
  <2> QED
    BY <1>1, <2>1
<1>4. Fresh'
  BY <1>1, <1>2, <1>3 DEF Fresh
<1>5. (Fresh => SelfInv)'
  BY FreshSelf, PTL
<1> QED
  BY <1>4, <1>5

\* Every step.
LEMMA SelfKeeps == ASSUME SelfInv, [Next]_vars PROVE SelfInv'
<1>1. CType /\ CType'
  BY TypesKeep DEF SelfInv
<1>2. CASE UNCHANGED vars
  BY <1>2 DEF SelfInv, CType, SelfWith, Agrees, Outside, Inside, Table, vars, bot, server, history
<1> QED
  BY <1>1, <1>2, PersonSelf, ServerSelf, ReplySelf, EventSelf, CommandSelf, ReconnectSelf DEF Next

\* Once the bot has seen everything it knows its nick, the channels that it is
\* in, and that it is in no other one: Script::irc_event and irc_reply, whatever
\* people, the server, commands and lost connections do in between.
THEOREM SelfKnown == Spec => []SelfIsTrue
<1>1. Spec => []SelfInv
  BY InitSelf, SelfKeeps, PTL DEF Spec
<1>2. SelfInv => SelfIsTrue
  <2>1. SUFFICES ASSUME SelfInv, inbox = << >>, outbox = << >>
                 PROVE  /\ nick = me
                        /\ "refusal" \notin races =>
                             \A c \in Names :
                               me \in members[c] <=> c \in DOMAIN channels /\ channels[c].joined
    BY DEF SelfIsTrue, Quiet
  <2>2. PICK v : SelfWith(v)
    BY <2>1 DEF SelfInv
  <2>3. nick = me /\ \A c : News(v, inbox, c) = {}
    BY <2>1, <2>2 DEF SelfWith, Follows, News
  <2>4. \A x, ys : ~Has(outbox, x) /\ ~Ends(outbox, x, ys)
    BY <2>1 DEF Has, Ends
  <2>5. ASSUME "refusal" \notin races, NEW c \in Names
        PROVE  me \in members[c] <=> c \in DOMAIN channels /\ channels[c].joined
    <3>1. c \in Inside <=> me \in members[c]
      BY DEF Inside
    <3>2. CASE c \in DOMAIN channels
      BY <2>2, <2>3, <2>4, <2>5, <3>1, <3>2, Zenon DEF SelfWith, Agrees
    <3>3. CASE c \notin DOMAIN channels
      BY <2>2, <2>4, <2>5, <3>1, <3>3, Zenon DEF SelfWith, Outside
    <3> QED
      BY <3>2, <3>3
  <2> QED
    BY <2>3, <2>5
<1> QED
  BY <1>1, <1>2, PTL

-----------------------------------------------------------------------------
(* What is in the list of users.                                              *)

\* Nobody is in it twice.
Once(ch) == \A i, j \in DOMAIN ch.users : ch.users[i].nick = ch.users[j].nick => i = j

\* n is in it, with op or without.
On(ch, n, o) == \E i \in DOMAIN ch.users : ch.users[i].nick = n /\ ch.users[i].op = o

Listed(ch, n) == \E o \in BOOLEAN : On(ch, n, o)

\* The places of a list.
LEMMA UsersAre ==
  ASSUME NEW ch \in ChannelType
  PROVE  /\ ch.users \in Seq(User) /\ Len(ch.users) \in Nat /\ DOMAIN ch.users = 1..Len(ch.users)
         /\ \A i \in 1..Len(ch.users) : /\ ch.users[i] \in User
                                        /\ ch.users[i].nick \in Nicks /\ ch.users[i].op \in BOOLEAN
                                        /\ Listed(ch, ch.users[i].nick)
<1>1. ch.users \in Seq(User)
  BY ChannelFields
<1>2. Len(ch.users) \in Nat /\ DOMAIN ch.users = 1..Len(ch.users) /\ \A i \in 1..Len(ch.users) : ch.users[i] \in User
  BY <1>1
<1>3. \A u \in User : u.nick \in Nicks /\ u.op \in BOOLEAN
  BY DEF User
<1>4. ASSUME NEW i \in 1..Len(ch.users) PROVE Listed(ch, ch.users[i].nick)
  <2>1. i \in DOMAIN ch.users /\ ch.users[i].op \in BOOLEAN
    BY <1>2, <1>3
  <2>2. On(ch, ch.users[i].nick, ch.users[i].op)
    BY <2>1, Zenon DEF On
  <2> QED
    BY <2>1, <2>2 DEF Listed
<1> QED
  BY <1>1, <1>2, <1>3, <1>4

\* Who is listed has a place.
LEMMA ListedIs ==
  ASSUME NEW ch \in ChannelType, NEW n
  PROVE  Listed(ch, n) <=> \E i \in 1..Len(ch.users) : ch.users[i].nick = n
<1>1. /\ DOMAIN ch.users = 1..Len(ch.users)
      /\ \A i \in 1..Len(ch.users) : Listed(ch, ch.users[i].nick)
  BY UsersAre
<1> QED
  BY <1>1 DEF Listed, On

\* The index of a nick is where it is, and 0 if it is nowhere.
LEMMA FoundIs ==
  ASSUME NEW ch \in ChannelType, NEW n
  PROVE  /\ user_index(ch, n) = 0 <=> ~Listed(ch, n)
         /\ user_index(ch, n) # 0 => /\ user_index(ch, n) \in 1..Len(ch.users)
                                     /\ ch.users[user_index(ch, n)].nick = n
<1> DEFINE is == {i \in 1..Len(ch.users) : ch.users[i].nick = n}
<1>1. user_index(ch, n) = IF is # {} THEN (CHOOSE x \in is : \A y \in is : x =< y) ELSE 0
  BY DEF user_index, SelectInSeq, Min
<1>2. /\ is \in SUBSET Nat /\ 0 \notin is
      /\ \A i \in is : i \in 1..Len(ch.users) /\ ch.users[i].nick = n
  BY UsersAre
<1>3. is # {} <=> Listed(ch, n)
  BY ListedIs
<1> HIDE DEF is
<1>4. is # {} => user_index(ch, n) \in is
  <2>1. ASSUME is # {} PROVE \E x \in is : \A y \in is : x =< y
    BY <1>2, <2>1, LeastExists
  <2> QED
    BY <1>1, <2>1
<1> QED
  BY <1>1, <1>2, <1>3, <1>4

\* Another list of users.
LEMMA UsersBecome ==
  ASSUME NEW ch \in ChannelType, NEW us \in Seq(User)
  PROVE  /\ [ch EXCEPT !.users = us] \in ChannelType /\ [ch EXCEPT !.users = us].users = us
         /\ [ch EXCEPT !.users = us].joined = ch.joined
         /\ [ch EXCEPT !.users = us].kick_nick = ch.kick_nick
  BY DEF ChannelType, User

\* new has who was in ch, and n if he was not and there is room.
Gains(new, ch, n, op) ==
  \A k, o : On(new, k, o) <=>
    On(ch, k, o) \/ (~Listed(ch, n) /\ Len(ch.users) # C_USERS_MAX /\ k = n /\ o = op)

\* Channel::user_add: who was in the list, and the new one if he was not and there is room.
LEMMA AddIs ==
  ASSUME NEW ch \in ChannelType, NEW n \in Nicks, NEW op \in BOOLEAN, Once(ch)
  PROVE  Once(user_add(ch, n, op)) /\ Gains(user_add(ch, n, op), ch, n, op)
<1> DEFINE u  == [nick |-> n, op |-> op]
           us == Append(ch.users, u)
           new == user_add(ch, n, op)
<1>1. /\ ch.users \in Seq(User) /\ Len(ch.users) \in Nat /\ DOMAIN ch.users = 1..Len(ch.users)
      /\ \A i \in 1..Len(ch.users) : Listed(ch, ch.users[i].nick)
  BY UsersAre
<1>2. u \in User /\ u.nick = n /\ u.op = op
  BY DEF User
<1> HIDE DEF u
<1>3. /\ us \in Seq(User) /\ DOMAIN us = 1..(Len(ch.users) + 1) /\ us[Len(ch.users) + 1] = u
      /\ \A i \in 1..Len(ch.users) : us[i] = ch.users[i]
  BY <1>1, <1>2
<1>4. new = IF Listed(ch, n) \/ Len(ch.users) = C_USERS_MAX THEN ch ELSE [ch EXCEPT !.users = us]
  BY FoundIs DEF user_add, u
<1> HIDE DEF us, new
<1>5. CASE Listed(ch, n) \/ Len(ch.users) = C_USERS_MAX
  BY <1>4, <1>5 DEF new, Gains
<1>6. CASE ~Listed(ch, n) /\ Len(ch.users) # C_USERS_MAX
  <2>1. new.users = us
    BY <1>3, <1>4, <1>6, UsersBecome
  <2>2. \A i \in 1..(Len(ch.users) + 1) : i \in 1..Len(ch.users) \/ i = Len(ch.users) + 1
    BY <1>1
  <2>3. \A i \in 1..Len(ch.users) : i \in 1..(Len(ch.users) + 1) /\ ch.users[i].nick # n
    BY <1>1, <1>6
  <2>4. \A i, j \in DOMAIN us : us[i].nick = us[j].nick => i = j
    BY <1>1, <1>2, <1>3, <2>2, <2>3 DEF Once
  <2>5. ASSUME NEW k, NEW o PROVE On(new, k, o) <=> On(ch, k, o) \/ (k = n /\ o = op)
    <3>1. Len(ch.users) + 1 \in DOMAIN us
      BY <1>1, <1>3
    <3> QED
      BY <1>1, <1>2, <1>3, <2>1, <2>2, <2>3, <3>1 DEF On
  <2> QED
    BY <1>6, <2>1, <2>4, <2>5 DEF Once, new, Gains
<1> QED
  BY <1>5, <1>6

\* A list without one of its places.
LEMMA RemovedIs ==
  ASSUME NEW S, NEW s \in Seq(S), NEW i \in 1..Len(s)
  PROVE  /\ RemoveAt(s, i) \in Seq(S) /\ DOMAIN RemoveAt(s, i) = 1..(Len(s) - 1)
         /\ \A j \in 1..(Len(s) - 1) : RemoveAt(s, i)[j] = IF j < i THEN s[j] ELSE s[j + 1]
<1> DEFINE a == SubSeq(s, 1, i - 1)
           b == SubSeq(s, i + 1, Len(s))
<1>1. /\ a \in Seq(S) /\ Len(a) = i - 1 /\ \A j \in 1..(i - 1) : a[j] = s[j]
      /\ Len(s) \in Nat /\ i \in Nat
  OBVIOUS
<1>2. b \in Seq(S) /\ Len(b) = Len(s) - i /\ \A j \in 1..(Len(s) - i) : b[j] = s[j + i]
  OBVIOUS
<1> HIDE DEF a, b
<1>3. /\ a \o b \in Seq(S) /\ Len(a \o b) = Len(a) + Len(b) /\ DOMAIN (a \o b) = 1..Len(a \o b)
      /\ \A j \in 1..Len(a) : (a \o b)[j] = a[j]
      /\ \A j \in 1..Len(b) : (a \o b)[Len(a) + j] = b[j]
  <2>1. \A p, q \in Seq(S) : /\ p \o q \in Seq(S) /\ Len(p \o q) = Len(p) + Len(q)
                             /\ DOMAIN (p \o q) = 1..Len(p \o q)
                             /\ \A j \in 1..Len(p) : (p \o q)[j] = p[j]
                             /\ \A j \in 1..Len(q) : (p \o q)[Len(p) + j] = q[j]
    OBVIOUS
  <2> QED
    BY <1>1, <1>2, <2>1
<1>4. Len(a \o b) = Len(s) - 1
  BY <1>1, <1>2, <1>3
<1>5. ASSUME NEW j \in 1..(Len(s) - 1) PROVE (a \o b)[j] = IF j < i THEN s[j] ELSE s[j + 1]
  <2>1. CASE j < i
    <3>1. j \in 1..(i - 1)
      BY <1>1, <2>1
    <3> QED
      BY <1>1, <1>3, <2>1, <3>1
  <2>2. CASE ~(j < i)
    <3> DEFINE k == j - (i - 1)
    <3>1. k \in 1..(Len(s) - i) /\ (i - 1) + k = j /\ k + i = j + 1
      BY <1>1, <2>2
    <3> HIDE DEF k
    <3>2. (a \o b)[(i - 1) + k] = b[k] /\ b[k] = s[k + i]
      BY <1>1, <1>2, <1>3, <3>1
    <3> QED
      BY <2>2, <3>1, <3>2
  <2> QED
    BY <2>1, <2>2
<1> QED
  BY <1>3, <1>4, <1>5 DEF RemoveAt, a, b

\* Channel::user_del: who was in the list, but for one nick.
LEMMA DelIs ==
  ASSUME NEW ch \in ChannelType, NEW n, Once(ch)
  PROVE  /\ Once(user_del(ch, n)) /\ user_del(ch, n).kick_nick = ch.kick_nick
         /\ user_del(ch, n).joined = ch.joined
         /\ \A k, o : On(user_del(ch, n), k, o) <=> k # n /\ On(ch, k, o)
<1> DEFINE i  == user_index(ch, n)
           us == RemoveAt(ch.users, i)
           new == user_del(ch, n)
<1>1. /\ ch.users \in Seq(User) /\ Len(ch.users) \in Nat /\ DOMAIN ch.users = 1..Len(ch.users)
      /\ \A j \in 1..Len(ch.users) : Listed(ch, ch.users[j].nick)
  BY UsersAre
<1>2. new = IF i = 0 THEN ch ELSE [ch EXCEPT !.users = us]
  BY DEF user_del
<1>3. /\ i = 0 <=> ~Listed(ch, n)
      /\ i # 0 => i \in 1..Len(ch.users) /\ ch.users[i].nick = n
  BY FoundIs
<1> HIDE DEF i, new
<1>4. CASE i = 0
  <2>1. \A k, o : On(ch, k, o) => k # n
    BY <1>1, <1>3, <1>4 DEF On
  <2> QED
    BY <1>2, <1>4, <2>1 DEF new
<1>5. CASE i # 0
  <2>1. i \in 1..Len(ch.users) /\ ch.users[i].nick = n
    BY <1>3, <1>5
  <2>2. /\ us \in Seq(User) /\ DOMAIN us = 1..(Len(ch.users) - 1)
        /\ \A j \in 1..(Len(ch.users) - 1) : us[j] = IF j < i THEN ch.users[j] ELSE ch.users[j + 1]
    BY <1>1, <2>1, RemovedIs
  <2> HIDE DEF us
  <2>3. new.users = us /\ new.kick_nick = ch.kick_nick /\ new.joined = ch.joined
    BY <1>2, <1>5, <2>2, UsersBecome
  <2> DEFINE old(j) == IF j < i THEN j ELSE j + 1
  <2>4. ASSUME NEW j \in 1..(Len(ch.users) - 1)
        PROVE  old(j) \in 1..Len(ch.users) /\ old(j) # i /\ us[j] = ch.users[old(j)]
    BY <1>1, <2>1, <2>2
  <2>5. ASSUME NEW k \in 1..Len(ch.users), k # i
        PROVE  \E j \in 1..(Len(ch.users) - 1) : old(j) = k
    <3>1. CASE k < i
      <4>1. k \in 1..(Len(ch.users) - 1) /\ old(k) = k
        BY <1>1, <2>1, <3>1
      <4> QED
        BY <4>1
    <3>2. CASE ~(k < i)
      <4>1. k - 1 \in 1..(Len(ch.users) - 1) /\ old(k - 1) = k
        BY <1>1, <2>1, <2>5, <3>2
      <4> QED
        BY <4>1
    <3> QED
      BY <3>1, <3>2
  <2>6. \A j, k \in 1..(Len(ch.users) - 1) : old(j) = old(k) => j = k
    BY <1>1, <2>1
  <2> HIDE DEF old
  <2>7. \A j, k \in DOMAIN us : us[j].nick = us[k].nick => j = k
    <3> TAKE j, k \in DOMAIN us
    <3> HAVE us[j].nick = us[k].nick
    <3>1. /\ old(j) \in DOMAIN ch.users /\ us[j] = ch.users[old(j)]
          /\ old(k) \in DOMAIN ch.users /\ us[k] = ch.users[old(k)]
      BY <1>1, <2>2, <2>4
    <3>2. old(j) = old(k)
      BY <3>1 DEF Once
    <3> QED
      BY <2>2, <2>6, <3>2
  <2>8. ASSUME NEW k, NEW o PROVE On(new, k, o) <=> k # n /\ On(ch, k, o)
    <3>1. ASSUME NEW j \in DOMAIN us, us[j].nick = k, us[j].op = o PROVE k # n /\ On(ch, k, o)
      <4>1. old(j) \in DOMAIN ch.users /\ old(j) # i /\ us[j] = ch.users[old(j)]
        BY <1>1, <2>2, <2>4
      <4>2. ch.users[old(j)].nick # n
        BY <1>1, <2>1, <4>1 DEF Once
      <4> QED
        BY <3>1, <4>1, <4>2 DEF On
    <3>2. ASSUME NEW q \in DOMAIN ch.users, ch.users[q].nick = k, ch.users[q].op = o, k # n
          PROVE  \E j \in DOMAIN us : us[j].nick = k /\ us[j].op = o
      <4>1. q \in 1..Len(ch.users) /\ q # i
        BY <1>1, <2>1, <3>2
      <4>2. PICK j \in 1..(Len(ch.users) - 1) : old(j) = q
        BY <2>5, <4>1
      <4>3. j \in DOMAIN us /\ us[j] = ch.users[q]
        BY <2>2, <2>4, <4>2
      <4> QED
        BY <3>2, <4>3
    <3> QED
      BY <2>3, <3>1, <3>2 DEF On
  <2> QED
    BY <2>3, <2>7, <2>8 DEF Once, new
<1> QED
  BY <1>4, <1>5

\* One of the list is exchanged, for one whom nobody else in it is called like.
LEMMA ExchangeIs ==
  ASSUME NEW ch \in ChannelType, Once(ch), NEW i \in 1..Len(ch.users), NEW v \in User,
         \A j \in 1..Len(ch.users) : j # i => ch.users[j].nick # v.nick,
         NEW new, new = [ch EXCEPT !.users = [ch.users EXCEPT ![i] = v]]
  PROVE  /\ Once(new) /\ new.kick_nick = ch.kick_nick /\ new.joined = ch.joined
         /\ \A k, o : On(new, k, o) <=> \/ k # ch.users[i].nick /\ On(ch, k, o)
                                        \/ k = v.nick /\ o = v.op
<1> DEFINE us == [ch.users EXCEPT ![i] = v]
<1>1. ch.users \in Seq(User) /\ Len(ch.users) \in Nat /\ DOMAIN ch.users = 1..Len(ch.users)
  BY UsersAre
<1>2. /\ us \in Seq(User) /\ DOMAIN us = 1..Len(ch.users) /\ us[i] = v
      /\ \A j \in 1..Len(ch.users) : j # i => us[j] = ch.users[j]
  BY <1>1
<1> HIDE DEF us
<1>3. new.users = us /\ new.kick_nick = ch.kick_nick /\ new.joined = ch.joined
  BY <1>2, UsersBecome DEF us
<1>4. \A j \in 1..Len(ch.users) : j # i => ch.users[j].nick # ch.users[i].nick
  BY <1>1 DEF Once
<1>5. \A j, k \in DOMAIN us : us[j].nick = us[k].nick => j = k
  BY <1>1, <1>2, <1>4 DEF Once
<1>6. ASSUME NEW k, NEW o
      PROVE  On(new, k, o) <=> \/ k # ch.users[i].nick /\ On(ch, k, o)
                               \/ k = v.nick /\ o = v.op
  BY <1>1, <1>2, <1>3, <1>4 DEF On
<1> QED
  BY <1>3, <1>5, <1>6 DEF Once

\* Channel::user_change_op: one of the list, if he is there, has op or not.
LEMMA OpIs ==
  ASSUME NEW ch \in ChannelType, NEW n, NEW op \in BOOLEAN, Once(ch)
  PROVE  LET new == user_change_op(ch, n, op)
         IN  /\ Once(new) /\ new.kick_nick = ch.kick_nick /\ new.joined = ch.joined
             /\ \A k, o : On(new, k, o) <=> \/ k # n /\ On(ch, k, o)
                                            \/ k = n /\ Listed(ch, n) /\ o = op
<1> DEFINE i == user_index(ch, n)
           v == [ch.users[i] EXCEPT !.op = op]
           new == user_change_op(ch, n, op)
<1>1. /\ \A j \in 1..Len(ch.users) : ch.users[j] \in User /\ Listed(ch, ch.users[j].nick)
      /\ ch.users \in Seq(User) /\ DOMAIN ch.users = 1..Len(ch.users)
  BY UsersAre
<1>2. new = IF i = 0 THEN ch ELSE [ch EXCEPT !.users = [ch.users EXCEPT ![i] = v]]
  BY DEF user_change_op
<1>3. /\ i = 0 <=> ~Listed(ch, n)
      /\ i # 0 => i \in 1..Len(ch.users) /\ ch.users[i].nick = n
  BY FoundIs
<1> HIDE DEF i, new
<1>4. CASE i = 0
  <2>1. \A k, o : On(ch, k, o) => k # n
    BY <1>1, <1>3, <1>4 DEF On
  <2> QED
    BY <1>2, <1>3, <1>4, <2>1 DEF new
<1>5. CASE i # 0
  <2>1. i \in 1..Len(ch.users) /\ ch.users[i].nick = n /\ ch.users[i] \in User
    BY <1>1, <1>3, <1>5
  <2>2. v \in User /\ v.nick = n /\ v.op = op
    BY <2>1 DEF User
  <2> HIDE DEF v
  <2>3. \A j \in 1..Len(ch.users) : j # i => ch.users[j].nick # v.nick
    BY <1>1, <2>1, <2>2 DEF Once
  <2>4. new = [ch EXCEPT !.users = [ch.users EXCEPT ![i] = v]]
    BY <1>2, <1>5
  <2>5. /\ Once(new) /\ new.kick_nick = ch.kick_nick /\ new.joined = ch.joined
        /\ \A k, o : On(new, k, o) <=> \/ k # ch.users[i].nick /\ On(ch, k, o)
                                       \/ k = v.nick /\ o = v.op
    BY <2>1, <2>2, <2>3, <2>4, ExchangeIs
  <2> QED
    BY <1>3, <1>5, <2>1, <2>2, <2>5 DEF new
<1> QED
  BY <1>4, <1>5

\* Channel::user_change_nick: one of the list, if he is there, has another nick,
\* that nobody of the list has.
LEMMA NickIs ==
  ASSUME NEW ch \in ChannelType, NEW n, NEW k \in Nicks, Once(ch), ~Listed(ch, k)
  PROVE  LET new == user_change_nick(ch, n, k)
         IN  /\ Once(new) /\ new.kick_nick = ch.kick_nick /\ new.joined = ch.joined
             /\ \A j, o : On(new, j, o) <=> \/ j # n /\ On(ch, j, o)
                                            \/ j = k /\ On(ch, n, o)
<1> DEFINE i == user_index(ch, n)
           v == [ch.users[i] EXCEPT !.nick = k]
           new == user_change_nick(ch, n, k)
<1>1. /\ \A j \in 1..Len(ch.users) : ch.users[j] \in User /\ Listed(ch, ch.users[j].nick)
      /\ ch.users \in Seq(User) /\ DOMAIN ch.users = 1..Len(ch.users)
  BY UsersAre
<1>2. new = IF i = 0 THEN ch ELSE [ch EXCEPT !.users = [ch.users EXCEPT ![i] = v]]
  BY DEF user_change_nick
<1>3. /\ i = 0 <=> ~Listed(ch, n)
      /\ i # 0 => i \in 1..Len(ch.users) /\ ch.users[i].nick = n
  BY FoundIs
<1> HIDE DEF i, new
<1>4. CASE i = 0
  <2>1. \A j, o : On(ch, j, o) => j # n
    BY <1>1, <1>3, <1>4 DEF On
  <2> QED
    BY <1>2, <1>3, <1>4, <2>1 DEF new
<1>5. CASE i # 0
  <2>1. i \in 1..Len(ch.users) /\ ch.users[i].nick = n /\ ch.users[i] \in User
    BY <1>1, <1>3, <1>5
  <2>2. v \in User /\ v.nick = k /\ v.op = ch.users[i].op
    BY <2>1 DEF User
  <2> HIDE DEF v
  <2>3. \A j \in 1..Len(ch.users) : ch.users[j].nick # v.nick
    BY <1>1, <2>2
  <2>4. new = [ch EXCEPT !.users = [ch.users EXCEPT ![i] = v]]
    BY <1>2, <1>5
  <2>5. /\ Once(new) /\ new.kick_nick = ch.kick_nick /\ new.joined = ch.joined
        /\ \A j, o : On(new, j, o) <=> \/ j # ch.users[i].nick /\ On(ch, j, o)
                                       \/ j = v.nick /\ o = v.op
    BY <2>1, <2>2, <2>3, <2>4, ExchangeIs
  <2>6. \A o : On(ch, n, o) <=> o = ch.users[i].op
    BY <1>1, <2>1 DEF On, Once
  <2> QED
    BY <2>1, <2>2, <2>5, <2>6 DEF new
<1> QED
  BY <1>4, <1>5

\* Script::irc_event when the bot is out: an empty list.
LEMMA OutIs ==
  ASSUME NEW ch \in ChannelType
  PROVE  /\ Once(Out(ch)) /\ Out(ch).kick_nick = ch.kick_nick /\ Out(ch).joined = FALSE
         /\ Out(ch).users = << >> /\ \A k, o : ~On(Out(ch), k, o)
<1>1. /\ Out(ch).kick_nick = ch.kick_nick /\ Out(ch).joined = FALSE
      /\ Out(ch).users = << >>
  BY DEF Out, ChannelType
<1> QED
  BY <1>1 DEF Once, On

\* There is room for everybody.
Enough == Cardinality(Nicks) <= C_USERS_MAX

\* The list is full only when nobody is left to add.
LEMMA RoomFor ==
  ASSUME Enough, NEW ch \in ChannelType, Once(ch), NEW n \in Nicks, ~Listed(ch, n)
  PROVE  Len(ch.users) # C_USERS_MAX
<1> DEFINE k == Len(ch.users)
           f == [i \in 1..k |-> ch.users[i].nick]
<1>1. /\ k \in Nat /\ DOMAIN ch.users = 1..k
      /\ \A i \in 1..k : ch.users[i].nick \in Nicks \ {n}
  BY UsersAre
<1>2. IsFiniteSet(Nicks \ {n}) /\ Cardinality(Nicks \ {n}) = Cardinality(Nicks) - 1
      /\ Cardinality(Nicks) \in Nat
  BY ChannelsAssumption, FS_RemoveElement, FS_CardinalityType
<1>3. f \in Injection(1..k, Nicks \ {n})
  BY <1>1 DEF Once, Injection, IsInjective
<1>4. IsFiniteSet(1..k) /\ Cardinality(1..k) = k
  <2>1. 1 \in Int /\ k \in Int
    BY <1>1
  <2>2. Cardinality(1..k) = IF 1 > k THEN 0 ELSE k - 1 + 1
    BY <2>1, FS_Interval, Zenon
  <2> HIDE DEF k
  <2> QED
    BY <1>1, <2>1, <2>2, FS_Interval
<1> HIDE DEF f, k
<1>5. k <= Cardinality(Nicks \ {n})
  BY <1>2, <1>3, <1>4, FS_Injection
<1> QED
  BY <1>1, <1>2, <1>5, ChannelsAssumption DEF Enough, k

\* A MODE changes nothing of the list but who has op.
LEMMA ModesList ==
  ASSUME C_USERS_MAX \in Nat, NEW ch \in ChannelType, Len(ch.users) <= C_USERS_MAX,
         Len(m.modes) \in Nat, Once(ch)
  PROVE  /\ Once(ModeLetters(ch)) /\ ModeLetters(ch).kick_nick = ch.kick_nick
         /\ \A k : Listed(ModeLetters(ch), k) <=> Listed(ch, k)
<1> DEFINE n == Len(m.modes)
           Same(new) == /\ Once(new) /\ new.kick_nick = ch.kick_nick
                        /\ \A k : Listed(new, k) <=> Listed(ch, k)
           V == {st \in ModeStates(ch) : Same(st.ch)}
<1>1. PICK g : Letters(g, ch, n) /\ ModeLetters(ch) = g[n].ch
  BY LettersAre
<1>2. /\ g[0] \in ModeStates(ch) /\ g[0].ch = ch
      /\ \A i \in 1..n : g[i] = ModeLetter(g[i - 1], m.modes[i])
  <2>1. 0 \in 0..n
    OBVIOUS
  <2> QED
    BY <1>1, <2>1 DEF Letters, ModeStart
<1>3. ASSUME NEW st \in V, NEW l PROVE ModeLetter(st, l) \in V
  <2>1. st \in ModeStates(ch) /\ Same(st.ch)
    OBVIOUS
  <2>2. st.ch \in ChannelType /\ st.mode \in BOOLEAN /\ st \in [ch : ChannelType, mode : BOOLEAN, pos : Nat]
    BY <2>1 DEF ModeStates
  <2>3. ModeLetter(st, l) \in ModeStates(ch)
    BY <2>1, LetterKeeps
  <2>4. ModeLetter(st, l).ch = IF l = "o" THEN user_change_op(st.ch, Arg(st.pos), st.mode) ELSE st.ch
    BY <2>2 DEF ModeLetter
  <2>5. Same(user_change_op(st.ch, Arg(st.pos), st.mode))
    <3> DEFINE a == Arg(st.pos)
               new == user_change_op(st.ch, a, st.mode)
    <3>1. /\ Once(new) /\ new.kick_nick = st.ch.kick_nick
          /\ \A k, o : On(new, k, o) <=> \/ k # a /\ On(st.ch, k, o)
                                         \/ k = a /\ Listed(st.ch, a) /\ o = st.mode
      BY <2>1, <2>2, OpIs
    <3> HIDE DEF new, a
    <3>2. \A k : Listed(new, k) <=> Listed(st.ch, k)
      BY <2>2, <3>1 DEF Listed
    <3> QED
      BY <2>1, <3>1, <3>2 DEF new, a
  <2> HIDE DEF Same
  <2> QED
    BY <2>1, <2>3, <2>4, <2>5
<1>4. g[0] \in V
  BY <1>2
<1>5. n \in Nat /\ n \in 0..n
  OBVIOUS
<1> HIDE DEF V, n
<1>6. \A i \in 1..n : g[i - 1] \in V => g[i] \in V
  BY <1>2, <1>3
<1>7. g[n] \in V
  BY <1>4, <1>5, <1>6, StaysIn
<1> QED
  BY <1>1, <1>7 DEF V

\* A letter "o" changes op of whom the parameter names.
LEMMA OpLetter ==
  ASSUME NEW ch \in ChannelType, NEW b \in BOOLEAN, NEW k \in Nat,
         NEW st, st = [ch |-> ch, mode |-> b, pos |-> k]
  PROVE  ModeLetter(st, "o").ch = user_change_op(ch, Arg(k), b)
<1>1. st \in [ch : ChannelType, mode : BOOLEAN, pos : Nat] /\ st.ch = ch /\ st.mode = b /\ st.pos = k
  OBVIOUS
<1>2. ModeLetter(st, "o").ch = user_change_op(st.ch, Arg(st.pos), st.mode)
  BY <1>1 DEF ModeLetter
<1> QED
  BY <1>1, <1>2

\* Who is given op, or has it taken, by the only mode with a parameter, or by one
\* behind another.
LEMMA OneMode ==
  ASSUME C_USERS_MAX \in Nat, NEW ch \in ChannelType, Len(ch.users) <= C_USERS_MAX,
         NEW sign \in {"+", "-"}, NEW n,
         \/ m.modes = <<sign, "o">> /\ m.args = <<n>>
         \/ m.modes = <<sign, "b", "o">> /\ m.args = <<NULL, n>>
  PROVE  ModeLetters(ch) = user_change_op(ch, n, sign = "+")
<1> DEFINE b == sign = "+"
<1>1. b \in BOOLEAN
  BY Zenon
<1>2. CASE m.modes = <<sign, "o">> /\ m.args = <<n>>
  <2>1. Len(m.modes) = 2 /\ m.modes[1] = sign /\ m.modes[2] = "o" /\ Len(m.args) = 1 /\ m.args[1] = n
    BY <1>2
  <2>2. PICK g : Letters(g, ch, 2) /\ ModeLetters(ch) = g[2].ch
    BY <2>1, LettersAre
  <2>3. /\ g[0] = [ch |-> ch, mode |-> FALSE, pos |-> 1]
        /\ g[1] = ModeLetter(g[0], sign) /\ g[2] = ModeLetter(g[1], "o")
    <3>1. 1 \in 1..2 /\ 2 \in 1..2 /\ 1 - 1 = 0 /\ 2 - 1 = 1
      OBVIOUS
    <3> QED
      BY <2>1, <2>2, <3>1 DEF Letters, ModeStart
  <2>4. g[1] = [ch |-> ch, mode |-> b, pos |-> 1]
    BY <2>3 DEF ModeLetter
  <2> HIDE DEF b
  <2>5. g[2].ch = user_change_op(ch, Arg(1), b)
    BY <1>1, <2>3, <2>4, OpLetter
  <2>6. Arg(1) = n
    BY <2>1 DEF Arg
  <2> QED
    BY <2>2, <2>5, <2>6 DEF b
<1>3. CASE m.modes = <<sign, "b", "o">> /\ m.args = <<NULL, n>>
  <2>1. /\ Len(m.modes) = 3 /\ m.modes[1] = sign /\ m.modes[2] = "b" /\ m.modes[3] = "o"
        /\ Len(m.args) = 2 /\ m.args[2] = n
    BY <1>3
  <2>2. PICK g : Letters(g, ch, 3) /\ ModeLetters(ch) = g[3].ch
    BY <2>1, LettersAre
  <2>3. /\ g[0] = [ch |-> ch, mode |-> FALSE, pos |-> 1]
        /\ g[1] = ModeLetter(g[0], sign) /\ g[2] = ModeLetter(g[1], "b") /\ g[3] = ModeLetter(g[2], "o")
    <3>1. 1 \in 1..3 /\ 2 \in 1..3 /\ 3 \in 1..3 /\ 1 - 1 = 0 /\ 2 - 1 = 1 /\ 3 - 1 = 2
      OBVIOUS
    <3> QED
      BY <2>1, <2>2, <3>1 DEF Letters, ModeStart
  <2>4. g[1] = [ch |-> ch, mode |-> b, pos |-> 1]
    BY <2>3 DEF ModeLetter
  <2> HIDE DEF b
  <2>5. g[2] = [ch |-> ch, mode |-> b, pos |-> 2]
    BY <2>3, <2>4 DEF ModeLetter
  <2>6. g[3].ch = user_change_op(ch, Arg(2), b)
    BY <1>1, <2>3, <2>5, OpLetter
  <2>7. Arg(2) = n
    BY <2>1 DEF Arg
  <2> QED
    BY <2>2, <2>6, <2>7 DEF b
<1> QED
  BY <1>2, <1>3

-----------------------------------------------------------------------------
(* What the lines on their way to the bot tell of one channel: what it was    *)
(* before and after each of them.                                             *)

\* A channel as the server sees it, and the bot's nick.
View == {y \in [me : Nicks, members : SUBSET Nicks, ops : SUBSET Nicks] : y.ops \subseteq y.members}

\* The bot is in it.
In(y) == y.me \in y.members

Renamed(S, n, k) == IF n \in S THEN (S \ {n}) \cup {k} ELSE S

\* The line takes somebody out of c.
Goes(l, c) == l.ev = "QUIT" \/ (l.ev \in {"PART", "KICK"} /\ l.c = c)

\* It may be about who is in c, or has op there.
Touches(l, c) == l.ev \in {"QUIT", "NICK"} \/ (l.ev \in {"JOIN", "PART", "KICK", "MODE"} /\ l.c = c)

\* It gives op or takes it, and changes y to z.
Sets(l, y, z) ==
  \E sign \in {"+", "-"}, n \in Nicks :
    /\ \/ l.modes = <<sign, "o">> /\ l.args = <<n>>
       \/ l.modes = <<sign, "b", "o">> /\ l.args = <<NULL, n>>
    /\ z.ops = IF sign = "+" THEN y.ops \cup {n} ELSE y.ops \ {n}

\* It tells the bot, who is in c before and after it, what changes y to z.
Moves(l, y, z, c, R) ==
  /\ l.ev = "JOIN" /\ l.c = c =>
       l.who \notin y.members /\ z.members = y.members \cup {l.who} /\ z.ops = y.ops
  /\ Goes(l, c) => z.members = y.members \ {l.who} /\ z.ops = y.ops \ {l.who}
  /\ l.ev = "NICK" =>
       /\ l.new \notin y.members
       /\ z.members = Renamed(y.members, l.who, l.new) /\ z.ops = Renamed(y.ops, l.who, l.new)
  /\ l.ev = "MODE" /\ l.c = c => z.members = y.members /\ ("mode" \in R \/ Sets(l, y, z))
  /\ l.ev = "WHOREPLY" /\ l.c = c => l.who \in y.members /\ (l.op = TRUE <=> l.who \in y.ops)
  /\ ~Touches(l, c) => z.members = y.members /\ z.ops = y.ops

\* It is true of y before it and z after it, but for the races R.
Line(l, y, z, c, R) ==
  /\ z.me = Heard(l, y.me)
  /\ About(l, y.me, c) =>
       /\ In(z) <=> l.ev = "JOIN"
       /\ In(y) <=> l.ev # "JOIN"
       /\ l.ev = "JOIN" /\ z.me \in z.ops => "first" \in R
  /\ ~About(l, y.me, c) =>
       /\ In(z) <=> In(y)
       /\ In(y) => Moves(l, y, z, c, R)
       /\ l.ev = "JOIN" /\ l.c = c => In(y)
  /\ l.ev = "BANNED" /\ l.c = c => ~In(y)

\* v is c before each of the lines of s, and after the last one.
Chain(v, s, c, R) ==
  /\ v \in [0..Len(s) -> View]
  /\ \A i \in 1..Len(s) : Line(s[i], v[i - 1], v[i], c, R)

\* c as it is.
Here(c) == [me |-> me, members |-> members[c], ops |-> ops[c]]

\* Lines t are added, the first of which leads to z, and the others leave it alone.
Longer(v, s, t, z) == [i \in 0..(Len(s) + Len(t)) |-> IF i <= Len(s) THEN v[i] ELSE z]

\* w is v, and z after that.
Adds(w, v, s, t, z) ==
  /\ \A i \in 0..Len(s) : w[i] = v[i]
  /\ \A i \in 0..(Len(s) + Len(t)) : ~(i <= Len(s)) => w[i] = z

\* The first one is taken.
Shift(v, s) == [i \in 0..(Len(s) - 1) |-> v[i + 1]]

\* Another view is the last.
Ended(v, s, z) == [v EXCEPT ![Len(s)] = z]

\* What is true but for some races is true but for more.
LEMMA MoreRaces ==
  ASSUME NEW v, NEW s, NEW c, NEW R, NEW Q, R \subseteq Q, Chain(v, s, c, R)
  PROVE  Chain(v, s, c, Q)
<1>1. ASSUME NEW l, NEW y, NEW z, Line(l, y, z, c, R) PROVE Line(l, y, z, c, Q)
  BY <1>1 DEF Line, Moves
<1> QED
  BY <1>1 DEF Chain

\* Places of two sequences.
LEMMA TwoSeqs ==
  ASSUME NEW S, NEW s \in Seq(S), NEW t \in Seq(S)
  PROVE  /\ s \o t \in Seq(S) /\ Len(s \o t) = Len(s) + Len(t) /\ Len(s) \in Nat /\ Len(t) \in Nat
         /\ \A i \in 1..Len(s) : (s \o t)[i] = s[i]
         /\ \A i \in 1..Len(t) : (s \o t)[Len(s) + i] = t[i]
         /\ \A i \in 1..(Len(s) + Len(t)) :
              \/ i \in 1..Len(s)
              \/ i - Len(s) \in 1..Len(t) /\ (s \o t)[i] = t[i - Len(s)] /\ ~(i <= Len(s))
<1>1. /\ s \o t \in Seq(S) /\ Len(s \o t) = Len(s) + Len(t) /\ Len(s) \in Nat /\ Len(t) \in Nat
      /\ \A i \in 1..Len(s) : (s \o t)[i] = s[i]
      /\ \A i \in 1..Len(t) : (s \o t)[Len(s) + i] = t[i]
  OBVIOUS
<1>2. \A i \in 1..(Len(s) + Len(t)) :
        i \in 1..Len(s) \/ (i - Len(s) \in 1..Len(t) /\ Len(s) + (i - Len(s)) = i /\ ~(i <= Len(s)))
  BY <1>1
<1> QED
  BY <1>1, <1>2

\* Lines are added.
LEMMA ChainMore ==
  ASSUME NEW s \in Seq(Lines), NEW t \in Seq(Lines), NEW v, NEW c, NEW R, NEW z \in View,
         Chain(v, s, c, R), Line(t[1], v[Len(s)], z, c, R),
         \A i \in 2..Len(t) : Line(t[i], z, z, c, R)
  PROVE  Chain(Longer(v, s, t, z), s \o t, c, R) /\ Adds(Longer(v, s, t, z), v, s, t, z)
<1> DEFINE k == Len(s)
           n == Len(t)
           w == Longer(v, s, t, z)
<1>1. /\ s \o t \in Seq(Lines) /\ Len(s \o t) = k + n /\ k \in Nat /\ n \in Nat
      /\ \A i \in 1..k : (s \o t)[i] = s[i]
      /\ \A i \in 1..(k + n) :
           \/ i \in 1..k
           \/ i - k \in 1..n /\ (s \o t)[i] = t[i - k] /\ ~(i <= k)
  BY TwoSeqs
<1>2. /\ \A i \in 0..k : i \in 0..(k + n) /\ i <= k
      /\ \A i \in 1..k : i \in 0..k /\ i - 1 \in 0..k
  BY <1>1
<1>3. /\ \A i \in 0..k : w[i] = v[i]
      /\ \A i \in 0..(k + n) : ~(i <= k) => w[i] = z
      /\ w \in [0..(k + n) -> View]
  BY <1>2 DEF Longer, Chain
<1> HIDE DEF w
<1>4. ASSUME NEW i \in 1..(k + n) PROVE Line((s \o t)[i], w[i - 1], w[i], c, R)
  <2>1. CASE i \in 1..k
    BY <1>1, <1>2, <1>3, <2>1 DEF Chain
  <2>2. CASE i - k = 1 /\ 1 \in 1..n
    <3>1. i - 1 = k /\ k \in 0..k /\ ~(i <= k) /\ i \in 0..(k + n) /\ i \notin 1..k
      BY <1>1, <2>2
    <3>2. w[i - 1] = v[k] /\ w[i] = z /\ (s \o t)[i] = t[1] /\ t # << >>
      BY <1>1, <1>3, <2>2, <3>1
    <3> QED
      BY <3>2
  <2>3. CASE i - k \in 2..n
    <3>1. i - 1 \in 0..(k + n) /\ ~(i - 1 <= k) /\ ~(i <= k) /\ i \in 0..(k + n) /\ i \notin 1..k
      BY <1>1, <2>3
    <3>2. w[i - 1] = z /\ w[i] = z /\ (s \o t)[i] = t[i - k]
      BY <1>1, <1>3, <3>1
    <3> QED
      BY <2>3, <3>2
  <2> QED
    BY <1>1, <2>1, <2>2, <2>3
<1>5. Chain(w, s \o t, c, R)
  BY <1>1, <1>3, <1>4 DEF Chain
<1> QED
  BY <1>3, <1>5 DEF Adds, w

\* The first line is handled.
LEMMA ChainFirst ==
  ASSUME NEW s \in Seq(Lines), s # << >>, NEW v, NEW c, NEW R, Chain(v, s, c, R)
  PROVE  /\ Chain(Shift(v, s), Tail(s), c, R)
         /\ Len(Tail(s)) = Len(s) - 1 /\ Len(s) \in Nat \ {0}
         /\ \A i \in 0..(Len(s) - 1) : Shift(v, s)[i] = v[i + 1]
         /\ \A i \in 1..(Len(s) - 1) : Tail(s)[i] = s[i + 1]
         /\ Line(Head(s), v[0], v[1], c, R) /\ v[0] \in View /\ v[1] \in View
<1> DEFINE k == Len(s)
           w == Shift(v, s)
<1>1. /\ k \in Nat \ {0} /\ Len(Tail(s)) = k - 1 /\ Head(s) = s[1]
      /\ \A i \in 1..(k - 1) : Tail(s)[i] = s[i + 1]
  OBVIOUS
<1>2. /\ \A i \in 0..(k - 1) : i + 1 \in 0..k
      /\ \A i \in 1..(k - 1) : i + 1 \in 1..k /\ i - 1 \in 0..(k - 1) /\ i \in 0..(k - 1) /\ (i + 1) - 1 = i /\ (i - 1) + 1 = i
      /\ 1 \in 1..k /\ 0 \in 0..k /\ 1 \in 0..k /\ 1 - 1 = 0
  BY <1>1
<1>3. w \in [0..(k - 1) -> View] /\ \A i \in 0..(k - 1) : w[i] = v[i + 1]
  BY <1>2 DEF Shift, Chain
<1> HIDE DEF w
<1>4. ASSUME NEW i \in 1..(k - 1) PROVE Line(Tail(s)[i], w[i - 1], w[i], c, R)
  <2>1. Line(s[i + 1], v[(i + 1) - 1], v[i + 1], c, R)
    BY <1>2 DEF Chain
  <2>2. w[i - 1] = v[i] /\ w[i] = v[i + 1]
    BY <1>2, <1>3
  <2> QED
    BY <1>1, <1>2, <2>1, <2>2
<1>5. Line(Head(s), v[0], v[1], c, R) /\ v[0] \in View /\ v[1] \in View
  BY <1>1, <1>2 DEF Chain
<1> QED
  BY <1>1, <1>3, <1>4, <1>5 DEF Chain, w

\* What changes is nothing that the bot is told.
LEMMA ChainLast ==
  ASSUME NEW s \in Seq(Lines), NEW v, NEW c, NEW R, Chain(v, s, c, R),
         NEW z \in View, z.me = v[Len(s)].me, z = v[Len(s)] \/ (~In(z) /\ ~In(v[Len(s)]))
  PROVE  /\ Chain(Ended(v, s, z), s, c, R)
         /\ Ended(v, s, z)[Len(s)] = z
         /\ \A i \in 0..Len(s) : i # Len(s) => Ended(v, s, z)[i] = v[i]
         /\ \A i \in 0..Len(s) : /\ Ended(v, s, z)[i].me = v[i].me
                                 /\ In(Ended(v, s, z)[i]) <=> In(v[i])
<1> DEFINE k == Len(s)
           w == Ended(v, s, z)
<1>1. k \in Nat /\ k \in 0..k /\ \A i \in 1..k : i \in 0..k /\ i - 1 \in 0..k /\ i - 1 # k
  OBVIOUS
<1>2. /\ w \in [0..k -> View] /\ w[k] = z
      /\ \A i \in 0..k : i # k => w[i] = v[i]
  BY <1>1 DEF Ended, Chain
<1> HIDE DEF w
<1>3. ASSUME NEW i \in 1..k PROVE Line(s[i], w[i - 1], w[i], c, R)
  <2>1. Line(s[i], v[i - 1], v[i], c, R) /\ w[i - 1] = v[i - 1]
    BY <1>1, <1>2 DEF Chain
  <2>2. CASE i # k \/ z = v[k]
    BY <1>1, <1>2, <2>1, <2>2
  <2>3. CASE i = k /\ ~In(z) /\ ~In(v[k])
    <3>1. w[i] = z /\ z.me = v[i].me
      BY <1>2, <2>3
    <3>2. ~About(s[i], v[i - 1].me, c) => ~In(v[i - 1])
      BY <2>1, <2>3 DEF Line
    <3>3. Line(s[i], v[i - 1], z, c, R)
      <4> DEFINE l == s[i]
                 y == v[i - 1]
                 x == v[i]
      <4>1. Line(l, y, x, c, R) /\ z.me = x.me /\ ~In(z) /\ ~In(x) /\ (~About(l, y.me, c) => ~In(y))
        BY <2>1, <2>3, <3>1, <3>2
      <4> HIDE DEF l, y, x
      <4>2. Line(l, y, z, c, R)
        BY <4>1 DEF Line
      <4> QED
        BY <4>2 DEF l, y
    <3> QED
      BY <2>1, <3>1, <3>3
  <2> QED
    BY <2>2, <2>3
<1>4. ASSUME NEW i \in 0..k PROVE w[i].me = v[i].me /\ (In(w[i]) <=> In(v[i]))
  BY <1>2
<1> QED
  BY <1>2, <1>3, <1>4 DEF Chain, w

-----------------------------------------------------------------------------
(* What the bot has of a channel, as long as it follows the lines.            *)

\* The list is of those who are there, with op if they have it.
Sees(ch, y, R) ==
  /\ Once(ch) /\ (ch.joined => In(y))
  /\ \A n, o : On(ch, n, o) =>
       /\ In(y) /\ n \in y.members
       /\ R \cap {"first", "mode"} = {} => (o = TRUE <=> n \in y.ops)

\* Nobody is missing.
Full(ch, y) == \A n \in y.members : Listed(ch, n)

\* ch becomes new, when y becomes z: nobody is missing who was not before.
Kept(ch, y, new, z, R) ==
  /\ Sees(new, z, R)
  /\ Enough /\ In(y) /\ In(z) =>
       /\ Full(ch, y) => Full(new, z)
       /\ z.members = y.members => \A n : Listed(ch, n) => Listed(new, n)

\* Whoever is listed is listed with op or without.
LEMMA ListedOn == \A ch, n : Listed(ch, n) => On(ch, n, TRUE) \/ On(ch, n, FALSE)
  BY DEF Listed

\* On is about one who has a nick, and op or not.
LEMMA OnTypes ==
  ASSUME NEW ch \in ChannelType, NEW n, NEW o, On(ch, n, o)
  PROVE  n \in Nicks /\ o \in BOOLEAN /\ Listed(ch, n)
<1>1. /\ DOMAIN ch.users = 1..Len(ch.users)
      /\ \A i \in 1..Len(ch.users) : ch.users[i].nick \in Nicks /\ ch.users[i].op \in BOOLEAN
  BY UsersAre
<1>2. n \in Nicks /\ o \in BOOLEAN
  BY <1>1 DEF On
<1> QED
  BY <1>2 DEF Listed

\* A line that leaves the list alone, and what it is a list of.
LEMMA StaysKept ==
  ASSUME NEW ch, NEW new, NEW y, NEW z, NEW R, Sees(ch, y, R),
         Once(new), new.joined = ch.joined, \A n, o : On(new, n, o) <=> On(ch, n, o),
         In(z) <=> In(y), In(y) => z.members = y.members /\ z.ops = y.ops
  PROVE  Kept(ch, y, new, z, R)
<1>1. Sees(new, z, R)
  BY DEF Sees
<1>2. \A n : Listed(ch, n) => Listed(new, n)
  BY DEF Listed
<1> QED
  BY <1>1, <1>2 DEF Kept, Full

\* A line about something else.
LEMMA QuietKept ==
  ASSUME NEW ch, NEW y, NEW z, NEW l, NEW c, NEW R, Line(l, y, z, c, R),
         Sees(ch, y, R), ~Touches(l, c)
  PROVE  /\ Kept(ch, y, ch, z, R) /\ z.me = y.me
         /\ In(z) <=> In(y)
         /\ In(y) => z.members = y.members /\ z.ops = y.ops
<1>1. ~About(l, y.me, c) /\ l.ev # "NICK"
  BY DEF About, Touches
<1>2. (In(z) <=> In(y)) /\ (In(y) => Moves(l, y, z, c, R)) /\ z.me = y.me
  BY <1>1 DEF Line, Heard
<1>3. In(y) => z.members = y.members /\ z.ops = y.ops
  BY <1>2 DEF Moves
<1>4. Once(ch)
  BY DEF Sees
<1> QED
  BY <1>2, <1>3, <1>4, StaysKept

\* Script::irc_event, JOIN: somebody comes.
LEMMA ComesKept ==
  ASSUME NEW ch \in ChannelType, NEW y \in View, NEW z \in View, NEW l, NEW c, NEW R,
         Line(l, y, z, c, R), Sees(ch, y, R),
         l.ev = "JOIN", l.c = c, l.who \in Nicks, l.who # y.me,
         NEW new, Once(new), new.joined = ch.joined,
         Gains(new, ch, l.who, FALSE)
  PROVE  Kept(ch, y, new, z, R)
<1>1. ~About(l, y.me, c)
  BY DEF About
<1>2. In(y) /\ In(z) /\ Moves(l, y, z, c, R)
  BY <1>1 DEF Line
<1>3. l.who \notin y.members /\ z.members = y.members \cup {l.who} /\ z.ops = y.ops /\ y.ops \subseteq y.members
  BY <1>2 DEF Moves, View
<1>4. Sees(new, z, R)
  BY <1>2, <1>3 DEF Sees, Gains
<1>5. \A n : Listed(ch, n) => Listed(new, n)
  BY DEF Listed, Gains
<1>6. Enough => Listed(new, l.who)
  <2> SUFFICES ASSUME Enough, ~Listed(ch, l.who) PROVE Listed(new, l.who)
    BY <1>5
  <2>1. Len(ch.users) # C_USERS_MAX
    BY RoomFor DEF Sees
  <2>2. On(new, l.who, FALSE)
    BY <2>1 DEF Gains
  <2> QED
    BY <2>2 DEF Listed
<1> QED
  BY <1>3, <1>4, <1>5, <1>6 DEF Kept, Full

\* Script::irc_event, JOIN: the bot comes.
LEMMA EntersKept ==
  ASSUME NEW ch \in ChannelType, NEW y \in View, NEW z \in View, NEW l, NEW c, NEW R,
         Line(l, y, z, c, R), Sees(ch, y, R),
         l.ev = "JOIN", l.c = c, l.who = y.me,
         NEW new, Once(new),
         \A k, o : On(new, k, o) => On(ch, k, o) \/ (k = l.who /\ o = FALSE)
  PROVE  Kept(ch, y, new, z, R)
<1>1. About(l, y.me, c)
  BY DEF About
<1>2. In(z) /\ ~In(y) /\ (z.me \in z.ops => "first" \in R) /\ z.me = y.me
  BY <1>1 DEF Line, Heard
<1>3. \A k, o : On(new, k, o) => k = z.me /\ o = FALSE
  BY <1>2 DEF Sees
<1>4. Sees(new, z, R)
  BY <1>2, <1>3 DEF Sees, In
<1> QED
  BY <1>2, <1>4 DEF Kept

\* Script::irc_reply, RPL_WHOREPLY: one who is there.
LEMMA ToldKept ==
  ASSUME NEW ch \in ChannelType, NEW y \in View, NEW z \in View, NEW l, NEW c, NEW R,
         Line(l, y, z, c, R), Sees(ch, y, R), In(y),
         l.ev = "WHOREPLY", l.c = c, l.who \in Nicks, l.op \in BOOLEAN,
         NEW new, Once(new), new.joined = ch.joined,
         Gains(new, ch, l.who, l.op)
  PROVE  Kept(ch, y, new, z, R) /\ (Enough => Listed(new, l.who))
<1>1. ~About(l, y.me, c) /\ ~Touches(l, c)
  BY DEF About, Touches
<1>2. In(z) /\ Moves(l, y, z, c, R)
  BY <1>1 DEF Line
<1>3. l.who \in y.members /\ (l.op = TRUE <=> l.who \in y.ops) /\ z.members = y.members /\ z.ops = y.ops
  BY <1>1, <1>2 DEF Moves
<1>4. Sees(new, z, R)
  BY <1>2, <1>3 DEF Sees, Gains
<1>5. \A n : Listed(ch, n) => Listed(new, n)
  BY DEF Listed, Gains
<1>6. Enough => Listed(new, l.who)
  <2> SUFFICES ASSUME Enough, ~Listed(ch, l.who) PROVE Listed(new, l.who)
    BY <1>5
  <2>1. Len(ch.users) # C_USERS_MAX
    BY RoomFor DEF Sees
  <2>2. On(new, l.who, l.op)
    BY <2>1 DEF Gains
  <2> QED
    BY <2>2 DEF Listed
<1> QED
  BY <1>3, <1>4, <1>5, <1>6 DEF Kept, Full

\* Script::irc_event, QUIT, KICK and PART: somebody goes.
LEMMA GoesKept ==
  ASSUME NEW ch \in ChannelType, NEW y \in View, NEW z \in View, NEW l, NEW c, NEW R,
         Line(l, y, z, c, R), Sees(ch, y, R), Goes(l, c), ~About(l, y.me, c),
         NEW new, Once(new), new.joined = ch.joined,
         \A k, o : On(new, k, o) <=> k # l.who /\ On(ch, k, o)
  PROVE  Kept(ch, y, new, z, R)
<1>1. (In(z) <=> In(y)) /\ (In(y) => Moves(l, y, z, c, R))
  BY DEF Line
<1>2. In(y) => z.members = y.members \ {l.who} /\ z.ops = y.ops \ {l.who}
  BY <1>1 DEF Moves
<1>3. Sees(new, z, R)
  BY <1>1, <1>2 DEF Sees
<1>4. \A n : n # l.who /\ Listed(ch, n) => Listed(new, n)
  BY DEF Listed
<1>5. \A n : Listed(ch, n) => n \in y.members
  BY ListedOn DEF Sees
<1> QED
  BY <1>2, <1>3, <1>4, <1>5 DEF Kept, Full

\* Script::irc_event, KICK and PART: the bot is out.
LEMMA OutKept ==
  ASSUME NEW ch, NEW y, NEW z, NEW l, NEW c, NEW R,
         Line(l, y, z, c, R), l.ev \in {"PART", "KICK"}, About(l, y.me, c),
         NEW new, Once(new), new.joined = FALSE, \A k, o : ~On(new, k, o)
  PROVE  Kept(ch, y, new, z, R)
<1>1. ~In(z)
  BY DEF Line
<1> QED
  BY <1>1 DEF Kept, Sees

\* Script::irc_event, NICK: somebody has another nick.
LEMMA NickKept ==
  ASSUME NEW ch \in ChannelType, NEW y \in View, NEW z \in View, NEW l, NEW c, NEW R,
         Line(l, y, z, c, R), Sees(ch, y, R), l.ev = "NICK",
         NEW new, Once(new), new.joined = ch.joined,
         \A j, o : On(new, j, o) <=> (j # l.who /\ On(ch, j, o)) \/ (j = l.new /\ On(ch, l.who, o))
  PROVE  Kept(ch, y, new, z, R)
<1>1. (In(z) <=> In(y)) /\ (In(y) => Moves(l, y, z, c, R))
  BY DEF Line, About
<1>2. In(y) => /\ l.new \notin y.members /\ y.ops \subseteq y.members
               /\ z.members = Renamed(y.members, l.who, l.new) /\ z.ops = Renamed(y.ops, l.who, l.new)
  BY <1>1 DEF Moves, View
<1>3. Sees(new, z, R)
  <2> SUFFICES ASSUME NEW n, NEW o, On(new, n, o)
               PROVE  /\ In(z) /\ n \in z.members
                      /\ R \cap {"first", "mode"} = {} => (o = TRUE <=> n \in z.ops)
    BY <1>1 DEF Sees
  <2>1. CASE n # l.who /\ On(ch, n, o)
    <3>1. In(y) /\ n \in y.members /\ (R \cap {"first", "mode"} = {} => (o = TRUE <=> n \in y.ops))
      BY <2>1 DEF Sees
    <3> QED
      BY <1>1, <1>2, <2>1, <3>1 DEF Renamed
  <2>2. CASE n = l.new /\ On(ch, l.who, o)
    <3>1. /\ In(y) /\ l.who \in y.members
          /\ R \cap {"first", "mode"} = {} => (o = TRUE <=> l.who \in y.ops)
      BY <2>2 DEF Sees
    <3> QED
      BY <1>1, <1>2, <2>2, <3>1 DEF Renamed
  <2> QED
    BY <2>1, <2>2
<1>4. /\ \A n : n # l.who /\ Listed(ch, n) => Listed(new, n)
      /\ Listed(ch, l.who) => Listed(new, l.new)
  BY DEF Listed
<1>5. \A n : Listed(ch, n) => n \in y.members
  BY ListedOn DEF Sees
<1>6. In(y) => (Full(ch, y) => Full(new, z))
  BY <1>2, <1>4 DEF Full, Renamed
<1>7. In(y) => (z.members = y.members => \A n : Listed(ch, n) => Listed(new, n))
  BY <1>2, <1>4, <1>5 DEF Renamed
<1> QED
  BY <1>3, <1>6, <1>7 DEF Kept

\* Script::irc_event, MODE: somebody gets op, or loses it.
LEMMA ModeKept ==
  ASSUME C_USERS_MAX \in Nat, NEW ch \in ChannelType, Len(ch.users) <= C_USERS_MAX, Len(m.modes) \in Nat,
         NEW y \in View, NEW z \in View, NEW c, NEW R,
         Line(m, y, z, c, R), Sees(ch, y, R), m.ev = "MODE", m.c = c
  PROVE  Kept(ch, y, ModeLetters(ch), z, R)
<1> DEFINE new == ModeLetters(ch)
<1>1. /\ new \in ChannelType /\ new.joined = ch.joined /\ Once(new)
      /\ \A k : Listed(new, k) <=> Listed(ch, k)
  BY ModesKeep, ModesList DEF Sees
<1>2. ~About(m, y.me, c)
  BY DEF About
<1>3. (In(z) <=> In(y)) /\ (In(y) => Moves(m, y, z, c, R))
  BY <1>2 DEF Line
<1>4. In(y) => z.members = y.members /\ ("mode" \in R \/ Sets(m, y, z))
  BY <1>3 DEF Moves
<1>5. ASSUME NEW n, NEW o, On(new, n, o)
      PROVE  In(y) /\ n \in y.members /\ n \in Nicks /\ o \in BOOLEAN
  <2>1. n \in Nicks /\ o \in BOOLEAN /\ Listed(new, n)
    BY <1>1, <1>5, OnTypes
  <2>2. Listed(ch, n)
    BY <1>1, <2>1
  <2> QED
    BY <2>1, <2>2, ListedOn DEF Sees
<1>6. ASSUME NEW n, NEW o, On(new, n, o), R \cap {"first", "mode"} = {}
      PROVE  o = TRUE <=> n \in z.ops
  <2>1. In(y) /\ n \in y.members /\ n \in Nicks /\ o \in BOOLEAN
    BY <1>5, <1>6
  <2>2. PICK sign \in {"+", "-"}, k \in Nicks :
          /\ \/ m.modes = <<sign, "o">> /\ m.args = <<k>>
             \/ m.modes = <<sign, "b", "o">> /\ m.args = <<NULL, k>>
          /\ z.ops = IF sign = "+" THEN y.ops \cup {k} ELSE y.ops \ {k}
    BY <1>4, <1>6, <2>1 DEF Sets
  <2> DEFINE b == sign = "+"
  <2>3. new = user_change_op(ch, k, b) /\ b \in BOOLEAN
    <3>1. ModeLetters(ch) = user_change_op(ch, k, sign = "+")
      BY <2>2, OneMode
    <3> QED
      BY <3>1, Zenon
  <2>4. z.ops = IF b = TRUE THEN y.ops \cup {k} ELSE y.ops \ {k}
    BY <2>2
  <2> HIDE DEF b, new
  <2>5. \/ n # k /\ On(ch, n, o)
        \/ n = k /\ Listed(ch, k) /\ o = b
    BY <1>6, <2>3, OpIs DEF Sees
  <2>6. CASE n # k /\ On(ch, n, o)
    <3>1. o = TRUE <=> n \in y.ops
      BY <1>6, <2>6 DEF Sees
    <3> QED
      BY <2>4, <2>6, <3>1
  <2>7. CASE n = k /\ o = b
    BY <2>4, <2>7
  <2> QED
    BY <2>5, <2>6, <2>7
<1> HIDE DEF new
<1>7. Sees(new, z, R)
  <2>1. \A n, o : On(new, n, o) => n \in z.members
    BY <1>4, <1>5
  <2>2. new.joined => In(z)
    BY <1>1, <1>3 DEF Sees
  <2> QED
    BY <1>1, <1>3, <1>5, <1>6, <2>1, <2>2 DEF Sees
<1> QED
  BY <1>1, <1>4, <1>7 DEF Kept, Full, new

\* More races leave as much to be true.
LEMMA SeesLess ==
  ASSUME NEW ch, NEW y, NEW R, NEW Q, R \subseteq Q, Sees(ch, y, R)
  PROVE  Sees(ch, y, Q)
  BY DEF Sees

-----------------------------------------------------------------------------
(* What the bot asks for.                                                     *)

WhoOf(c) == [cmd |-> "WHO", c |-> c]

\* Each JOIN has a WHO behind it.
JoinsAsk(o, c) ==
  \A a \in 1..Len(o) : o[a] = JoinOf(c) => \E w \in 1..Len(o) : w > a /\ o[w] = WhoOf(c)

KicksIn(l, c) == l.cmd = "KICK" /\ l.c = c

\* Each JOIN has a WHO behind it before it has a KICK.
KicksAsk(o, c) ==
  \A a, q \in 1..Len(o) : o[a] = JoinOf(c) /\ q > a /\ KicksIn(o[q], c) =>
    \E w \in 1..Len(o) : w > a /\ q > w /\ o[w] = WhoOf(c)

\* Each KICK has a WHO before it.
WhoFirst(o, c) ==
  \A q \in 1..Len(o) : KicksIn(o[q], c) => \E w \in 1..Len(o) : q > w /\ o[w] = WhoOf(c)

\* The commands differ.
LEMMA AskedIs ==
  \A c : /\ WhoOf(c) # JoinOf(c) /\ ~KicksIn(WhoOf(c), c) /\ ~KicksIn(JoinOf(c), c)
         /\ WhoOf(c).cmd = "WHO" /\ WhoOf(c).c = c /\ WhoOf(c).cmd # "JOIN" /\ WhoOf(c).cmd # "KICK"
         /\ JoinOf(c).cmd = "JOIN" /\ JoinOf(c).c = c
  BY DEF WhoOf, JoinOf, KicksIn

\* A command is taken from the queue.
LEMMA TakenAsks ==
  ASSUME NEW o \in Seq(Commands), o # << >>, NEW c
  PROVE  /\ JoinsAsk(o, c) => JoinsAsk(Tail(o), c)
         /\ KicksAsk(o, c) => KicksAsk(Tail(o), c)
         /\ Head(o) = JoinOf(c) /\ JoinsAsk(o, c) => Has(Tail(o), WhoOf(c))
         /\ Head(o) = JoinOf(c) /\ KicksAsk(o, c) => WhoFirst(Tail(o), c)
         /\ Head(o) # WhoOf(c) /\ WhoFirst(o, c) => WhoFirst(Tail(o), c)
         /\ Head(o) # WhoOf(c) /\ Has(o, WhoOf(c)) => Has(Tail(o), WhoOf(c))
         /\ KicksIn(Head(o), c) => ~WhoFirst(o, c)
<1> DEFINE k == Len(o)
           p == Tail(o)
<1>1. /\ k \in Nat \ {0} /\ Len(p) = k - 1 /\ Head(o) = o[1] /\ DOMAIN p = 1..(k - 1)
      /\ \A i \in 1..(k - 1) : p[i] = o[i + 1]
  OBVIOUS
<1> HIDE DEF p, k
<1>2. /\ \A i \in 1..(k - 1) : i + 1 \in 1..k /\ i + 1 > 1 /\ ~(1 > i + 1)
      /\ \A i \in 1..k : i > 1 => i - 1 \in 1..(k - 1) /\ p[i - 1] = o[i]
      /\ \A i \in 1..k : i > 1 \/ i = 1
      /\ \A i, j \in 1..k : i > j /\ j > 1 => i - 1 > j - 1
      /\ \A i, j \in 1..(k - 1) : i > j => i + 1 > j + 1
      /\ \A i \in 1..k, j \in 1..(k - 1) : i > j + 1 => i > 1 /\ i - 1 > j
      /\ \A i \in 1..k, j \in 1..(k - 1) : j + 1 > i /\ i > 1 => j > i - 1
      /\ 1 \in 1..k /\ \A i \in 1..k : ~(1 > i)
  BY <1>1
<1>3. /\ Len(o) = k /\ Len(p) = k - 1
  BY <1>1 DEF k
<1>4. ASSUME JoinsAsk(o, c) PROVE JoinsAsk(p, c)
  <2> SUFFICES ASSUME NEW a \in 1..(k - 1), p[a] = JoinOf(c)
               PROVE  \E w \in 1..(k - 1) : w > a /\ p[w] = WhoOf(c)
    BY <1>3 DEF JoinsAsk
  <2>1. PICK w \in 1..k : w > a + 1 /\ o[w] = WhoOf(c)
    BY <1>1, <1>2, <1>3, <1>4 DEF JoinsAsk
  <2>2. w - 1 \in 1..(k - 1) /\ w - 1 > a /\ p[w - 1] = WhoOf(c)
    BY <1>2, <2>1
  <2> QED
    BY <2>2
<1>5. ASSUME KicksAsk(o, c) PROVE KicksAsk(p, c)
  <2> SUFFICES ASSUME NEW a \in 1..(k - 1), NEW q \in 1..(k - 1), p[a] = JoinOf(c), q > a, KicksIn(p[q], c)
               PROVE  \E w \in 1..(k - 1) : w > a /\ q > w /\ p[w] = WhoOf(c)
    BY <1>3 DEF KicksAsk
  <2>1. a + 1 \in 1..k /\ q + 1 \in 1..k /\ q + 1 > a + 1 /\ o[a + 1] = JoinOf(c) /\ KicksIn(o[q + 1], c)
    BY <1>1, <1>2
  <2>2. PICK w \in 1..k : w > a + 1 /\ q + 1 > w /\ o[w] = WhoOf(c)
    BY <1>3, <1>5, <2>1 DEF KicksAsk
  <2>3. w - 1 \in 1..(k - 1) /\ w - 1 > a /\ q > w - 1 /\ p[w - 1] = WhoOf(c)
    BY <1>2, <2>2
  <2> QED
    BY <2>3
<1>6. ASSUME Head(o) = JoinOf(c), JoinsAsk(o, c) PROVE Has(p, WhoOf(c))
  <2>1. PICK w \in 1..k : w > 1 /\ o[w] = WhoOf(c)
    BY <1>1, <1>2, <1>3, <1>6 DEF JoinsAsk
  <2>2. w - 1 \in 1..(k - 1) /\ p[w - 1] = WhoOf(c)
    BY <1>2, <2>1
  <2> QED
    BY <1>1, <2>2 DEF Has
<1>7. ASSUME Head(o) = JoinOf(c), KicksAsk(o, c) PROVE WhoFirst(p, c)
  <2> SUFFICES ASSUME NEW q \in 1..(k - 1), KicksIn(p[q], c)
               PROVE  \E w \in 1..(k - 1) : q > w /\ p[w] = WhoOf(c)
    BY <1>3 DEF WhoFirst
  <2>1. q + 1 \in 1..k /\ q + 1 > 1 /\ KicksIn(o[q + 1], c) /\ o[1] = JoinOf(c) /\ 1 \in 1..k
    BY <1>1, <1>2, <1>7
  <2>2. PICK w \in 1..k : w > 1 /\ q + 1 > w /\ o[w] = WhoOf(c)
    BY <1>3, <1>7, <2>1 DEF KicksAsk
  <2>3. w - 1 \in 1..(k - 1) /\ q > w - 1 /\ p[w - 1] = WhoOf(c)
    BY <1>2, <2>2
  <2> QED
    BY <2>3
<1>8. ASSUME Head(o) # WhoOf(c), WhoFirst(o, c) PROVE WhoFirst(p, c)
  <2> SUFFICES ASSUME NEW q \in 1..(k - 1), KicksIn(p[q], c)
               PROVE  \E w \in 1..(k - 1) : q > w /\ p[w] = WhoOf(c)
    BY <1>3 DEF WhoFirst
  <2>1. q + 1 \in 1..k /\ KicksIn(o[q + 1], c)
    BY <1>1, <1>2
  <2>2. PICK w \in 1..k : q + 1 > w /\ o[w] = WhoOf(c)
    BY <1>3, <1>8, <2>1 DEF WhoFirst
  <2>3. w > 1
    BY <1>1, <1>2, <1>8, <2>2
  <2>4. w - 1 \in 1..(k - 1) /\ q > w - 1 /\ p[w - 1] = WhoOf(c)
    BY <1>2, <2>2, <2>3
  <2> QED
    BY <2>4
<1>9. Head(o) # WhoOf(c) /\ Has(o, WhoOf(c)) => Has(p, WhoOf(c))
  BY HasTail DEF p
<1>10. ASSUME KicksIn(Head(o), c), WhoFirst(o, c) PROVE FALSE
  <2>1. 1 \in 1..k /\ KicksIn(o[1], c)
    BY <1>1, <1>2, <1>10
  <2> QED
    BY <1>2, <1>3, <1>10, <2>1 DEF WhoFirst
<1> QED
  BY <1>4, <1>5, <1>6, <1>7, <1>8, <1>9, <1>10 DEF p

\* Commands are added.
LEMMA MoreAsks ==
  ASSUME NEW o \in Seq(Commands), NEW t \in Seq(Commands), NEW c
  PROVE  /\ (\A i \in 1..Len(t) : t[i] # JoinOf(c)) /\ JoinsAsk(o, c) => JoinsAsk(o \o t, c)
         /\ (\A i \in 1..Len(t) : ~KicksIn(t[i], c)) /\ KicksAsk(o, c) => KicksAsk(o \o t, c)
         /\ (\A i \in 1..Len(t) : ~KicksIn(t[i], c)) /\ WhoFirst(o, c) => WhoFirst(o \o t, c)
         /\ t = <<WhoOf(c)>> => JoinsAsk(o \o t, c)
         /\ (\A i \in 1..Len(t) : t[i] # JoinOf(c)) /\ JoinsAsk(o, c) /\ KicksAsk(o, c) => KicksAsk(o \o t, c)
         /\ Has(o, WhoOf(c)) => Has(o \o t, WhoOf(c)) /\ (WhoFirst(o, c) => WhoFirst(o \o t, c))
<1> DEFINE k == Len(o)
           n == Len(t)
           p == o \o t
<1>1. /\ p \in Seq(Commands) /\ Len(p) = k + n /\ k \in Nat /\ n \in Nat
      /\ \A i \in 1..k : p[i] = o[i]
      /\ \A i \in 1..n : p[k + i] = t[i]
      /\ \A i \in 1..(k + n) : i \in 1..k \/ (i - k \in 1..n /\ p[i] = t[i - k] /\ ~(i <= k))
  BY TwoSeqs
<1>2. /\ \A i \in 1..k : i \in 1..(k + n) /\ p[i] = o[i]
      /\ \A i \in 1..k, j \in 1..(k + n) : ~(j <= k) => j > i
  BY <1>1
<1>3. Len(o) = k /\ Len(t) = n
  OBVIOUS
<1> HIDE DEF p, k, n
<1>4. ASSUME \A i \in 1..n : t[i] # JoinOf(c), JoinsAsk(o, c) PROVE JoinsAsk(p, c)
  <2> SUFFICES ASSUME NEW a \in 1..(k + n), p[a] = JoinOf(c)
               PROVE  \E w \in 1..(k + n) : w > a /\ p[w] = WhoOf(c)
    BY <1>1 DEF JoinsAsk
  <2>1. a \in 1..k /\ o[a] = JoinOf(c)
    BY <1>1, <1>4
  <2>2. PICK w \in 1..k : w > a /\ o[w] = WhoOf(c)
    BY <1>3, <1>4, <2>1 DEF JoinsAsk
  <2> QED
    BY <1>2, <2>2
<1>5. ASSUME \A i \in 1..n : ~KicksIn(t[i], c), KicksAsk(o, c) PROVE KicksAsk(p, c)
  <2> SUFFICES ASSUME NEW a \in 1..(k + n), NEW q \in 1..(k + n), p[a] = JoinOf(c), q > a, KicksIn(p[q], c)
               PROVE  \E w \in 1..(k + n) : w > a /\ q > w /\ p[w] = WhoOf(c)
    BY <1>1 DEF KicksAsk
  <2>1. q \in 1..k
    BY <1>1, <1>5
  <2>2. a \in 1..k
    BY <1>1, <2>1
  <2>3. PICK w \in 1..k : w > a /\ q > w /\ o[w] = WhoOf(c)
    BY <1>2, <1>3, <1>5, <2>1, <2>2 DEF KicksAsk
  <2> QED
    BY <1>2, <2>3
<1>6. ASSUME \A i \in 1..n : ~KicksIn(t[i], c), WhoFirst(o, c) PROVE WhoFirst(p, c)
  <2> SUFFICES ASSUME NEW q \in 1..(k + n), KicksIn(p[q], c)
               PROVE  \E w \in 1..(k + n) : q > w /\ p[w] = WhoOf(c)
    BY <1>1 DEF WhoFirst
  <2>1. q \in 1..k
    BY <1>1, <1>6
  <2>2. PICK w \in 1..k : q > w /\ o[w] = WhoOf(c)
    BY <1>2, <1>3, <1>6, <2>1 DEF WhoFirst
  <2> QED
    BY <1>2, <2>2
<1>7. ASSUME t = <<WhoOf(c)>> PROVE JoinsAsk(p, c)
  <2>1. n = 1 /\ t[1] = WhoOf(c)
    BY <1>7 DEF n
  <2>2. k + 1 \in 1..(k + n) /\ p[k + 1] = WhoOf(c)
    BY <1>1, <2>1
  <2>3. ASSUME NEW a \in 1..(k + n), p[a] = JoinOf(c) PROVE k + 1 > a
    <3>1. a # k + 1
      BY <2>2, <2>3, AskedIs
    <3> QED
      BY <1>1, <2>1, <3>1
  <2> QED
    BY <1>1, <2>2, <2>3 DEF JoinsAsk
<1>8. ASSUME \A i \in 1..n : t[i] # JoinOf(c), JoinsAsk(o, c), KicksAsk(o, c) PROVE KicksAsk(p, c)
  <2> SUFFICES ASSUME NEW a \in 1..(k + n), NEW q \in 1..(k + n), p[a] = JoinOf(c), q > a, KicksIn(p[q], c)
               PROVE  \E w \in 1..(k + n) : w > a /\ q > w /\ p[w] = WhoOf(c)
    BY <1>1 DEF KicksAsk
  <2>1. a \in 1..k /\ o[a] = JoinOf(c)
    BY <1>1, <1>8
  <2>2. CASE q \in 1..k
    <3>1. PICK w \in 1..k : w > a /\ q > w /\ o[w] = WhoOf(c)
      BY <1>2, <1>3, <1>8, <2>1, <2>2 DEF KicksAsk
    <3> QED
      BY <1>2, <3>1
  <2>3. CASE q \notin 1..k
    <3>1. PICK w \in 1..k : w > a /\ o[w] = WhoOf(c)
      BY <1>3, <1>8, <2>1 DEF JoinsAsk
    <3> QED
      BY <1>1, <1>2, <2>3, <3>1
  <2> QED
    BY <2>2, <2>3
<1>9. ASSUME Has(o, WhoOf(c)) PROVE Has(p, WhoOf(c)) /\ (WhoFirst(o, c) => WhoFirst(p, c))
  <2>1. PICK w \in 1..k : o[w] = WhoOf(c)
    BY <1>9 DEF Has, k
  <2>2. Has(p, WhoOf(c))
    BY <1>9, HasConcat DEF p
  <2>3. ASSUME WhoFirst(o, c), NEW q \in 1..(k + n), KicksIn(p[q], c)
        PROVE  \E x \in 1..(k + n) : q > x /\ p[x] = WhoOf(c)
    <3>1. CASE q \in 1..k
      <4>1. PICK x \in 1..k : q > x /\ o[x] = WhoOf(c)
        BY <1>2, <1>3, <2>3, <3>1 DEF WhoFirst
      <4> QED
        BY <1>2, <4>1
    <3>2. CASE q \notin 1..k
      BY <1>1, <1>2, <2>1, <3>2
    <3> QED
      BY <3>1, <3>2
  <2> QED
    BY <1>1, <2>2, <2>3 DEF WhoFirst
<1> QED
  BY <1>3, <1>4, <1>5, <1>6, <1>7, <1>8, <1>9 DEF p

-----------------------------------------------------------------------------
(* What the bot has still to be told of a channel, and whom it is to kick.    *)

\* A line, and what c was before it: the bot is told that it is in c, or kicked.
Echo(l, y, c) == About(l, y.me, c) /\ l.ev = "JOIN"
OwnKick(l, y, c) == About(l, y.me, c) /\ l.ev = "KICK"

\* The bot is told that n is in c.
Tells(l, c, n) == l.ev = "WHOREPLY" /\ l.c = c /\ l.who = n

\* The bot forgets, when it handles the line, who kicked it before.
Clears(l, y, c) == OwnKick(l, y, c) \/ (l.ev = "ENDOFWHO" /\ l.c = c /\ In(y))

\* While nobody comes or goes the bot gets to know all who are there.
Synced(ch, v, s, c) ==
  \E j, k \in 0..Len(s) :
    /\ j <= k /\ \A i \in j..k : v[i].members = v[k].members
    /\ \A n \in v[k].members : (j = 0 /\ Listed(ch, n)) \/ \E i \in (j + 1)..k : Tells(s[i], c, n)

\* A channel that it takes to be joined: it is out, or will ask who is there, or
\* gets to know it.
Pending(ch, v, s, c, o) ==
  ch.joined =>
    \/ ~In(v[Len(s)])
    \/ Has(o, WhoOf(c))
    \/ \E i \in 1..Len(s) : Echo(s[i], v[i - 1], c)
    \/ Synced(ch, v, s, c)

\* It has seen that b kicked it, and it takes itself to be back.
Minds(chs, c, b) == c \in DOMAIN chs /\ chs[c].kick_nick = b
Taken(chs, c) == c \in DOMAIN chs /\ chs[c].joined

\* From the p-th line on it knows that b kicked it.
From(p, b, v, s, c, chs) ==
  \/ p = 0 /\ Minds(chs, c, b)
  \/ p > 0 /\ OwnKick(s[p], v[p - 1], c) /\ s[p].by = b

\* It is told later, and before it forgets it, that b is there.
Answered(p, b, v, s, c) ==
  \E i \in (p + 1)..Len(s) :
    Tells(s[i], c, b) /\ In(v[i - 1]) /\ \A k \in (p + 1)..i : ~Clears(s[k], v[k - 1], c)

\* It will ask, if it is in c, before it kicks anybody.
WillAsk(p, v, s, c, o, chs) ==
  /\ \A k \in (p + 1)..Len(s) : ~Clears(s[k], v[k - 1], c)
  /\ In(v[Len(s)]) =>
       /\ \/ Has(o, WhoOf(c))
          \/ (p > 0 => ~Taken(chs, c)) /\ \E i \in (p + 1)..Len(s) : Echo(s[i], v[i - 1], c)
       /\ WhoFirst(o, c)

Owes(b, v, s, c, o, chs) ==
  \E p \in 0..Len(s) :
    From(p, b, v, s, c, chs) /\ (Answered(p, b, v, s, c) \/ WillAsk(p, v, s, c, o, chs))

\* All of it, where b is the one to be kicked in c.
Knows(c, v, s, o, chs, b, R) ==
  /\ c \in DOMAIN chs => /\ Sees(chs[c], v[0], R)
                         /\ Enough => Pending(chs[c], v, s, c, o)
                         /\ chs[c].joined => JoinsAsk(o, c)
  /\ KicksAsk(o, c)
  /\ b # NULL => b \in v[Len(s)].members /\ b # v[Len(s)].me /\ Owes(b, v, s, c, o, chs)

\* v is what the lines tell of c, and the bot knows what it says.
Good(c, v) ==
  /\ Chain(v, inbox, c, races) /\ v[0].me = nick /\ v[Len(inbox)] = Here(c)
  /\ "who" \notin races => Knows(c, v, inbox, outbox, channels, owed[c], races)

TrueInv == CType /\ \A c \in Names : \E v : Good(c, v)

\* Places of the lines that are there, and of those that are added.
LEMMA PlacesMore ==
  ASSUME NEW s \in Seq(Lines), NEW t \in Seq(Lines), t # << >>, NEW v, NEW w, NEW z, Adds(w, v, s, t, z)
  PROVE  /\ s \o t \in Seq(Lines) /\ Len(s \o t) = Len(s) + Len(t) /\ Len(s) \in Nat /\ Len(t) \in Nat \ {0}
         /\ \A i \in 1..Len(s) : i \in 1..Len(s \o t) /\ (s \o t)[i] = s[i] /\ w[i - 1] = v[i - 1] /\ w[i] = v[i]
         /\ \A i \in 0..Len(s) : i \in 0..Len(s \o t) /\ w[i] = v[i]
         /\ w[0] = v[0] /\ w[Len(s \o t)] = z /\ w[Len(s)] = v[Len(s)]
         /\ Len(s) + 1 \in 1..Len(s \o t) /\ (s \o t)[Len(s) + 1] = t[1] /\ w[(Len(s) + 1) - 1] = v[Len(s)]
         /\ \A i \in 2..Len(t) : /\ Len(s) + i \in 1..Len(s \o t) /\ (s \o t)[Len(s) + i] = t[i]
                                 /\ w[(Len(s) + i) - 1] = z
         /\ \A i \in 1..Len(s \o t) : \/ i \in 1..Len(s)
                                      \/ i = Len(s) + 1
                                      \/ \E j \in 2..Len(t) : i = Len(s) + j
<1> DEFINE k == Len(s)
           n == Len(t)
<1>1. /\ s \o t \in Seq(Lines) /\ Len(s \o t) = k + n /\ k \in Nat /\ n \in Nat
      /\ \A i \in 1..k : (s \o t)[i] = s[i]
      /\ \A i \in 1..n : (s \o t)[k + i] = t[i]
  BY TwoSeqs
<1>2. n # 0
  OBVIOUS
<1>3. /\ \A i \in 0..k : w[i] = v[i]
      /\ \A i \in 0..(k + n) : ~(i <= k) => w[i] = z
  BY DEF Adds
<1>4. Len(s) = k /\ Len(t) = n
  OBVIOUS
<1> HIDE DEF k, n
<1>5. /\ \A i \in 1..k : i \in 1..(k + n) /\ i - 1 \in 0..k /\ i \in 0..k
      /\ \A i \in 0..k : i \in 0..(k + n)
      /\ 0 \in 0..k /\ k \in 0..k /\ k + n \in 0..(k + n) /\ ~(k + n <= k)
      /\ k + 1 \in 1..(k + n) /\ 1 \in 1..n /\ (k + 1) - 1 = k
      /\ \A i \in 2..n : k + i \in 1..(k + n) /\ i \in 1..n /\ (k + i) - 1 \in 0..(k + n) /\ ~((k + i) - 1 <= k)
  BY <1>1, <1>2
<1>6. ASSUME NEW i \in 1..(k + n), i \notin 1..k, i # k + 1 PROVE \E j \in 2..n : i = k + j
  <2>1. i - k \in 2..n /\ i = k + (i - k)
    BY <1>1, <1>6
  <2> QED
    BY <2>1
<1> QED
  BY <1>1, <1>2, <1>3, <1>4, <1>5, <1>6

\* Lines are added: the bot gets to know as much as before.
LEMMA PendingMore ==
  ASSUME NEW s \in Seq(Lines), NEW t \in Seq(Lines), t # << >>, NEW v, NEW w, NEW z, Adds(w, v, s, t, z),
         NEW ch, NEW c, NEW o, NEW p, Pending(ch, v, s, c, o),
         In(z) => IF In(v[Len(s)]) THEN Has(o, WhoOf(c)) => Has(p, WhoOf(c)) ELSE Echo(t[1], v[Len(s)], c)
  PROVE  Pending(ch, w, s \o t, c, p)
<1> DEFINE r == s \o t
<1>1. /\ \A i \in 1..Len(s) : i \in 1..Len(r) /\ r[i] = s[i] /\ w[i - 1] = v[i - 1] /\ w[i] = v[i]
      /\ \A i \in 0..Len(s) : i \in 0..Len(r) /\ w[i] = v[i]
      /\ w[Len(r)] = z /\ Len(s) \in Nat
      /\ Len(s) + 1 \in 1..Len(r) /\ r[Len(s) + 1] = t[1] /\ w[(Len(s) + 1) - 1] = v[Len(s)]
  BY PlacesMore
<1> HIDE DEF r
<1> SUFFICES ASSUME ch.joined, In(z)
             PROVE  Pending(ch, w, r, c, p)
  BY <1>1 DEF Pending, r
<1>2. CASE ~In(v[Len(s)])
  <2>1. Echo(r[Len(s) + 1], w[(Len(s) + 1) - 1], c)
    BY <1>1, <1>2
  <2> QED
    BY <1>1, <2>1 DEF Pending
<1>3. CASE In(v[Len(s)]) /\ Has(o, WhoOf(c))
  BY <1>3 DEF Pending
<1>4. ASSUME NEW i \in 1..Len(s), Echo(s[i], v[i - 1], c) PROVE Pending(ch, w, r, c, p)
  <2>1. Echo(r[i], w[i - 1], c) /\ i \in 1..Len(r)
    BY <1>1, <1>4
  <2> QED
    BY <2>1 DEF Pending
<1>5. CASE Synced(ch, v, s, c)
  <2>1. PICK j \in 0..Len(s), k \in 0..Len(s) :
          /\ j <= k /\ \A i \in j..k : v[i].members = v[k].members
          /\ \A n \in v[k].members : (j = 0 /\ Listed(ch, n)) \/ \E i \in (j + 1)..k : Tells(s[i], c, n)
    BY <1>5 DEF Synced
  <2>2. /\ \A i \in j..k : i \in 0..Len(s)
        /\ \A i \in (j + 1)..k : i \in 1..Len(s)
    BY <1>1, <2>1
  <2>3. \A i \in j..k : w[i].members = w[k].members
    BY <1>1, <2>1, <2>2
  <2>4. ASSUME NEW n \in w[k].members PROVE (j = 0 /\ Listed(ch, n)) \/ \E i \in (j + 1)..k : Tells(r[i], c, n)
    <3>1. n \in v[k].members
      BY <1>1, <2>4
    <3>2. \A i \in (j + 1)..k : r[i] = s[i]
      BY <1>1, <2>2
    <3> QED
      BY <2>1, <3>1, <3>2
  <2>5. j \in 0..Len(r) /\ k \in 0..Len(r)
    BY <1>1
  <2>6. Synced(ch, w, r, c)
    BY <2>1, <2>3, <2>4, <2>5 DEF Synced
  <2> QED
    BY <2>6 DEF Pending
<1> QED
  BY <1>2, <1>3, <1>4, <1>5 DEF Pending

\* A WHO is answered: it gets to know all of them.
LEMMA PendingWho ==
  ASSUME NEW s \in Seq(Lines), NEW t \in Seq(Lines), t # << >>, NEW v, NEW w, NEW z, Adds(w, v, s, t, z),
         z = v[Len(s)], NEW ch, NEW c, NEW p, \A n \in z.members : \E i \in 1..Len(t) : Tells(t[i], c, n)
  PROVE  Pending(ch, w, s \o t, c, p)
<1> DEFINE r == s \o t
           j == Len(s)
           k == Len(r)
<1>1. /\ r \in Seq(Lines) /\ Len(r) = Len(s) + Len(t) /\ Len(s) \in Nat /\ Len(t) \in Nat \ {0}
      /\ w[Len(s)] = v[Len(s)] /\ w[Len(r)] = z
  BY PlacesMore
<1>2. \A i \in 1..Len(t) : r[Len(s) + i] = t[i]
  BY TwoSeqs
<1>3. \A i \in 0..(Len(s) + Len(t)) : ~(i <= Len(s)) => w[i] = z
  BY DEF Adds
<1> HIDE DEF r
<1>4. j \in 0..Len(r) /\ k \in 0..Len(r) /\ j <= k
  BY <1>1
<1>5. ASSUME NEW i \in j..k PROVE w[i] = z
  <2>1. i = Len(s) \/ (i \in 0..(Len(s) + Len(t)) /\ ~(i <= Len(s)))
    BY <1>1
  <2> QED
    BY <1>1, <1>3, <2>1
<1>6. ASSUME NEW n \in z.members PROVE \E i \in (j + 1)..k : Tells(r[i], c, n)
  <2>1. PICK i \in 1..Len(t) : Tells(t[i], c, n)
    BY <1>6
  <2>2. Len(s) + i \in (j + 1)..k
    BY <1>1
  <2> QED
    BY <1>2, <2>1, <2>2
<1>7. /\ \A i \in j..k : w[i].members = w[k].members
      /\ \A n \in w[k].members : \E i \in (j + 1)..k : Tells(r[i], c, n)
  BY <1>1, <1>5, <1>6
<1>8. Synced(ch, w, r, c)
  <2> HIDE DEF j, k
  <2> QED
    BY <1>4, <1>7 DEF Synced
<1> QED
  BY <1>8 DEF Pending, r

\* A line is handled: what the bot was to know is in its list.
LEMMA PendingFirst ==
  ASSUME NEW s \in Seq(Lines), s # << >>, NEW v, NEW c, NEW R, Chain(v, s, c, R),
         NEW ch, NEW new, NEW o, NEW p, Enough, Sees(ch, v[0], R), Kept(ch, v[0], new, v[1], R),
         Pending(ch, v, s, c, o),
         new.joined => ch.joined \/ Echo(Head(s), v[0], c),
         Echo(Head(s), v[0], c) => Has(p, WhoOf(c)), Has(o, WhoOf(c)) => Has(p, WhoOf(c)),
         \A n : Tells(Head(s), c, n) /\ In(v[0]) => Listed(new, n)
  PROVE  Pending(new, Shift(v, s), Tail(s), c, p)
<1> DEFINE w == Shift(v, s)
           r == Tail(s)
<1>1. /\ Len(r) = Len(s) - 1 /\ Len(s) \in Nat \ {0}
      /\ \A i \in 0..(Len(s) - 1) : w[i] = v[i + 1]
      /\ \A i \in 1..(Len(s) - 1) : r[i] = s[i + 1]
  BY ChainFirst
<1>2. Head(s) = s[1]
  OBVIOUS
<1> HIDE DEF w, r
<1>3. /\ \A i \in 1..Len(s) : i = 1 \/ (i - 1 \in 1..Len(r) /\ r[i - 1] = s[i] /\ w[(i - 1) - 1] = v[i - 1])
      /\ \A i \in 0..Len(s) : i = 0 \/ (i - 1 \in 0..Len(r) /\ w[i - 1] = v[i])
      /\ w[Len(r)] = v[Len(s)] /\ w[0] = v[1] /\ 0 \in 0..Len(r) /\ 1 - 1 = 0
  BY <1>1
<1> SUFFICES ASSUME new.joined, ~Echo(Head(s), v[0], c)
             PROVE  Pending(new, w, r, c, p)
  BY DEF Pending, w, r
<1>4. ch.joined /\ In(v[0]) /\ In(v[1]) /\ Sees(new, v[1], R)
  BY DEF Sees, Kept
<1>5. ASSUME NEW i \in 1..Len(s), Echo(s[i], v[i - 1], c) PROVE Pending(new, w, r, c, p)
  <2>1. i # 1
    BY <1>2, <1>3, <1>5
  <2>2. Echo(r[i - 1], w[(i - 1) - 1], c) /\ i - 1 \in 1..Len(r)
    BY <1>3, <1>5, <2>1
  <2> QED
    BY <2>2 DEF Pending
<1>6. CASE Synced(ch, v, s, c)
  <2>1. PICK j \in 0..Len(s), k \in 0..Len(s) :
          /\ j <= k /\ \A i \in j..k : v[i].members = v[k].members
          /\ \A n \in v[k].members : (j = 0 /\ Listed(ch, n)) \/ \E i \in (j + 1)..k : Tells(s[i], c, n)
    BY <1>6 DEF Synced
  <2>2. CASE k = 0
    <3>1. j = 0 /\ \A i \in (j + 1)..k : FALSE
      BY <2>1, <2>2
    <3>2. Full(ch, v[0])
      BY <2>1, <2>2, <3>1 DEF Full
    <3>3. Full(new, w[0])
      BY <1>3, <1>4, <3>2 DEF Kept
    <3>4. \A i \in 0..0 : w[i].members = w[0].members
      OBVIOUS
    <3>5. Synced(new, w, r, c)
      BY <1>3, <3>3, <3>4 DEF Synced, Full
    <3> QED
      BY <3>5 DEF Pending
  <2>3. CASE j > 0
    <3>1. /\ j - 1 \in 0..Len(r) /\ k - 1 \in 0..Len(r) /\ j - 1 <= k - 1
          /\ w[k - 1] = v[k] /\ j # 0
          /\ \A i \in (j - 1)..(k - 1) : i + 1 \in j..k /\ w[i] = v[i + 1]
          /\ \A i \in (j + 1)..k : i - 1 \in ((j - 1) + 1)..(k - 1) /\ r[i - 1] = s[i]
      BY <1>1, <1>3, <2>1, <2>3
    <3>2. \A i \in (j - 1)..(k - 1) : w[i].members = w[k - 1].members
      BY <2>1, <3>1
    <3>3. \A n \in w[k - 1].members : \E i \in ((j - 1) + 1)..(k - 1) : Tells(r[i], c, n)
      BY <2>1, <3>1
    <3>4. Synced(new, w, r, c)
      BY <3>1, <3>2, <3>3 DEF Synced
    <3> QED
      BY <3>4 DEF Pending
  <2>4. CASE j = 0 /\ k > 0
    <3>1. /\ k - 1 \in 0..Len(r) /\ 0 <= k - 1 /\ w[k - 1] = v[k]
          /\ \A i \in 0..(k - 1) : i + 1 \in j..k /\ w[i] = v[i + 1]
          /\ \A i \in (j + 1)..k : i = 1 \/ (i - 1 \in (0 + 1)..(k - 1) /\ r[i - 1] = s[i])
          /\ 0 \in j..k /\ 1 \in j..k
      BY <1>1, <1>3, <2>1, <2>4
    <3>2. \A i \in 0..(k - 1) : w[i].members = w[k - 1].members
      BY <2>1, <3>1
    <3>3. v[1].members = v[0].members
      BY <2>1, <3>1
    <3>4. \A n : Listed(ch, n) => Listed(new, n)
      BY <1>4, <3>3 DEF Kept
    <3>5. ASSUME NEW n \in w[k - 1].members
          PROVE  Listed(new, n) \/ \E i \in (0 + 1)..(k - 1) : Tells(r[i], c, n)
      <4>1. CASE Listed(ch, n)
        BY <3>4, <4>1
      <4>2. ASSUME NEW i \in (j + 1)..k, Tells(s[i], c, n)
            PROVE  Listed(new, n) \/ \E a \in (0 + 1)..(k - 1) : Tells(r[a], c, n)
        <5>1. CASE i = 1
          BY <1>2, <1>4, <4>2, <5>1
        <5>2. CASE i # 1
          BY <3>1, <4>2, <5>2
        <5> QED
          BY <5>1, <5>2
      <4> QED
        BY <2>1, <3>1, <4>1, <4>2
    <3>6. Synced(new, w, r, c)
      BY <1>3, <3>1, <3>2, <3>5 DEF Synced
    <3> QED
      BY <3>6 DEF Pending
  <2> QED
    BY <2>1, <2>2, <2>3, <2>4
<1> QED
  BY <1>3, <1>4, <1>5, <1>6 DEF Pending

\* Nothing new is under way: what it owes depends on where it is, on what it knows
\* and on what it has asked for.
LEMMA OwesSame ==
  ASSUME NEW s \in Seq(Lines), NEW v, NEW w, NEW b, NEW c, NEW o, NEW p, NEW chs, NEW chz,
         \A i \in 0..Len(s) : w[i].me = v[i].me /\ (In(w[i]) <=> In(v[i])),
         Minds(chs, c, b) => Minds(chz, c, b), Taken(chz, c) => Taken(chs, c),
         In(w[Len(s)]) => /\ Has(o, WhoOf(c)) => Has(p, WhoOf(c))
                          /\ WhoFirst(o, c) => WhoFirst(p, c),
         Owes(b, v, s, c, o, chs)
  PROVE  Owes(b, w, s, c, p, chz)
<1>1. PICK a \in 0..Len(s) : From(a, b, v, s, c, chs) /\ (Answered(a, b, v, s, c) \/ WillAsk(a, v, s, c, o, chs))
  BY DEF Owes
<1>2. /\ Len(s) \in Nat /\ Len(s) \in 0..Len(s) /\ a > 0 => a \in 1..Len(s)
      /\ \A i \in 1..Len(s) : i - 1 \in 0..Len(s)
      /\ \A i \in (a + 1)..Len(s) : i \in 1..Len(s)
      /\ \A i \in (a + 1)..Len(s) : \A k \in (a + 1)..i : k \in 1..Len(s)
  OBVIOUS
<1>3. \A i \in 1..Len(s) : /\ OwnKick(s[i], w[i - 1], c) <=> OwnKick(s[i], v[i - 1], c)
                           /\ Echo(s[i], w[i - 1], c) <=> Echo(s[i], v[i - 1], c)
                           /\ Clears(s[i], w[i - 1], c) <=> Clears(s[i], v[i - 1], c)
                           /\ In(w[i - 1]) <=> In(v[i - 1])
  BY <1>2 DEF OwnKick, Echo, Clears
<1>4. From(a, b, w, s, c, chz)
  BY <1>1, <1>2, <1>3 DEF From
<1>5. ASSUME Answered(a, b, v, s, c) PROVE Answered(a, b, w, s, c)
  BY <1>2, <1>3, <1>5 DEF Answered
<1>6. ASSUME WillAsk(a, v, s, c, o, chs) PROVE WillAsk(a, w, s, c, p, chz)
  <2>1. \A k \in (a + 1)..Len(s) : ~Clears(s[k], w[k - 1], c)
    BY <1>2, <1>3, <1>6 DEF WillAsk
  <2>2. ASSUME In(w[Len(s)])
        PROVE  /\ \/ Has(p, WhoOf(c))
                  \/ (a > 0 => ~Taken(chz, c)) /\ \E i \in (a + 1)..Len(s) : Echo(s[i], w[i - 1], c)
               /\ WhoFirst(p, c)
    <3>1. In(v[Len(s)])
      BY <1>2, <2>2
    <3>2. \A i \in (a + 1)..Len(s) : Echo(s[i], v[i - 1], c) => Echo(s[i], w[i - 1], c)
      BY <1>2, <1>3
    <3> QED
      BY <1>6, <2>2, <3>1, <3>2 DEF WillAsk
  <2> QED
    BY <2>1, <2>2 DEF WillAsk
<1> QED
  BY <1>1, <1>4, <1>5, <1>6 DEF Owes

\* Lines are added that do not make it forget, unless it is answered before them.
LEMMA OwesMore ==
  ASSUME NEW s \in Seq(Lines), NEW t \in Seq(Lines), t # << >>, NEW v, NEW w, NEW z, Adds(w, v, s, t, z),
         NEW b, NEW c, NEW o, NEW p, NEW chs,
         (In(v[Len(s)]) => WhoFirst(o, c)) =>
           /\ ~Clears(t[1], v[Len(s)], c)
           /\ \A i \in 2..Len(t) : ~Clears(t[i], z, c)
           /\ In(z) /\ In(v[Len(s)]) => /\ Has(o, WhoOf(c)) => Has(p, WhoOf(c))
                                        /\ WhoFirst(o, c) => WhoFirst(p, c)
           /\ In(z) /\ ~In(v[Len(s)]) => /\ Echo(t[1], v[Len(s)], c) /\ WhoFirst(p, c)
                                         /\ Taken(chs, c) => Has(p, WhoOf(c)),
         Owes(b, v, s, c, o, chs)
  PROVE  Owes(b, w, s \o t, c, p, chs)
<1> DEFINE r == s \o t
<1>1. /\ \A i \in 1..Len(s) : i \in 1..Len(r) /\ r[i] = s[i] /\ w[i - 1] = v[i - 1] /\ w[i] = v[i]
      /\ \A i \in 0..Len(s) : i \in 0..Len(r)
      /\ w[Len(r)] = z /\ Len(s) \in Nat /\ Len(r) \in Nat
      /\ Len(s) + 1 \in 1..Len(r) /\ r[Len(s) + 1] = t[1] /\ w[(Len(s) + 1) - 1] = v[Len(s)]
      /\ \A i \in 2..Len(t) : /\ Len(s) + i \in 1..Len(r) /\ r[Len(s) + i] = t[i]
                              /\ w[(Len(s) + i) - 1] = z
      /\ \A i \in 1..Len(r) : \/ i \in 1..Len(s)
                              \/ i = Len(s) + 1
                              \/ \E j \in 2..Len(t) : i = Len(s) + j
  <2>1. /\ r \in Seq(Lines) /\ Len(s) \in Nat
        /\ \A i \in 1..Len(s) : i \in 1..Len(r) /\ r[i] = s[i] /\ w[i - 1] = v[i - 1] /\ w[i] = v[i]
        /\ \A i \in 0..Len(s) : i \in 0..Len(r)
        /\ w[Len(r)] = z
        /\ Len(s) + 1 \in 1..Len(r) /\ r[Len(s) + 1] = t[1] /\ w[(Len(s) + 1) - 1] = v[Len(s)]
        /\ \A i \in 2..Len(t) : /\ Len(s) + i \in 1..Len(r) /\ r[Len(s) + i] = t[i]
                                /\ w[(Len(s) + i) - 1] = z
        /\ \A i \in 1..Len(r) : \/ i \in 1..Len(s)
                                \/ i = Len(s) + 1
                                \/ \E j \in 2..Len(t) : i = Len(s) + j
    BY PlacesMore
  <2> QED
    BY <2>1
<1> HIDE DEF r
<1>2. PICK a \in 0..Len(s) : From(a, b, v, s, c, chs) /\ (Answered(a, b, v, s, c) \/ WillAsk(a, v, s, c, o, chs))
  BY DEF Owes
<1>3. /\ a \in 0..Len(r) /\ (a > 0 => a \in 1..Len(s))
      /\ \A i \in (a + 1)..Len(s) : i \in 1..Len(s) /\ i \in (a + 1)..Len(r)
      /\ \A i \in (a + 1)..Len(s) : \A k \in (a + 1)..i : k \in (a + 1)..Len(s)
      /\ \A i \in (a + 1)..Len(r) : i \in 1..Len(r) /\ (i \in 1..Len(s) => i \in (a + 1)..Len(s))
      /\ Len(s) + 1 \in (a + 1)..Len(r)
  BY <1>1
<1>4. From(a, b, w, r, c, chs)
  BY <1>1, <1>2, <1>3 DEF From
<1>5. ASSUME Answered(a, b, v, s, c) PROVE Answered(a, b, w, r, c)
  <2>1. PICK i \in (a + 1)..Len(s) :
          Tells(s[i], c, b) /\ In(v[i - 1]) /\ \A k \in (a + 1)..i : ~Clears(s[k], v[k - 1], c)
    BY <1>5 DEF Answered
  <2>2. Tells(r[i], c, b) /\ In(w[i - 1]) /\ i \in (a + 1)..Len(r)
    BY <1>1, <1>3, <2>1
  <2>3. \A k \in (a + 1)..i : ~Clears(r[k], w[k - 1], c)
    BY <1>1, <1>3, <2>1
  <2> QED
    BY <2>2, <2>3 DEF Answered
<1>6. ASSUME WillAsk(a, v, s, c, o, chs) PROVE WillAsk(a, w, r, c, p, chs)
  <2>1. In(v[Len(s)]) => WhoFirst(o, c)
    BY <1>6 DEF WillAsk
  <2>2. ASSUME NEW k \in (a + 1)..Len(r) PROVE ~Clears(r[k], w[k - 1], c)
    <3>1. CASE k \in 1..Len(s)
      <4>1. ~Clears(s[k], v[k - 1], c)
        BY <1>3, <1>6, <3>1 DEF WillAsk
      <4> QED
        BY <1>1, <3>1, <4>1
    <3>2. CASE k = Len(s) + 1
      BY <1>1, <2>1, <3>2
    <3>3. ASSUME NEW j \in 2..Len(t), k = Len(s) + j PROVE ~Clears(r[k], w[k - 1], c)
      BY <1>1, <2>1, <3>3
    <3> QED
      BY <1>1, <1>3, <3>1, <3>2, <3>3
  <2>3. ASSUME In(z), In(v[Len(s)])
        PROVE  /\ \/ Has(p, WhoOf(c))
                  \/ (a > 0 => ~Taken(chs, c)) /\ \E i \in (a + 1)..Len(r) : Echo(r[i], w[i - 1], c)
               /\ WhoFirst(p, c)
    <3>1. /\ Has(o, WhoOf(c)) => Has(p, WhoOf(c))
          /\ WhoFirst(p, c)
      BY <2>1, <2>3
    <3>2. ASSUME NEW i \in (a + 1)..Len(s), Echo(s[i], v[i - 1], c)
          PROVE  \E k \in (a + 1)..Len(r) : Echo(r[k], w[k - 1], c)
      BY <1>1, <1>3, <3>2
    <3> QED
      BY <1>6, <2>3, <3>1, <3>2 DEF WillAsk
  <2>4. ASSUME In(z), ~In(v[Len(s)])
        PROVE  /\ \/ Has(p, WhoOf(c))
                  \/ (a > 0 => ~Taken(chs, c)) /\ \E i \in (a + 1)..Len(r) : Echo(r[i], w[i - 1], c)
               /\ WhoFirst(p, c)
    <3>1. Echo(r[Len(s) + 1], w[(Len(s) + 1) - 1], c)
      BY <1>1, <2>1, <2>4
    <3> QED
      BY <1>3, <2>1, <2>4, <3>1
  <2> QED
    BY <1>1, <2>2, <2>3, <2>4 DEF WillAsk
<1> QED
  BY <1>2, <1>3, <1>4, <1>5, <1>6 DEF Owes, r

\* A WHO is answered: it is told that b is there.
LEMMA OwesWho ==
  ASSUME NEW s \in Seq(Lines), NEW t \in Seq(Lines), t # << >>, NEW v, NEW w, NEW z, Adds(w, v, s, t, z),
         z = v[Len(s)], In(z), NEW b, NEW c, NEW o, NEW p, NEW chs,
         NEW h \in 1..Len(t), Tells(t[h], c, b), \A i \in 1..h : ~Clears(t[i], z, c),
         Owes(b, v, s, c, o, chs)
  PROVE  Owes(b, w, s \o t, c, p, chs)
<1> DEFINE r == s \o t
           l == Len(s)
           n == Len(t)
<1>1. /\ Len(r) = l + n /\ l \in Nat /\ n \in Nat /\ l \in Nat
      /\ \A i \in 1..l : i \in 1..Len(r) /\ r[i] = s[i] /\ w[i - 1] = v[i - 1] /\ w[i] = v[i]
      /\ w[l] = v[l]
  BY PlacesMore
<1>2. \A i \in 1..n : r[l + i] = t[i]
  BY TwoSeqs
<1>3. \A i \in 0..(l + n) : ~(i <= l) => w[i] = z
  BY DEF Adds
<1>4. \A i \in 1..n : w[(l + i) - 1] = z
  <2> TAKE i \in 1..n
  <2>1. (l + i) - 1 = l \/ ((l + i) - 1 \in 0..(l + n) /\ ~((l + i) - 1 <= l))
    BY <1>1
  <2> QED
    BY <1>1, <1>3, <2>1
<1>5. PICK a \in 0..l : From(a, b, v, s, c, chs) /\ (Answered(a, b, v, s, c) \/ WillAsk(a, v, s, c, o, chs))
  BY DEF Owes
<1> HIDE DEF r, l, n
<1>6. h \in 1..n /\ Len(s) = l
  BY DEF l, n
<1>7. /\ a \in 0..Len(r) /\ (a > 0 => a \in 1..l)
      /\ \A i \in (a + 1)..l : i \in 1..l /\ i \in (a + 1)..Len(r)
      /\ \A i \in (a + 1)..l : \A k \in (a + 1)..i : k \in (a + 1)..l
      /\ l + h \in (a + 1)..Len(r)
      /\ \A k \in (a + 1)..(l + h) : k \in (a + 1)..l \/ (k - l \in 1..h /\ k - l \in 1..n /\ l + (k - l) = k)
  BY <1>1, <1>6
<1>8. From(a, b, w, r, c, chs)
  BY <1>1, <1>5, <1>7 DEF From
<1>9. ASSUME Answered(a, b, v, s, c) PROVE Answered(a, b, w, r, c)
  <2>1. PICK i \in (a + 1)..l :
          Tells(s[i], c, b) /\ In(v[i - 1]) /\ \A k \in (a + 1)..i : ~Clears(s[k], v[k - 1], c)
    BY <1>6, <1>9 DEF Answered
  <2>2. Tells(r[i], c, b) /\ In(w[i - 1]) /\ i \in (a + 1)..Len(r)
    BY <1>1, <1>7, <2>1
  <2>3. \A k \in (a + 1)..i : ~Clears(r[k], w[k - 1], c)
    BY <1>1, <1>7, <2>1
  <2> QED
    BY <2>2, <2>3 DEF Answered
<1>10. ASSUME WillAsk(a, v, s, c, o, chs) PROVE Answered(a, b, w, r, c)
  <2>1. Tells(r[l + h], c, b) /\ In(w[(l + h) - 1])
    BY <1>2, <1>4, <1>6
  <2>2. ASSUME NEW k \in (a + 1)..(l + h) PROVE ~Clears(r[k], w[k - 1], c)
    <3>1. CASE k \in (a + 1)..l
      <4>1. ~Clears(s[k], v[k - 1], c)
        BY <1>6, <1>10, <3>1 DEF WillAsk
      <4> QED
        BY <1>1, <1>7, <3>1, <4>1
    <3>2. CASE k - l \in 1..h /\ k - l \in 1..n /\ l + (k - l) = k
      <4>1. r[k] = t[k - l] /\ w[k - 1] = z
        BY <1>2, <1>4, <3>2
      <4> QED
        BY <3>2, <4>1
    <3> QED
      BY <1>7, <3>1, <3>2
  <2> QED
    BY <1>7, <2>1, <2>2 DEF Answered
<1> QED
  BY <1>5, <1>7, <1>8, <1>9, <1>10 DEF Owes, r, l

\* It is kicked by b.
LEMMA OwesKicked ==
  ASSUME NEW s \in Seq(Lines), NEW t \in Seq(Lines), t # << >>, Len(t) = 1, NEW v, NEW w, NEW z,
         Adds(w, v, s, t, z), ~In(z),
         NEW b, NEW c, NEW p, NEW chs, OwnKick(t[1], v[Len(s)], c), t[1].by = b
  PROVE  Owes(b, w, s \o t, c, p, chs)
<1> DEFINE r == s \o t
           a == Len(s) + 1
<1>1. /\ Len(r) = Len(s) + 1 /\ Len(s) \in Nat /\ w[Len(r)] = z
      /\ r[a] = t[1] /\ w[a - 1] = v[Len(s)]
  <2>1. /\ Len(r) = Len(s) + Len(t) /\ Len(s) \in Nat /\ w[Len(r)] = z
        /\ r[Len(s) + 1] = t[1] /\ w[(Len(s) + 1) - 1] = v[Len(s)]
    BY PlacesMore
  <2> QED
    BY <2>1
<1> HIDE DEF r
<1>2. a > 0 /\ a \in 0..Len(r) /\ \A k \in (a + 1)..Len(r) : FALSE
  BY <1>1
<1> HIDE DEF a
<1>3. From(a, b, w, r, c, chs)
  BY <1>1, <1>2 DEF From
<1>4. WillAsk(a, w, r, c, p, chs)
  BY <1>1, <1>2 DEF WillAsk
<1> QED
  BY <1>2, <1>3, <1>4 DEF Owes, r

\* A line is handled that does not make it forget b, and does not tell it that b
\* is there while it minds.
LEMMA OwesFirst ==
  ASSUME NEW s \in Seq(Lines), s # << >>, NEW v, NEW c, NEW R, Chain(v, s, c, R),
         NEW b, NEW o, NEW p, NEW chs, NEW chz, Owes(b, v, s, c, o, chs),
         Has(o, WhoOf(c)) => Has(p, WhoOf(c)),
         Has(o, WhoOf(c)) /\ WhoFirst(o, c) => WhoFirst(p, c),
         (~Taken(chs, c) \/ Minds(chs, c, b)) /\ WhoFirst(o, c) => WhoFirst(p, c),
         c \in DOMAIN chs /\ Echo(Head(s), v[0], c) => Has(p, WhoOf(c)),
         ~Taken(chs, c) => ~Taken(chz, c) \/ Has(p, WhoOf(c)),
         Minds(chs, c, b) /\ ~Clears(Head(s), v[0], c) => Minds(chz, c, b),
         OwnKick(Head(s), v[0], c) /\ Head(s).by = b => Minds(chz, c, b),
         ~(Minds(chs, c, b) /\ Tells(Head(s), c, b))
  PROVE  Owes(b, Shift(v, s), Tail(s), c, p, chz)
<1> DEFINE w == Shift(v, s)
           r == Tail(s)
<1>1. /\ Len(r) = Len(s) - 1 /\ Len(s) \in Nat \ {0}
      /\ \A i \in 0..(Len(s) - 1) : w[i] = v[i + 1]
      /\ \A i \in 1..(Len(s) - 1) : r[i] = s[i + 1]
  BY ChainFirst
<1>2. Head(s) = s[1]
  OBVIOUS
<1> HIDE DEF w, r
<1>3. /\ \A i \in 1..Len(s) : i = 1 \/ (i - 1 \in 1..Len(r) /\ r[i - 1] = s[i] /\ w[(i - 1) - 1] = v[i - 1])
      /\ \A i \in 1..Len(r) : i + 1 \in 1..Len(s) /\ r[i] = s[i + 1] /\ w[i - 1] = v[(i + 1) - 1]
      /\ w[Len(r)] = v[Len(s)] /\ 1 - 1 = 0
  BY <1>1
<1>4. PICK a \in 0..Len(s) : From(a, b, v, s, c, chs) /\ (Answered(a, b, v, s, c) \/ WillAsk(a, v, s, c, o, chs))
  BY DEF Owes
<1>5. CASE a > 0
  <2> DEFINE e == a - 1
  <2>1. /\ a \in 1..Len(s) /\ e \in 0..Len(r) /\ (a = 1 => e = 0) /\ (a # 1 => e > 0)
        /\ \A i \in (a + 1)..Len(s) : i - 1 \in (e + 1)..Len(r) /\ i \in 1..Len(s) /\ i # 1
        /\ \A i \in (e + 1)..Len(r) : i + 1 \in (a + 1)..Len(s) /\ i \in 1..Len(r)
        /\ \A i \in (a + 1)..Len(s) : \A k \in (e + 1)..(i - 1) :
             k + 1 \in (a + 1)..i /\ k \in 1..Len(r)
    BY <1>1, <1>5
  <2>2. From(e, b, w, r, c, chz)
    <3>1. OwnKick(s[a], v[a - 1], c) /\ s[a].by = b
      BY <1>4, <1>5 DEF From
    <3>2. CASE a = 1
      BY <1>2, <1>3, <2>1, <3>1, <3>2 DEF From
    <3>3. CASE a # 1
      <4>1. OwnKick(r[e], w[e - 1], c) /\ r[e].by = b /\ e > 0
        BY <1>3, <2>1, <3>1, <3>3
      <4> HIDE DEF e
      <4> QED
        BY <4>1 DEF From
    <3> QED
      BY <3>2, <3>3
  <2>3. ASSUME Answered(a, b, v, s, c) PROVE Answered(e, b, w, r, c)
    <3>1. PICK i \in (a + 1)..Len(s) :
            Tells(s[i], c, b) /\ In(v[i - 1]) /\ \A k \in (a + 1)..i : ~Clears(s[k], v[k - 1], c)
      BY <2>3 DEF Answered
    <3>2. Tells(r[i - 1], c, b) /\ In(w[(i - 1) - 1]) /\ i - 1 \in (e + 1)..Len(r)
      BY <1>3, <2>1, <3>1
    <3>3. ASSUME NEW k \in (e + 1)..(i - 1) PROVE ~Clears(r[k], w[k - 1], c)
      <4>1. k + 1 \in (a + 1)..i /\ r[k] = s[k + 1] /\ w[k - 1] = v[(k + 1) - 1]
        BY <1>3, <2>1
      <4> QED
        BY <3>1, <4>1
    <3> HIDE DEF e
    <3> QED
      BY <3>2, <3>3 DEF Answered
  <2>4. ASSUME WillAsk(a, v, s, c, o, chs) PROVE WillAsk(e, w, r, c, p, chz)
    <3>1. ASSUME NEW k \in (e + 1)..Len(r) PROVE ~Clears(r[k], w[k - 1], c)
      <4>1. k + 1 \in (a + 1)..Len(s) /\ r[k] = s[k + 1] /\ w[k - 1] = v[(k + 1) - 1]
        BY <1>3, <2>1
      <4> QED
        BY <2>4, <4>1 DEF WillAsk
    <3>2. ASSUME In(w[Len(r)])
          PROVE  /\ \/ Has(p, WhoOf(c))
                    \/ (e > 0 => ~Taken(chz, c)) /\ \E i \in (e + 1)..Len(r) : Echo(r[i], w[i - 1], c)
                 /\ WhoFirst(p, c)
      <4>1. /\ \/ Has(o, WhoOf(c))
               \/ ~Taken(chs, c) /\ \E i \in (a + 1)..Len(s) : Echo(s[i], v[i - 1], c)
            /\ WhoFirst(o, c)
        BY <1>3, <1>5, <2>4, <3>2 DEF WillAsk
      <4>2. CASE Has(o, WhoOf(c))
        BY <4>1, <4>2
      <4>3. ASSUME ~Taken(chs, c), NEW i \in (a + 1)..Len(s), Echo(s[i], v[i - 1], c)
            PROVE  /\ \/ Has(p, WhoOf(c))
                      \/ (e > 0 => ~Taken(chz, c)) /\ \E k \in (e + 1)..Len(r) : Echo(r[k], w[k - 1], c)
                   /\ WhoFirst(p, c)
        <5>1. Echo(r[i - 1], w[(i - 1) - 1], c) /\ i - 1 \in (e + 1)..Len(r)
          BY <1>3, <2>1, <4>3
        <5> HIDE DEF e
        <5> QED
          BY <4>1, <4>3, <5>1
      <4> QED
        BY <4>1, <4>2, <4>3
    <3> HIDE DEF e
    <3> QED
      BY <3>1, <3>2 DEF WillAsk
  <2> HIDE DEF e
  <2> QED
    BY <1>4, <2>1, <2>2, <2>3, <2>4 DEF Owes, w, r
<1>6. CASE a = 0
  <2>1. /\ \A i \in (a + 1)..Len(s) : i \in 1..Len(s) /\ (i # 1 => i - 1 \in (0 + 1)..Len(r))
        /\ \A i \in (0 + 1)..Len(r) : i + 1 \in (a + 1)..Len(s) /\ i \in 1..Len(r)
        /\ \A i \in (a + 1)..Len(s) : /\ 1 \in (a + 1)..i
                                      /\ \A k \in (0 + 1)..(i - 1) : k + 1 \in (a + 1)..i /\ k \in 1..Len(r)
        /\ 1 \in (a + 1)..Len(s) /\ 0 \in 0..Len(r)
    BY <1>1, <1>6
  <2>2. Minds(chs, c, b) /\ c \in DOMAIN chs
    BY <1>4, <1>6 DEF From, Minds
  <2>3. ~Clears(Head(s), v[0], c)
    BY <1>2, <1>3, <1>4, <2>1 DEF Answered, WillAsk
  <2>4. From(0, b, w, r, c, chz)
    BY <2>2, <2>3 DEF From
  <2>5. ASSUME Answered(a, b, v, s, c) PROVE Answered(0, b, w, r, c)
    <3>1. PICK i \in (a + 1)..Len(s) :
            Tells(s[i], c, b) /\ In(v[i - 1]) /\ \A k \in (a + 1)..i : ~Clears(s[k], v[k - 1], c)
      BY <2>5 DEF Answered
    <3>2. i # 1
      BY <1>2, <2>2, <3>1
    <3>3. Tells(r[i - 1], c, b) /\ In(w[(i - 1) - 1]) /\ i - 1 \in (0 + 1)..Len(r)
      BY <1>3, <2>1, <3>1, <3>2
    <3>4. ASSUME NEW k \in (0 + 1)..(i - 1) PROVE ~Clears(r[k], w[k - 1], c)
      <4>1. k + 1 \in (a + 1)..i /\ r[k] = s[k + 1] /\ w[k - 1] = v[(k + 1) - 1]
        BY <1>3, <2>1
      <4> QED
        BY <3>1, <4>1
    <3> QED
      BY <3>3, <3>4 DEF Answered
  <2>6. ASSUME WillAsk(a, v, s, c, o, chs) PROVE WillAsk(0, w, r, c, p, chz)
    <3>1. ASSUME NEW k \in (0 + 1)..Len(r) PROVE ~Clears(r[k], w[k - 1], c)
      <4>1. k + 1 \in (a + 1)..Len(s) /\ r[k] = s[k + 1] /\ w[k - 1] = v[(k + 1) - 1]
        BY <1>3, <2>1
      <4> QED
        BY <2>6, <4>1 DEF WillAsk
    <3>2. ASSUME In(w[Len(r)])
          PROVE  /\ \/ Has(p, WhoOf(c))
                    \/ \E i \in (0 + 1)..Len(r) : Echo(r[i], w[i - 1], c)
                 /\ WhoFirst(p, c)
      <4>1. /\ \/ Has(o, WhoOf(c))
               \/ \E i \in (a + 1)..Len(s) : Echo(s[i], v[i - 1], c)
            /\ WhoFirst(o, c)
        BY <1>3, <2>6, <3>2 DEF WillAsk
      <4>2. WhoFirst(p, c)
        BY <2>2, <4>1
      <4>3. ASSUME NEW i \in (a + 1)..Len(s), Echo(s[i], v[i - 1], c)
            PROVE  Has(p, WhoOf(c)) \/ \E k \in (0 + 1)..Len(r) : Echo(r[k], w[k - 1], c)
        <5>1. CASE i = 1
          BY <1>2, <1>3, <2>2, <4>3, <5>1
        <5>2. CASE i # 1
          BY <1>3, <2>1, <4>3, <5>2
        <5> QED
          BY <5>1, <5>2
      <4> QED
        BY <4>1, <4>2, <4>3
    <3> QED
      BY <3>1, <3>2 DEF WillAsk
  <2> QED
    BY <1>4, <2>1, <2>4, <2>5, <2>6 DEF Owes, w, r
<1> QED
  BY <1>5, <1>6

-----------------------------------------------------------------------------
(* What the bot knows, when lines are added, when something changes that it is *)
(* not told, and when it handles a line.                                       *)

\* As long as it is out it has nothing of a channel.
LEMMA SeesOut ==
  ASSUME NEW ch, NEW y, NEW z, NEW R, Sees(ch, y, R), ~In(y), ~In(z)
  PROVE  Sees(ch, z, R)
  BY DEF Sees

\* Lines are added.
LEMMA KnowsMore ==
  ASSUME NEW s \in Seq(Lines), NEW t \in Seq(Lines), t # << >>, NEW v, NEW w, NEW z, Adds(w, v, s, t, z),
         NEW c, NEW o, NEW p, NEW chs, NEW b, NEW d, NEW R, NEW Q, R \subseteq Q,
         Knows(c, v, s, o, chs, b, R),
         JoinsAsk(o, c) => JoinsAsk(p, c), KicksAsk(o, c) => KicksAsk(p, c),
         d \in {b, NULL}, d # NULL => d \in z.members /\ d # z.me,
         In(z) => IF In(v[Len(s)])
                    THEN Has(o, WhoOf(c)) => Has(p, WhoOf(c))
                    ELSE /\ Echo(t[1], v[Len(s)], c) /\ WhoFirst(p, c)
                         /\ Taken(chs, c) => Has(p, WhoOf(c)),
         (In(v[Len(s)]) => WhoFirst(o, c)) /\ d # NULL =>
           /\ ~Clears(t[1], v[Len(s)], c)
           /\ \A i \in 2..Len(t) : ~Clears(t[i], z, c)
           /\ In(z) /\ In(v[Len(s)]) /\ WhoFirst(o, c) => WhoFirst(p, c)
  PROVE  Knows(c, w, s \o t, p, chs, d, Q)
<1>1. w[0] = v[0] /\ w[Len(s \o t)] = z
  BY PlacesMore
<1>2. ASSUME c \in DOMAIN chs
      PROVE  /\ Sees(chs[c], w[0], Q) /\ (chs[c].joined => JoinsAsk(p, c))
             /\ Enough => Pending(chs[c], w, s \o t, c, p)
  <2>1. Sees(chs[c], v[0], R) /\ (Enough => Pending(chs[c], v, s, c, o)) /\ (chs[c].joined => JoinsAsk(o, c))
    BY <1>2 DEF Knows
  <2>2. Sees(chs[c], w[0], Q)
    BY <1>1, <2>1, SeesLess
  <2>3. Enough => Pending(chs[c], w, s \o t, c, p)
    BY <2>1, PendingMore
  <2> QED
    BY <2>1, <2>2, <2>3
<1>3. ASSUME d # NULL PROVE d \in w[Len(s \o t)].members /\ d # w[Len(s \o t)].me /\ Owes(d, w, s \o t, c, p, chs)
  <2>1. d = b /\ Owes(d, v, s, c, o, chs)
    BY <1>3 DEF Knows
  <2>2. (In(v[Len(s)]) => WhoFirst(o, c)) =>
           /\ ~Clears(t[1], v[Len(s)], c)
           /\ \A i \in 2..Len(t) : ~Clears(t[i], z, c)
           /\ In(z) /\ In(v[Len(s)]) => /\ Has(o, WhoOf(c)) => Has(p, WhoOf(c))
                                        /\ WhoFirst(o, c) => WhoFirst(p, c)
           /\ In(z) /\ ~In(v[Len(s)]) => /\ Echo(t[1], v[Len(s)], c) /\ WhoFirst(p, c)
                                         /\ Taken(chs, c) => Has(p, WhoOf(c))
    BY <1>3
  <2>3. Owes(d, w, s \o t, c, p, chs)
    BY <2>1, <2>2, OwesMore
  <2> QED
    BY <1>1, <1>3, <2>3
<1>4. KicksAsk(p, c)
  BY DEF Knows
<1> QED
  BY <1>2, <1>3, <1>4 DEF Knows

\* A channel of which the bot has nothing.
Bare(ch) == ch.joined = FALSE /\ Once(ch) /\ \A n, o : ~On(ch, n, o)

\* w is v, but for what c is at last while the bot is out of it.
Alike(w, v, s) ==
  \A i \in 0..Len(s) : /\ w[i].me = v[i].me /\ (In(w[i]) <=> In(v[i]))
                       /\ w[i] = v[i] \/ (i = Len(s) /\ ~In(v[i]))

\* Nothing is added.
LEMMA KnowsSame ==
  ASSUME NEW s \in Seq(Lines), NEW v, NEW w, Alike(w, v, s),
         NEW c, NEW o, NEW p, NEW chs, NEW chz, NEW b, NEW d, NEW R, NEW Q, R \subseteq Q,
         Knows(c, v, s, o, chs, b, R),
         c \in DOMAIN chz => (c \in DOMAIN chs /\ chz[c] = chs[c]) \/ Bare(chz[c]),
         Taken(chz, c) => JoinsAsk(p, c), KicksAsk(p, c),
         d \in {b, NULL}, d # NULL => d \in w[Len(s)].members /\ d # w[Len(s)].me,
         In(v[Len(s)]) => /\ Has(o, WhoOf(c)) => Has(p, WhoOf(c))
                          /\ WhoFirst(o, c) => WhoFirst(p, c),
         Minds(chs, c, b) /\ d # NULL => Minds(chz, c, b)
  PROVE  Knows(c, w, s, p, chz, d, Q)
<1>1. /\ 0 \in 0..Len(s) /\ Len(s) \in 0..Len(s) /\ Len(s) \in Nat
      /\ \A i \in 1..Len(s) : i - 1 \in 0..Len(s)
      /\ \A i \in 0..Len(s) : /\ w[i].me = v[i].me /\ (In(w[i]) <=> In(v[i]))
                              /\ w[i] = v[i] \/ (i = Len(s) /\ ~In(v[i]))
  BY DEF Alike
<1>2. ASSUME NEW i \in 1..Len(s) PROVE Echo(s[i], w[i - 1], c) <=> Echo(s[i], v[i - 1], c)
  BY <1>1 DEF Echo
<1>3. ASSUME c \in DOMAIN chz
      PROVE  /\ Sees(chz[c], w[0], Q) /\ (chz[c].joined => JoinsAsk(p, c))
             /\ Enough => Pending(chz[c], w, s, c, p)
  <2>1. CASE Bare(chz[c])
    BY <2>1 DEF Bare, Sees, Pending
  <2>2. CASE c \in DOMAIN chs /\ chz[c] = chs[c]
    <3> DEFINE ch == chz[c]
    <3>1. Sees(ch, v[0], R) /\ (Enough => Pending(ch, v, s, c, o))
      BY <2>2 DEF Knows
    <3>2. ch.joined => JoinsAsk(p, c)
      BY <1>3 DEF Taken
    <3> HIDE DEF ch
    <3>3. Sees(ch, w[0], Q)
      <4>1. Sees(ch, w[0], R)
        <5>1. w[0] = v[0] \/ (~In(v[0]) /\ ~In(w[0]))
          BY <1>1
        <5> QED
          BY <3>1, <5>1, SeesOut
      <4> QED
        BY <4>1, SeesLess
    <3>4. ASSUME Enough PROVE Pending(ch, w, s, c, p)
      <4> SUFFICES ASSUME ch.joined, In(w[Len(s)]) PROVE Pending(ch, w, s, c, p)
        BY DEF Pending
      <4>1. In(v[Len(s)]) /\ \A i \in 0..Len(s) : w[i] = v[i]
        BY <1>1
      <4>2. CASE Has(o, WhoOf(c))
        BY <4>1, <4>2 DEF Pending
      <4>3. CASE \E i \in 1..Len(s) : Echo(s[i], v[i - 1], c)
        BY <1>2, <4>3 DEF Pending
      <4>4. CASE Synced(ch, v, s, c)
        <5>1. PICK j \in 0..Len(s), k \in 0..Len(s) :
                /\ j <= k /\ \A i \in j..k : v[i].members = v[k].members
                /\ \A n \in v[k].members : (j = 0 /\ Listed(ch, n)) \/ \E i \in (j + 1)..k : Tells(s[i], c, n)
          BY <4>4 DEF Synced
        <5>2. \A i \in j..k : i \in 0..Len(s)
          BY <1>1
        <5>3. /\ \A i \in j..k : w[i].members = w[k].members
              /\ \A n \in w[k].members : (j = 0 /\ Listed(ch, n)) \/ \E i \in (j + 1)..k : Tells(s[i], c, n)
          BY <4>1, <5>1, <5>2
        <5>4. Synced(ch, w, s, c)
          BY <5>1, <5>3 DEF Synced
        <5> QED
          BY <5>4 DEF Pending
      <4> QED
        BY <3>1, <3>4, <4>1, <4>2, <4>3, <4>4 DEF Pending
    <3> QED
      BY <3>2, <3>3, <3>4 DEF ch
  <2> QED
    BY <1>3, <2>1, <2>2
<1>4. ASSUME d # NULL PROVE Owes(d, w, s, c, p, chz)
  <2>1. d = b /\ Owes(d, v, s, c, o, chs) /\ (Minds(chs, c, d) => Minds(chz, c, d))
    BY <1>4 DEF Knows
  <2>2. Taken(chz, c) => Taken(chs, c)
    BY DEF Taken, Bare
  <2>3. In(w[Len(s)]) => /\ Has(o, WhoOf(c)) => Has(p, WhoOf(c))
                         /\ WhoFirst(o, c) => WhoFirst(p, c)
    BY <1>1
  <2>4. \A i \in 0..Len(s) : w[i].me = v[i].me /\ (In(w[i]) <=> In(v[i]))
    BY <1>1
  <2> QED
    BY <2>1, <2>2, <2>3, <2>4, OwesSame
<1> QED
  BY <1>3, <1>4 DEF Knows

\* The first line is handled.
LEMMA KnowsFirst ==
  ASSUME NEW s \in Seq(Lines), s # << >>, NEW v, NEW c, NEW R, Chain(v, s, c, R),
         NEW o, NEW p, NEW chs, NEW chz, NEW b, NEW d,
         Knows(c, v, s, o, chs, b, R),
         c \in DOMAIN chz =>
           /\ c \in DOMAIN chs /\ Kept(chs[c], v[0], chz[c], v[1], R)
           /\ chz[c].joined => (chs[c].joined \/ Echo(Head(s), v[0], c)) /\ JoinsAsk(p, c)
           /\ \A n : Enough /\ Tells(Head(s), c, n) /\ In(v[0]) => Listed(chz[c], n),
         KicksAsk(p, c),
         Has(o, WhoOf(c)) => Has(p, WhoOf(c)),
         c \in DOMAIN chs /\ Echo(Head(s), v[0], c) => Has(p, WhoOf(c)),
         d \in {b, NULL},
         d # NULL =>
           /\ Has(o, WhoOf(c)) /\ WhoFirst(o, c) => WhoFirst(p, c)
           /\ (~Taken(chs, c) \/ Minds(chs, c, b)) /\ WhoFirst(o, c) => WhoFirst(p, c)
           /\ Minds(chs, c, b) /\ ~Clears(Head(s), v[0], c) => Minds(chz, c, b)
           /\ OwnKick(Head(s), v[0], c) /\ Head(s).by = b => Minds(chz, c, b)
           /\ ~(Minds(chs, c, b) /\ Tells(Head(s), c, b))
  PROVE  Knows(c, Shift(v, s), Tail(s), p, chz, d, R)
<1>1. /\ Len(Tail(s)) = Len(s) - 1 /\ Len(s) \in Nat \ {0}
      /\ \A i \in 0..(Len(s) - 1) : Shift(v, s)[i] = v[i + 1]
  BY ChainFirst
<1>2. Shift(v, s)[0] = v[1] /\ Shift(v, s)[Len(Tail(s))] = v[Len(s)]
  BY <1>1
<1>3. ASSUME c \in DOMAIN chz
      PROVE  /\ Sees(chz[c], Shift(v, s)[0], R) /\ (chz[c].joined => JoinsAsk(p, c))
             /\ Enough => Pending(chz[c], Shift(v, s), Tail(s), c, p)
  <2>1. Sees(chs[c], v[0], R) /\ (Enough => Pending(chs[c], v, s, c, o))
    BY <1>3 DEF Knows
  <2>2. Sees(chz[c], v[1], R)
    BY <1>3 DEF Kept
  <2>3. Enough => Pending(chz[c], Shift(v, s), Tail(s), c, p)
    BY <1>3, <2>1, PendingFirst
  <2> QED
    BY <1>2, <1>3, <2>2, <2>3
<1>4. ASSUME d # NULL
      PROVE  d \in v[Len(s)].members /\ d # v[Len(s)].me /\ Owes(d, Shift(v, s), Tail(s), c, p, chz)
  <2>1. d = b /\ d \in v[Len(s)].members /\ d # v[Len(s)].me /\ Owes(d, v, s, c, o, chs)
    BY <1>4 DEF Knows
  <2>2. ~Taken(chs, c) => ~Taken(chz, c) \/ Has(p, WhoOf(c))
    BY DEF Taken
  <2>3. Owes(d, Shift(v, s), Tail(s), c, p, chz)
    BY <1>4, <2>1, <2>2, OwesFirst
  <2> QED
    BY <2>1, <2>3
<1> QED
  BY <1>2, <1>3, <1>4 DEF Knows

-----------------------------------------------------------------------------
(* One step of the system.                                                    *)

\* What is known of c at the end of the lines.
Facts(c) ==
  /\ owed[c] # NULL => owed[c] \in members[c] /\ owed[c] # me
  /\ Taken(channels, c) => JoinsAsk(outbox, c)
  /\ KicksAsk(outbox, c)

\* What the server knows of a channel.
LEMMA HereIs ==
  ASSUME NEW c \in Names
  PROVE  /\ CType => Here(c) \in View
         /\ CType' => Here(c)' \in View
  BY DEF CType, Here, View

\* The facts follow.
LEMMA FactsHold ==
  ASSUME NEW c, NEW v, Good(c, v), "who" \notin races
  PROVE  Facts(c)
<1>1. v[Len(inbox)].members = members[c] /\ v[Len(inbox)].me = me
  BY DEF Good, Here
<1> QED
  BY <1>1 DEF Good, Knows, Facts, Taken

\* More races leave as much to be known.
LEMMA KnowsLess ==
  ASSUME NEW c, NEW v, NEW s, NEW o, NEW chs, NEW b, NEW R, NEW Q, R \subseteq Q, Knows(c, v, s, o, chs, b, R)
  PROVE  Knows(c, v, s, o, chs, b, Q)
  BY SeesLess DEF Knows

\* The bot is told, and nothing changes for it yet.
LEMMA SaysGood ==
  ASSUME CType, CType', NEW c \in Names, NEW v, Good(c, v),
         NEW t \in Seq(Lines), t # << >>, inbox' = inbox \o t, UNCHANGED bot, races \subseteq races',
         Line(t[1], Here(c), Here(c)', c, races'),
         \A i \in 2..Len(t) : Line(t[i], Here(c)', Here(c)', c, races'),
         "who" \notin races' /\ Facts(c) =>
           \A w : /\ Adds(w, v, inbox, t, Here(c)')
                  /\ Knows(c, v, inbox, outbox, channels, owed[c], races)
                  => Knows(c, w, inbox \o t, outbox', channels, owed'[c], races')
  PROVE  \E w : Good(c, w)'
<1> DEFINE z == Here(c)'
<1>0. PICK w : w = Longer(v, inbox, t, z)
  OBVIOUS
<1>1. inbox \in Seq(Lines) /\ z \in View
  BY HereIs DEF CType
<1>2. Chain(v, inbox, c, races') /\ v[0].me = nick /\ v[Len(inbox)] = Here(c)
  BY MoreRaces DEF Good
<1>3. Line(t[1], v[Len(inbox)], z, c, races') /\ \A i \in 2..Len(t) : Line(t[i], z, z, c, races')
  BY <1>2
<1> HIDE DEF z
<1>4. Chain(w, inbox \o t, c, races') /\ Adds(w, v, inbox, t, z)
  <2>1. /\ Chain(Longer(v, inbox, t, z), inbox \o t, c, races')
        /\ Adds(Longer(v, inbox, t, z), v, inbox, t, z)
    BY <1>1, <1>2, <1>3, ChainMore
  <2> QED
    BY <1>0, <2>1
<1>5. w[0] = v[0] /\ w[Len(inbox \o t)] = z
  BY <1>1, <1>4, PlacesMore
<1>6. ASSUME "who" \notin races' PROVE Knows(c, w, inbox \o t, outbox', channels, owed'[c], races')
  <2>1. Facts(c) /\ Knows(c, v, inbox, outbox, channels, owed[c], races)
    BY <1>6, FactsHold DEF Good
  <2> QED
    BY <1>4, <1>6, <2>1 DEF z
<1>7. Good(c, w)'
  BY <1>2, <1>4, <1>5, <1>6 DEF Good, z, bot
<1> QED
  BY <1>7

\* The bot is told nothing.
LEMMA StaysGood ==
  ASSUME CType, CType', NEW c \in Names, NEW v, Good(c, v),
         UNCHANGED <<inbox, nick, me>>, races \subseteq races',
         Here(c)' = Here(c) \/ (~In(Here(c)) /\ ~In(Here(c)')),
         "who" \notin races' /\ Facts(c) =>
           /\ c \in DOMAIN channels' => (c \in DOMAIN channels /\ channels'[c] = channels[c]) \/ Bare(channels'[c])
           /\ Taken(channels', c) => JoinsAsk(outbox', c)
           /\ KicksAsk(outbox', c)
           /\ owed'[c] \in {owed[c], NULL} /\ (owed'[c] # NULL => owed'[c] \in members'[c])
           /\ In(Here(c)) => /\ Has(outbox, WhoOf(c)) => Has(outbox', WhoOf(c))
                             /\ WhoFirst(outbox, c) => WhoFirst(outbox', c)
           /\ Minds(channels, c, owed[c]) /\ owed'[c] # NULL => Minds(channels', c, owed[c])
  PROVE  \E w : Good(c, w)'
<1> DEFINE z == Here(c)'
           k == Len(inbox)
<1>0. PICK w : w = Ended(v, inbox, z)
  OBVIOUS
<1>1. inbox \in Seq(Lines) /\ z \in View /\ 0 \in 0..k /\ k \in 0..k
  <2>1. z \in View
    BY HereIs
  <2>2. inbox \in Seq(Lines)
    BY DEF CType
  <2> HIDE DEF z
  <2> QED
    BY <2>1, <2>2
<1>2. Chain(v, inbox, c, races') /\ v[0].me = nick /\ v[k] = Here(c)
  BY MoreRaces DEF Good
<1>3. z.me = v[k].me /\ (z = v[k] \/ (~In(z) /\ ~In(v[k])))
  BY <1>2 DEF Here
<1> HIDE DEF z, k
<1>4. /\ Chain(w, inbox, c, races') /\ w[k] = z
      /\ \A i \in 0..k : i # k => w[i] = v[i]
      /\ \A i \in 0..k : w[i].me = v[i].me /\ (In(w[i]) <=> In(v[i]))
  BY <1>0, <1>1, <1>2, <1>3, ChainLast DEF k
<1>5. w[0].me = nick
  BY <1>1, <1>2, <1>4
<1>6. ASSUME "who" \notin races' PROVE Knows(c, w, inbox, outbox', channels', owed'[c], races')
  <2>1. Facts(c) /\ Knows(c, v, inbox, outbox, channels, owed[c], races)
    BY <1>6, FactsHold DEF Good
  <2>2. Alike(w, v, inbox)
    BY <1>3, <1>4 DEF Alike, k
  <2>3. owed'[c] # NULL => owed'[c] \in w[k].members /\ owed'[c] # w[k].me
    <3>1. w[k].members = members'[c] /\ w[k].me = me
      BY <1>4 DEF z, Here
    <3> QED
      BY <1>6, <2>1, <3>1 DEF Facts
  <2>4. In(v[k]) <=> In(Here(c))
    BY <1>2
  <2>5. /\ c \in DOMAIN channels' => (c \in DOMAIN channels /\ channels'[c] = channels[c]) \/ Bare(channels'[c])
        /\ Taken(channels', c) => JoinsAsk(outbox', c)
        /\ KicksAsk(outbox', c)
        /\ owed'[c] \in {owed[c], NULL}
        /\ In(v[k]) => /\ Has(outbox, WhoOf(c)) => Has(outbox', WhoOf(c))
                       /\ WhoFirst(outbox, c) => WhoFirst(outbox', c)
        /\ Minds(channels, c, owed[c]) /\ owed'[c] # NULL => Minds(channels', c, owed[c])
    BY <1>6, <2>1, <2>4
  <2> USE DEF k
  <2> QED
    BY <1>1, <1>4, <2>1, <2>2, <2>3, <2>5, KnowsSame
<1>7. Good(c, w)'
  BY <1>4, <1>5, <1>6 DEF Good, z, k
<1> QED
  BY <1>7

\* The first line, and c before and after it.
AtHead(c, y, z) ==
  /\ y \in View /\ z \in View /\ y.me = nick /\ Line(m, y, z, c, races)
  /\ c \in DOMAIN channels => /\ Sees(channels[c], y, races)
                              /\ channels[c].joined => JoinsAsk(outbox, c)
  /\ KicksAsk(outbox, c)

\* What the bot makes of it.
Handled(c, y, z) ==
  /\ c \in DOMAIN channels' =>
       /\ c \in DOMAIN channels /\ Kept(channels[c], y, channels'[c], z, races)
       /\ channels'[c].joined => (channels[c].joined \/ Echo(m, y, c)) /\ JoinsAsk(outbox', c)
       /\ \A n : Enough /\ Tells(m, c, n) /\ In(y) => Listed(channels'[c], n)
  /\ KicksAsk(outbox', c)
  /\ Has(outbox, WhoOf(c)) => Has(outbox', WhoOf(c))
  /\ c \in DOMAIN channels /\ Echo(m, y, c) => Has(outbox', WhoOf(c))
  /\ owed'[c] \in {owed[c], NULL}
  /\ owed'[c] # NULL =>
       /\ Has(outbox, WhoOf(c)) /\ WhoFirst(outbox, c) => WhoFirst(outbox', c)
       /\ (~Taken(channels, c) \/ Minds(channels, c, owed[c])) /\ WhoFirst(outbox, c) => WhoFirst(outbox', c)
       /\ Minds(channels, c, owed[c]) /\ ~Clears(m, y, c) => Minds(channels', c, owed[c])
       /\ OwnKick(m, y, c) /\ m.by = owed[c] => Minds(channels', c, owed[c])
       /\ ~(Minds(channels, c, owed[c]) /\ Tells(m, c, owed[c]))

\* The bot handles the first line.
LEMMA FirstGood ==
  ASSUME CType, NEW c \in Names, NEW v, Good(c, v),
         inbox # << >>, inbox' = Tail(inbox), UNCHANGED server, nick' = Heard(m, nick), races \subseteq races',
         \A y, z : "who" \notin races' /\ AtHead(c, y, z) => Handled(c, y, z)
  PROVE  \E w : Good(c, w)'
<1> DEFINE s == inbox
<1>0. PICK w : w = Shift(v, s)
  OBVIOUS
<1>1. s \in Seq(Lines) /\ s # << >> /\ Chain(v, s, c, races) /\ v[0].me = nick /\ v[Len(s)] = Here(c)
  BY DEF CType, Good
<1> HIDE DEF s
<1>2. /\ Chain(w, Tail(s), c, races)
      /\ Len(Tail(s)) = Len(s) - 1 /\ Len(s) \in Nat \ {0}
      /\ \A i \in 0..(Len(s) - 1) : w[i] = v[i + 1]
      /\ Line(Head(s), v[0], v[1], c, races) /\ v[0] \in View /\ v[1] \in View
  BY <1>0, <1>1, ChainFirst
<1>3. w[0] = v[1] /\ w[Len(Tail(s))] = v[Len(s)]
  BY <1>2
<1>4. Here(c)' = Here(c) /\ Chain(w, Tail(s), c, races')
  BY <1>2, MoreRaces DEF Here, server
<1>5. v[1].me = Heard(m, nick)
  BY <1>1, <1>2 DEF Line, m, s
<1>6. ASSUME "who" \notin races' PROVE Knows(c, w, Tail(s), outbox', channels', owed'[c], races')
  <2>1. Knows(c, v, s, outbox, channels, owed[c], races)
    BY <1>6 DEF Good, s
  <2>2. AtHead(c, v[0], v[1])
    BY <1>1, <1>2, <2>1 DEF AtHead, Knows, m, s
  <2>3. Handled(c, v[0], v[1])
    BY <1>6, <2>2
  <2>4. m = Head(s)
    BY DEF m, s
  <2>5. Knows(c, w, Tail(s), outbox', channels', owed'[c], races)
    <3>1. /\ c \in DOMAIN channels' =>
               /\ c \in DOMAIN channels /\ Kept(channels[c], v[0], channels'[c], v[1], races)
               /\ channels'[c].joined => (channels[c].joined \/ Echo(Head(s), v[0], c)) /\ JoinsAsk(outbox', c)
               /\ \A n : Enough /\ Tells(Head(s), c, n) /\ In(v[0]) => Listed(channels'[c], n)
          /\ KicksAsk(outbox', c)
          /\ Has(outbox, WhoOf(c)) => Has(outbox', WhoOf(c))
          /\ c \in DOMAIN channels /\ Echo(Head(s), v[0], c) => Has(outbox', WhoOf(c))
          /\ owed'[c] \in {owed[c], NULL}
          /\ owed'[c] # NULL =>
               /\ Has(outbox, WhoOf(c)) /\ WhoFirst(outbox, c) => WhoFirst(outbox', c)
               /\ (~Taken(channels, c) \/ Minds(channels, c, owed[c])) /\ WhoFirst(outbox, c) => WhoFirst(outbox', c)
               /\ Minds(channels, c, owed[c]) /\ ~Clears(Head(s), v[0], c) => Minds(channels', c, owed[c])
               /\ OwnKick(Head(s), v[0], c) /\ Head(s).by = owed[c] => Minds(channels', c, owed[c])
               /\ ~(Minds(channels, c, owed[c]) /\ Tells(Head(s), c, owed[c]))
      BY <2>3, <2>4 DEF Handled
    <3> QED
      BY <1>0, <1>1, <2>1, <3>1, KnowsFirst
  <2> QED
    BY <2>5, KnowsLess
<1>7. Good(c, w)'
  <2>1. inbox' = Tail(s)
    BY DEF s
  <2> QED
    BY <1>1, <1>3, <1>4, <1>5, <1>6, <2>1 DEF Good
<1> QED
  BY <1>7

-----------------------------------------------------------------------------
(* The people.                                                                *)

\* A line about another channel, or about nothing of the kind.
LEMMA OtherLine ==
  ASSUME NEW l, NEW y, NEW c, NEW R, ~Touches(l, c), l.ev \in {"WHOREPLY", "BANNED"} /\ l.c = c => ~In(y)
  PROVE  Line(l, y, y, c, R)
<1>1. ~About(l, y.me, c) /\ l.ev # "NICK" /\ ~(l.ev = "JOIN" /\ l.c = c) /\ ~Goes(l, c)
      /\ ~(l.ev = "MODE" /\ l.c = c)
  BY DEF Touches, About, Goes
<1>2. In(y) => Moves(l, y, y, c, R)
  BY <1>1 DEF Moves
<1> QED
  BY <1>1, <1>2 DEF Line, Heard

\* Somebody joins.
LEMMA JoinLine ==
  ASSUME NEW l, NEW y, NEW z, NEW c, NEW R, l.ev = "JOIN", l.c = c, In(y), l.who # y.me,
         l.who \notin y.members, z.me = y.me, z.members = y.members \cup {l.who}, z.ops = y.ops
  PROVE  Line(l, y, z, c, R)
<1>1. ~About(l, y.me, c) /\ Touches(l, c) /\ ~Goes(l, c) /\ l.ev # "NICK"
  BY DEF Touches, About, Goes
<1>2. Moves(l, y, z, c, R)
  BY <1>1 DEF Moves
<1> QED
  BY <1>1, <1>2 DEF Line, Heard, In

\* Somebody goes, or the bot does.
LEMMA GoesLine ==
  ASSUME NEW l, NEW y, NEW z, NEW c, NEW R, Goes(l, c), In(y) \/ l.ev = "QUIT", l.ev = "QUIT" => l.who # y.me,
         z.me = y.me, z.members = y.members \ {l.who}, z.ops = y.ops \ {l.who}
  PROVE  Line(l, y, z, c, R)
<1>1. Touches(l, c) /\ l.ev \in {"QUIT", "PART", "KICK"} /\ (About(l, y.me, c) => l.ev # "QUIT" /\ l.who = y.me)
      /\ (l.ev # "QUIT" => l.c = c)
  BY DEF Touches, About, Goes
<1>2. Moves(l, y, z, c, R)
  BY <1>1 DEF Moves
<1>3. ~About(l, y.me, c) => l.who # y.me
  BY <1>1 DEF About
<1> QED
  BY <1>1, <1>2, <1>3 DEF Line, Heard, In

\* Somebody has another nick, or the bot has.
LEMMA NickLine ==
  ASSUME NEW l, NEW y, NEW z, NEW c, NEW R, l.ev = "NICK", l.new # y.me, l.new \notin y.members,
         z.me = Heard(l, y.me), z.members = Renamed(y.members, l.who, l.new), z.ops = Renamed(y.ops, l.who, l.new)
  PROVE  Line(l, y, z, c, R)
<1>1. ~About(l, y.me, c) /\ Touches(l, c) /\ ~Goes(l, c)
  BY DEF Touches, About, Goes
<1>2. Moves(l, y, z, c, R)
  BY <1>1 DEF Moves
<1>3. In(z) <=> In(y)
  BY DEF Renamed, Heard, In
<1> QED
  BY <1>1, <1>2, <1>3 DEF Line

\* Somebody gets op, or loses it.
LEMMA ModeLine ==
  ASSUME NEW l, NEW y, NEW z, NEW c, NEW R, l.ev = "MODE", l.c = c,
         z.me = y.me, z.members = y.members, "mode" \in R \/ Sets(l, y, z)
  PROVE  Line(l, y, z, c, R)
<1>1. ~About(l, y.me, c) /\ Touches(l, c) /\ ~Goes(l, c)
  BY DEF Touches, About, Goes
<1>2. Moves(l, y, z, c, R)
  BY <1>1 DEF Moves
<1> QED
  BY <1>1, <1>2 DEF Line, Heard, In

\* The bot is told of something that it did not ask for.
LEMMA TellsGood ==
  ASSUME CType, CType', NEW c \in Names, NEW v, Good(c, v),
         NEW l \in Lines, inbox' = Append(inbox, l), UNCHANGED <<bot, outbox>>, races \subseteq races',
         Line(l, Here(c), Here(c)', c, races'),
         ~Clears(l, Here(c), c), ~Echo(l, Here(c), c),
         Facts(c) => /\ owed'[c] \in {owed[c], NULL}
                     /\ owed'[c] # NULL => owed'[c] \in members'[c] /\ owed'[c] # me'
  PROVE  \E w : Good(c, w)'
<1> DEFINE y == Here(c)
           z == Here(c)'
<1>0. z.members = members'[c] /\ z.me = me' /\ v[Len(inbox)] = y
  BY DEF Here, Good
<1> HIDE DEF y, z
<1>1. PICK t \in Seq(Lines) : t = <<l>>
  <2>1. <<l>> \in Seq(Lines)
    BY Short
  <2> QED
    BY <2>1
<1>2. t # << >> /\ t[1] = l /\ (\A i \in 2..Len(t) : FALSE) /\ inbox \o t = Append(inbox, l) /\ inbox \in Seq(Lines)
  <2>1. inbox \in Seq(Lines)
    BY DEF CType
  <2>2. Len(t) = 1 /\ t # << >> /\ t[1] = l
    BY <1>1
  <2>3. inbox \o t = Append(inbox, l)
    BY <1>1, <2>1
  <2> QED
    BY <2>1, <2>2, <2>3
<1>3. In(z) => In(y)
  BY DEF Line, Echo, y, z
<1>4. ASSUME Facts(c), NEW w, Adds(w, v, inbox, t, z), Knows(c, v, inbox, outbox, channels, owed[c], races)
      PROVE  Knows(c, w, inbox \o t, outbox', channels, owed'[c], races')
  <2> DEFINE s == inbox
  <2>1. /\ owed'[c] \in {owed[c], NULL}
        /\ owed'[c] # NULL => owed'[c] \in z.members /\ owed'[c] # z.me
        /\ outbox' = outbox
        /\ ~Clears(t[1], v[Len(s)], c)
        /\ In(z) => In(v[Len(s)])
        /\ \A i \in 2..Len(t) : ~Clears(t[i], z, c)
        /\ s \in Seq(Lines) /\ t # << >>
    BY <1>0, <1>2, <1>3, <1>4 DEF y
  <2> QED
    BY <1>4, <2>1, KnowsMore
<1> QED
  BY <1>1, <1>2, <1>4, SaysGood DEF y, z

\* It is told nothing.
LEMMA UntoldGood ==
  ASSUME CType, CType', NEW c \in Names, NEW v, Good(c, v),
         UNCHANGED <<bot, inbox, outbox, me>>, races \subseteq races',
         Here(c)' = Here(c) \/ (~In(Here(c)) /\ ~In(Here(c)')),
         Facts(c) => /\ owed'[c] \in {owed[c], NULL}
                     /\ owed'[c] # NULL => owed'[c] \in members'[c]
  PROVE  \E w : Good(c, w)'
<1>1. ASSUME Facts(c)
      PROVE  /\ c \in DOMAIN channels' => (c \in DOMAIN channels /\ channels'[c] = channels[c]) \/ Bare(channels'[c])
             /\ Taken(channels', c) => JoinsAsk(outbox', c)
             /\ KicksAsk(outbox', c)
             /\ owed'[c] \in {owed[c], NULL} /\ (owed'[c] # NULL => owed'[c] \in members'[c])
             /\ In(Here(c)) => /\ Has(outbox, WhoOf(c)) => Has(outbox', WhoOf(c))
                               /\ WhoFirst(outbox, c) => WhoFirst(outbox', c)
             /\ Minds(channels, c, owed[c]) /\ owed'[c] # NULL => Minds(channels', c, owed[c])
  BY <1>1 DEF Facts, bot
<1>2. UNCHANGED <<inbox, nick, me>>
  BY DEF bot
<1> QED
  BY <1>1, <1>2, StaysGood

\* What it knows does not depend on whom it is to kick, but for him.
LEMMA KnowsOf ==
  ASSUME NEW c, NEW v, NEW s, NEW o, NEW chs, NEW b, NEW d, NEW R,
         Knows(c, v, s, o, chs, b, R),
         d # NULL => d \in v[Len(s)].members /\ d # v[Len(s)].me /\ Owes(d, v, s, c, o, chs)
  PROVE  Knows(c, v, s, o, chs, d, R)
  BY DEF Knows

\* The bot is kicked by d.
LEMMA KnowsKicked ==
  ASSUME NEW s \in Seq(Lines), NEW t \in Seq(Lines), t # << >>, Len(t) = 1, NEW v, NEW w, NEW z,
         Adds(w, v, s, t, z), ~In(z),
         NEW c, NEW o, NEW chs, NEW b, NEW d, NEW R, NEW Q, R \subseteq Q, Knows(c, v, s, o, chs, b, R),
         OwnKick(t[1], v[Len(s)], c), t[1].by = d, d \in z.members, d # z.me
  PROVE  Knows(c, w, s \o t, o, chs, d, Q)
<1>1. Knows(c, w, s \o t, o, chs, NULL, Q)
  BY KnowsMore
<1>2. Owes(d, w, s \o t, c, o, chs)
  BY OwesKicked
<1>3. w[Len(s \o t)] = z
  BY PlacesMore
<1> QED
  BY <1>1, <1>2, <1>3, KnowsOf

\* The channel now, and after the step.
LEMMA HereFields ==
  ASSUME NEW c
  PROVE  /\ Here(c).me = me /\ Here(c).members = members[c] /\ Here(c).ops = ops[c]
         /\ Here(c)'.me = me' /\ Here(c)'.members = members'[c] /\ Here(c)'.ops = ops'[c]
         /\ In(Here(c)) <=> me \in members[c]
         /\ In(Here(c)') <=> me' \in members'[c]
         /\ me' = me /\ members'[c] = members[c] /\ ops'[c] = ops[c] => Here(c)' = Here(c)
  BY DEF Here, In

\* Whoever is to be kicked is still there, if he is not the one who goes.
LEMMA Forgets ==
  ASSUME CType, NEW cs, NEW n, Forget(n, cs), NEW c \in Names
  PROVE  /\ owed'[c] \in {owed[c], NULL}
         /\ owed'[c] # NULL => owed'[c] = owed[c] /\ (c \in cs => owed[c] # n)
  BY DEF CType, Forget

\* Somebody joins a channel.
LEMMA JoinsTrue ==
  ASSUME CType, CType', NEW d \in Names, NEW v, Good(d, v), NEW c \in Names, NEW n \in Nicks, Joins(c, n)
  PROVE  \E w : Good(d, w)'
<1> DEFINE l == [ev |-> "JOIN", c |-> c, who |-> n]
<1>1. /\ UNCHANGED <<bot, outbox, me, owed>> /\ races' = races \cup {} /\ n # me /\ n \notin members[c]
      /\ inbox' = (IF me \in members[c] THEN Append(inbox, l) ELSE inbox)
      /\ members' = [members EXCEPT ![c] = @ \cup {n}]
      /\ ops' = [ops EXCEPT ![c] = IF members[c] = {} THEN {n} ELSE @]
  BY DEF Joins, PersonActs, Tell, bot
<1>2. /\ members'[c] = members[c] \cup {n} /\ (members[c] # {} => ops'[c] = ops[c])
      /\ d # c => members'[d] = members[d] /\ ops'[d] = ops[d]
      /\ members[d] \subseteq members'[d] /\ races \subseteq races'
  BY <1>1 DEF CType
<1>3. l \in Lines /\ l.ev = "JOIN" /\ l.c = c /\ l.who = n
  BY IsLine
<1> HIDE DEF l
<1>4. Facts(d) => /\ owed'[d] \in {owed[d], NULL}
                  /\ owed'[d] # NULL => owed'[d] \in members'[d] /\ owed'[d] # me'
  BY <1>1, <1>2 DEF Facts
<1>5. CASE me \in members[c]
  <2>1. Line(l, Here(d), Here(d)', d, races')
    <3>1. CASE d = c
      <4> DEFINE y == Here(d)
                 z == Here(d)'
      <4>1. /\ l.ev = "JOIN" /\ l.c = d /\ In(y) /\ l.who # y.me /\ l.who \notin y.members
            /\ z.me = y.me /\ z.members = y.members \cup {l.who} /\ z.ops = y.ops
        BY <1>1, <1>2, <1>3, <1>5, <3>1, HereFields
      <4> HIDE DEF y, z
      <4> QED
        BY <4>1, JoinLine DEF y, z
    <3>2. CASE d # c
      <4>1. ~Touches(l, d) /\ l.ev \notin {"WHOREPLY", "BANNED"} /\ Here(d)' = Here(d)
        BY <1>1, <1>2, <1>3, <3>2, HereFields DEF Touches
      <4> QED
        BY <4>1, OtherLine
    <3> QED
      BY <3>1, <3>2
  <2>2. ~Clears(l, Here(d), d) /\ ~Echo(l, Here(d), d)
    BY <1>1, <1>3, HereFields DEF Clears, OwnKick, Echo, About
  <2> QED
    BY <1>1, <1>2, <1>3, <1>4, <1>5, <2>1, <2>2, TellsGood
<1>6. CASE me \notin members[c]
  <2>1. Here(d)' = Here(d) \/ (~In(Here(d)) /\ ~In(Here(d)'))
    BY <1>1, <1>2, <1>6, HereFields
  <2> QED
    BY <1>1, <1>2, <1>4, <1>6, <2>1, UntoldGood
<1> QED
  BY <1>5, <1>6

\* Somebody leaves a channel, or the bot does.
LEMMA LeavesTrue ==
  ASSUME CType, CType', NEW d \in Names, NEW v, Good(d, v), NEW c \in Names, NEW n \in Nicks, Leaves(c, n)
  PROVE  \E w : Good(d, w)'
<1> DEFINE l == [ev |-> "PART", c |-> c, who |-> n]
<1>1. /\ UNCHANGED <<bot, outbox, me>> /\ races' = races \cup {} /\ Forget(n, {c}) /\ n \in members[c]
      /\ inbox' = (IF me \in members[c] THEN Append(inbox, l) ELSE inbox)
      /\ members' = [members EXCEPT ![c] = @ \ {n}]
      /\ ops' = [ops EXCEPT ![c] = @ \ {n}]
  BY DEF Leaves, PersonActs, Tell, bot
<1>2. /\ members'[c] = members[c] \ {n} /\ ops'[c] = ops[c] \ {n}
      /\ d # c => members'[d] = members[d] /\ ops'[d] = ops[d]
      /\ races \subseteq races'
  BY <1>1 DEF CType
<1>3. l \in Lines /\ l.ev = "PART" /\ l.c = c /\ l.who = n
  BY IsLine
<1> HIDE DEF l
<1>4. Facts(d) => /\ owed'[d] \in {owed[d], NULL}
                  /\ owed'[d] # NULL => owed'[d] \in members'[d] /\ owed'[d] # me'
  BY <1>1, <1>2, Forgets DEF Facts
<1>5. CASE me \in members[c]
  <2>1. Line(l, Here(d), Here(d)', d, races')
    <3>1. CASE d = c
      BY <1>1, <1>2, <1>3, <1>5, <3>1, GoesLine, HereFields DEF Goes
    <3>2. CASE d # c
      <4>1. ~Touches(l, d) /\ l.ev \notin {"WHOREPLY", "BANNED"} /\ Here(d)' = Here(d)
        BY <1>1, <1>2, <1>3, <3>2, HereFields DEF Touches
      <4> QED
        BY <4>1, OtherLine
    <3> QED
      BY <3>1, <3>2
  <2>2. ~Clears(l, Here(d), d) /\ ~Echo(l, Here(d), d)
    BY <1>1, <1>3, HereFields DEF Clears, OwnKick, Echo, About
  <2> QED
    BY <1>1, <1>2, <1>3, <1>4, <1>5, <2>1, <2>2, TellsGood
<1>6. CASE me \notin members[c]
  <2>1. Here(d)' = Here(d) \/ (~In(Here(d)) /\ ~In(Here(d)'))
    BY <1>1, <1>2, <1>6, HereFields
  <2> QED
    BY <1>1, <1>2, <1>4, <1>6, <2>1, UntoldGood
<1> QED
  BY <1>5, <1>6

\* Somebody quits.
LEMMA QuitsTrue ==
  ASSUME CType, CType', NEW d \in Names, NEW v, Good(d, v), NEW n \in Nicks, Quits(n)
  PROVE  \E w : Good(d, w)'
<1> DEFINE l == [ev |-> "QUIT", who |-> n]
           cs == {c \in Names : n \in members[c]}
           told == \E c \in cs : me \in members[c]
<1>1. /\ UNCHANGED <<bot, outbox, me>> /\ races' = races \cup {} /\ Forget(n, Names) /\ n # me
      /\ inbox' = (IF told THEN Append(inbox, l) ELSE inbox)
      /\ members' = [c \in Names |-> members[c] \ {n}]
      /\ ops' = [c \in Names |-> ops[c] \ {n}]
  BY DEF Quits, PersonActs, Tell, bot
<1>2. /\ members'[d] = members[d] \ {n} /\ ops'[d] = ops[d] \ {n}
      /\ races \subseteq races' /\ ops[d] \subseteq members[d]
  BY <1>1 DEF CType
<1>3. l \in Lines /\ l.ev = "QUIT" /\ l.who = n
  BY IsNickLine
<1>4. Facts(d) => /\ owed'[d] \in {owed[d], NULL}
                  /\ owed'[d] # NULL => owed'[d] \in members'[d] /\ owed'[d] # me'
  BY <1>1, <1>2, Forgets DEF Facts
<1>5. ~told => n \notin members[d] \/ me \notin members[d]
  OBVIOUS
<1> HIDE DEF l, told
<1>6. CASE told
  <2>1. Line(l, Here(d), Here(d)', d, races')
    <3>1. Goes(l, d) /\ l.ev = "QUIT" /\ l.who # Here(d).me
      BY <1>1, <1>3, HereFields DEF Goes
    <3>2. /\ Here(d)'.me = Here(d).me
          /\ Here(d)'.members = Here(d).members \ {l.who} /\ Here(d)'.ops = Here(d).ops \ {l.who}
      BY <1>1, <1>2, <1>3, HereFields
    <3> QED
      BY <3>1, <3>2, GoesLine
  <2>2. ~Clears(l, Here(d), d) /\ ~Echo(l, Here(d), d)
    BY <1>3 DEF Clears, OwnKick, Echo, About
  <2> QED
    BY <1>1, <1>2, <1>3, <1>4, <1>6, <2>1, <2>2, TellsGood
<1>7. CASE ~told
  <2>1. CASE n \notin members[d]
    <3>1. members'[d] = members[d] /\ ops'[d] = ops[d]
      BY <1>2, <2>1
    <3>2. Here(d)' = Here(d)
      BY <1>1, <3>1, HereFields
    <3> QED
      BY <1>1, <1>2, <1>4, <1>7, <3>2, UntoldGood
  <2>2. CASE me \notin members[d]
    <3>1. ~In(Here(d)) /\ ~In(Here(d)')
      BY <1>1, <1>2, <2>2, HereFields
    <3> QED
      BY <1>1, <1>2, <1>4, <1>7, <3>1, UntoldGood
  <2> QED
    BY <1>5, <1>7, <2>1, <2>2
<1> QED
  BY <1>6, <1>7

\* Somebody has another nick, or the bot has.
LEMMA RenamesTrue ==
  ASSUME CType, CType', NEW d \in Names, NEW v, Good(d, v), NEW n \in Nicks, NEW new \in Nicks, Renames(n, new)
  PROVE  \E w : Good(d, w)'
<1> DEFINE l == [ev |-> "NICK", who |-> n, new |-> new]
           cs == {c \in Names : n \in members[c]}
           told == n = me \/ \E c \in cs : me \in members[c]
<1>1. /\ UNCHANGED <<bot, outbox>> /\ races' = races \cup {} /\ Forget(n, Names)
      /\ new # me /\ \A c \in Names : new \notin members[c]
      /\ inbox' = (IF told THEN Append(inbox, l) ELSE inbox)
      /\ members' = [c \in Names |-> Renamed(members[c], n, new)]
      /\ ops' = [c \in Names |-> Renamed(ops[c], n, new)]
      /\ me' = IF n = me THEN new ELSE me
  BY DEF Renames, PersonActs, bot, Renamed
<1>2. /\ members'[d] = Renamed(members[d], n, new) /\ ops'[d] = Renamed(ops[d], n, new)
      /\ races \subseteq races' /\ new \notin members[d] /\ ops[d] \subseteq members[d]
  BY <1>1 DEF CType
<1>3. l \in Lines /\ l.ev = "NICK" /\ l.who = n /\ l.new = new
  BY IsNickLine
<1>4. Facts(d) => /\ owed'[d] \in {owed[d], NULL}
                  /\ owed'[d] # NULL => owed'[d] \in members'[d] /\ owed'[d] # me'
  BY <1>1, <1>2, Forgets DEF Facts, Renamed
<1>5. ~told => n # me /\ (n \notin members[d] \/ me \notin members[d])
  OBVIOUS
<1> HIDE DEF l, told
<1>6. CASE told
  <2>1. Line(l, Here(d), Here(d)', d, races')
    <3>1. Here(d)'.me = Heard(l, Here(d).me)
      BY <1>1, <1>3, HereFields DEF Heard
    <3>2. /\ l.ev = "NICK" /\ l.new # Here(d).me /\ l.new \notin Here(d).members
          /\ Here(d)'.members = Renamed(Here(d).members, l.who, l.new)
          /\ Here(d)'.ops = Renamed(Here(d).ops, l.who, l.new)
      <4>1. Here(d).me = me /\ Here(d).members = members[d] /\ Here(d).ops = ops[d]
        BY HereFields
      <4>2. Here(d)'.members = members'[d] /\ Here(d)'.ops = ops'[d]
        BY HereFields
      <4>3. l.new # me /\ l.new \notin members[d]
        BY <1>1, <1>2, <1>3
      <4>4. /\ members'[d] = Renamed(members[d], l.who, l.new)
            /\ ops'[d] = Renamed(ops[d], l.who, l.new)
        BY <1>2, <1>3
      <4> QED
        BY <1>3, <4>1, <4>2, <4>3, <4>4, Zenon
    <3> QED
      BY <3>1, <3>2, NickLine
  <2>2. ~Clears(l, Here(d), d) /\ ~Echo(l, Here(d), d)
    BY <1>3 DEF Clears, OwnKick, Echo, About
  <2> QED
    BY <1>1, <1>2, <1>3, <1>4, <1>6, <2>1, <2>2, TellsGood
<1>7. CASE ~told
  <2>0. me' = me
    BY <1>1, <1>5, <1>7
  <2>1. CASE n \notin members[d]
    <3>1. members'[d] = members[d] /\ ops'[d] = ops[d]
      BY <1>2, <2>1 DEF Renamed
    <3>2. Here(d)' = Here(d)
      BY <2>0, <3>1, HereFields
    <3> QED
      BY <1>1, <1>2, <1>4, <1>7, <2>0, <3>2, UntoldGood
  <2>2. CASE me \notin members[d]
    <3>1. ~In(Here(d)) /\ ~In(Here(d)')
      BY <1>1, <1>2, <2>0, <2>2, HereFields DEF Renamed
    <3> QED
      BY <1>1, <1>2, <1>4, <1>7, <2>0, <3>1, UntoldGood
  <2> QED
    BY <1>5, <1>7, <2>1, <2>2
<1> QED
  BY <1>6, <1>7

\* Somebody is kicked, or the bot is.
LEMMA KicksTrue ==
  ASSUME CType, CType', NEW d \in Names, NEW v, Good(d, v),
         NEW c \in Names, NEW by \in Nicks, NEW n \in Nicks, Kicks(c, by, n)
  PROVE  \E w : Good(d, w)'
<1> DEFINE l == [ev |-> "KICK", c |-> c, by |-> by, who |-> n]
<1>1. /\ UNCHANGED <<bot, outbox, me>> /\ races' = races \cup {} /\ n \in members[c] /\ n # by /\ by \in ops[c]
      /\ inbox' = (IF me \in members[c] THEN Append(inbox, l) ELSE inbox)
      /\ members' = [members EXCEPT ![c] = @ \ {n}]
      /\ ops' = [ops EXCEPT ![c] = @ \ {n}]
      /\ IF n = me THEN owed' = [owed EXCEPT ![c] = by] ELSE Forget(n, {c})
  BY DEF Kicks, PersonActs, Tell, bot
<1>2. /\ members'[c] = members[c] \ {n} /\ ops'[c] = ops[c] \ {n}
      /\ d # c => members'[d] = members[d] /\ ops'[d] = ops[d]
      /\ races \subseteq races' /\ by \in members[c]
      /\ d # c /\ n = me => owed'[d] = owed[d]
      /\ n = me => owed'[c] = by
  BY <1>1 DEF CType
<1>3. l \in Lines /\ l.ev = "KICK" /\ l.c = c /\ l.who = n /\ l.by = by
  BY IsLine
<1> HIDE DEF l
<1>4. d # c \/ n # me => (Facts(d) => /\ owed'[d] \in {owed[d], NULL}
                                      /\ owed'[d] # NULL => owed'[d] \in members'[d] /\ owed'[d] # me')
  <2>1. CASE n = me /\ d # c
    BY <1>1, <1>2, <2>1 DEF Facts
  <2>2. CASE n # me
    BY <1>1, <1>2, <2>2, Forgets DEF Facts
  <2> QED
    BY <2>1, <2>2
<1>5. CASE me \in members[c]
  <2>1. Line(l, Here(d), Here(d)', d, races')
    <3>1. CASE d = c
      BY <1>1, <1>2, <1>3, <1>5, <3>1, GoesLine, HereFields DEF Goes
    <3>2. CASE d # c
      <4>1. ~Touches(l, d) /\ l.ev \notin {"WHOREPLY", "BANNED"} /\ Here(d)' = Here(d)
        BY <1>1, <1>2, <1>3, <3>2, HereFields DEF Touches
      <4> QED
        BY <4>1, OtherLine
    <3> QED
      BY <3>1, <3>2
  <2>2. CASE d # c \/ n # me
    <3>1. ~Clears(l, Here(d), d) /\ ~Echo(l, Here(d), d)
      BY <1>1, <1>3, <2>2, HereFields DEF Clears, OwnKick, Echo, About
    <3> QED
      BY <1>1, <1>2, <1>3, <1>4, <1>5, <2>1, <2>2, <3>1, TellsGood
  <2>3. CASE d = c /\ n = me
    <3>1. PICK t \in Seq(Lines) : t = <<l>>
      <4>1. <<l>> \in Seq(Lines)
        BY <1>3, Short
      <4> QED
        BY <4>1
    <3>2. t # << >> /\ t[1] = l /\ Len(t) = 1 /\ (\A i \in 2..Len(t) : FALSE) /\ inbox \o t = inbox'
      <4>1. inbox \in Seq(Lines)
        BY DEF CType
      <4>2. Len(t) = 1 /\ t # << >> /\ t[1] = l
        BY <3>1
      <4>3. inbox \o t = Append(inbox, l)
        BY <3>1, <4>1
      <4> QED
        BY <1>1, <1>5, <4>2, <4>3
    <3> DEFINE z == Here(d)'
    <3>3. /\ ~In(z) /\ OwnKick(t[1], v[Len(inbox)], d) /\ t[1].by = owed'[d]
          /\ owed'[d] \in z.members /\ owed'[d] # z.me /\ inbox \in Seq(Lines) /\ outbox' = outbox
      <4>1. v[Len(inbox)].me = me
        BY HereFields DEF Good
      <4> QED
        BY <1>1, <1>2, <1>3, <1>5, <2>3, <3>2, <4>1, HereFields DEF OwnKick, About, CType
    <3> HIDE DEF z
    <3>4. ASSUME NEW w, Adds(w, v, inbox, t, z), Knows(d, v, inbox, outbox, channels, owed[d], races)
          PROVE  Knows(d, w, inbox \o t, outbox', channels, owed'[d], races')
      <4> DEFINE s == inbox
      <4>1. s \in Seq(Lines)
        BY <3>3
      <4> HIDE DEF s
      <4>2. /\ t # << >> /\ Len(t) = 1 /\ Adds(w, v, s, t, z) /\ ~In(z) /\ races \subseteq races'
            /\ Knows(d, v, s, outbox, channels, owed[d], races)
            /\ OwnKick(t[1], v[Len(s)], d) /\ t[1].by = owed'[d]
            /\ owed'[d] \in z.members /\ owed'[d] # z.me
        BY <1>2, <3>2, <3>3, <3>4 DEF s
      <4>3. Knows(d, w, s \o t, outbox, channels, owed'[d], races')
        BY <4>1, <4>2, KnowsKicked
      <4> QED
        BY <3>3, <4>3 DEF s
    <3>5. UNCHANGED bot
      BY <1>1
    <3> QED
      BY <1>2, <2>1, <3>2, <3>4, <3>5, SaysGood DEF z
  <2> QED
    BY <2>2, <2>3
<1>6. CASE me \notin members[c]
  <2>0. n # me
    BY <1>1, <1>6
  <2>1. Here(d)' = Here(d) \/ (~In(Here(d)) /\ ~In(Here(d)'))
    BY <1>1, <1>2, <1>6, HereFields
  <2> QED
    BY <1>1, <1>2, <1>4, <1>6, <2>0, <2>1, UntoldGood
<1> QED
  BY <1>5, <1>6

\* Somebody is given op, or loses it.
LEMMA SetsModeTrue ==
  ASSUME CType, CType', NEW d \in Names, NEW v, Good(d, v),
         NEW c \in Names, NEW by \in Nicks, NEW n \in Nicks, NEW sign \in {"+", "-"},
         NEW before \in {"none", "b", "n"}, SetsMode(c, by, sign, before, n)
  PROVE  \E w : Good(d, w)'
<1> DEFINE l == [ev |-> "MODE", c |-> c,
                 modes |-> IF before = "none" THEN <<sign, "o">> ELSE <<sign, before, "o">>,
                 args |-> IF before = "b" THEN <<NULL, n>> ELSE <<n>>]
<1>1. /\ UNCHANGED <<bot, outbox, me, members, owed>>
      /\ races' = races \cup (IF before = "n" THEN {"mode"} ELSE {})
      /\ ops' = [ops EXCEPT ![c] = IF sign = "+" THEN @ \cup {n} ELSE @ \ {n}]
  BY DEF SetsMode, PersonActs, bot
<1>2. inbox' = (IF me \in members[c] THEN Append(inbox, l) ELSE inbox)
  BY DEF SetsMode, Tell
<1>3. /\ ops'[c] = (IF sign = "+" THEN ops[c] \cup {n} ELSE ops[c] \ {n})
      /\ d # c => ops'[d] = ops[d]
      /\ races \subseteq races' /\ (before = "n" => "mode" \in races')
  BY <1>1 DEF CType
<1>4. /\ l.ev = "MODE" /\ l.c = c
      /\ before # "n" => \/ l.modes = <<sign, "o">> /\ l.args = <<n>>
                         \/ l.modes = <<sign, "b", "o">> /\ l.args = <<NULL, n>>
  OBVIOUS
<1> HIDE DEF l
<1>5. Facts(d) => /\ owed'[d] \in {owed[d], NULL}
                  /\ owed'[d] # NULL => owed'[d] \in members'[d] /\ owed'[d] # me'
  BY <1>1 DEF Facts
<1>6. CASE me \in members[c]
  <2>1. Line(l, Here(d), Here(d)', d, races')
    <3>1. CASE d = c
      <4> DEFINE y == Here(d)
                 z == Here(d)'
      <4>1. z.me = y.me /\ z.members = y.members /\ z.ops = (IF sign = "+" THEN y.ops \cup {n} ELSE y.ops \ {n})
        BY <1>1, <1>3, <3>1, HereFields
      <4> HIDE DEF y, z
      <4>2. "mode" \in races' \/ Sets(l, y, z)
        BY <1>3, <1>4, <4>1 DEF Sets
      <4> QED
        BY <1>4, <3>1, <4>1, <4>2, ModeLine DEF y, z
    <3>2. CASE d # c
      <4>1. ~Touches(l, d) /\ l.ev \notin {"WHOREPLY", "BANNED"} /\ Here(d)' = Here(d)
        BY <1>1, <1>3, <1>4, <3>2, HereFields DEF Touches
      <4> QED
        BY <4>1, OtherLine
    <3> QED
      BY <3>1, <3>2
  <2>2. ~Clears(l, Here(d), d) /\ ~Echo(l, Here(d), d)
    BY <1>4 DEF Clears, OwnKick, Echo, About
  <2>3. l \in Lines
    BY <1>2, <1>6, LastIsLine DEF CType
  <2>4. inbox' = Append(inbox, l) /\ UNCHANGED <<bot, outbox>>
    BY <1>1, <1>2, <1>6
  <2> QED
    BY <1>3, <1>5, <2>1, <2>2, <2>3, <2>4, TellsGood
<1>7. CASE me \notin members[c]
  <2>1. Here(d)' = Here(d) \/ (~In(Here(d)) /\ ~In(Here(d)'))
    BY <1>1, <1>3, <1>7, HereFields
  <2>2. UNCHANGED <<bot, inbox, outbox, me>>
    BY <1>1, <1>2, <1>7
  <2> QED
    BY <1>3, <1>5, <2>1, <2>2, UntoldGood
<1> QED
  BY <1>6, <1>7

\* The server sends a PING.
LEMMA PingTrue ==
  ASSUME CType, CType', NEW d \in Names, NEW v, Good(d, v), Ping
  PROVE  \E w : Good(d, w)'
<1> DEFINE l == [ev |-> "PING"]
<1>1. UNCHANGED <<bot, outbox, server, history>> /\ inbox' = Append(inbox, l)
  BY DEF Ping
<1>2. l \in Lines /\ l.ev = "PING"
  BY DEF Lines
<1> HIDE DEF l
<1>3. Here(d)' = Here(d) /\ races \subseteq races' /\ UNCHANGED <<owed, members, me>>
  BY <1>1, HereFields DEF server, history
<1>4. Line(l, Here(d), Here(d)', d, races')
  BY <1>2, <1>3, OtherLine DEF Touches
<1>5. ~Clears(l, Here(d), d) /\ ~Echo(l, Here(d), d)
  BY <1>2 DEF Clears, OwnKick, Echo, About
<1>6. Facts(d) => /\ owed'[d] \in {owed[d], NULL}
                  /\ owed'[d] # NULL => owed'[d] \in members'[d] /\ owed'[d] # me'
  BY <1>3 DEF Facts
<1> QED
  BY <1>1, <1>2, <1>3, <1>4, <1>5, <1>6, TellsGood

\* Whatever a person does.
LEMMA PersonTrue ==
  ASSUME CType, CType', NEW d \in Names, NEW v, Good(d, v), Person
  PROVE  \E w : Good(d, w)'
<1>1. Beside \subseteq {"none", "b", "n"}
  BY ChannelsAssumption
<1> QED
  BY <1>1, JoinsTrue, LeavesTrue, QuitsTrue, RenamesTrue, KicksTrue, SetsModeTrue DEF Person

-----------------------------------------------------------------------------
(* The server.                                                                *)

\* All of a finite set are in it as a sequence.
LEMMA AllInSeq ==
  ASSUME NEW S, IsFiniteSet(S)
  PROVE  /\ SetToSeq(S) \in Seq(S)
         /\ \A x \in S : \E i \in 1..Len(SetToSeq(S)) : SetToSeq(S)[i] = x
<1> DEFINE n == Cardinality(S)
<1>1. n \in Nat /\ ExistsBijection(1..n, S)
  BY FS_CardinalityType
<1>2. PICK f \in [1..n -> S] : IsInjective(f)
  BY <1>1 DEF ExistsBijection, Bijection, Injection, IsInjective
<1>3. SetToSeq(S) \in [1..n -> S] /\ IsInjective(SetToSeq(S))
  BY <1>2, Zenon DEF SetToSeq
<1>4. SetToSeq(S) \in Injection(1..n, S)
  BY <1>3 DEF IsInjective, Injection
<1>5. IsFiniteSet(1..n) /\ Cardinality(1..n) = n
  BY <1>1, FS_Interval
<1>6. SetToSeq(S) \in Surjection(1..n, S)
  BY <1>4, <1>5, FS_Injection
<1>7. \A x \in S : \E i \in 1..n : SetToSeq(S)[i] = x
  BY <1>6 DEF Surjection
<1>8. SetToSeq(S) \in Seq(S) /\ Len(SetToSeq(S)) = n
  BY <1>1, <1>3
<1> QED
  BY <1>7, <1>8

\* The answers to WHO tell of all who are there, and who has op.
LEMMA RepliesTell ==
  ASSUME CType, NEW c \in Names
  PROVE  /\ Replies(c) \in Seq(Lines)
         /\ \A i \in 1..Len(Replies(c)) :
              LET l == Replies(c)[i]
              IN  l.ev = "WHOREPLY" /\ l.c = c /\ l.who \in members[c] /\ (l.op = TRUE <=> l.who \in ops[c])
         /\ \A n \in members[c] : \E i \in 1..Len(Replies(c)) : Replies(c)[i].who = n
<1> DEFINE R(n) == [ev |-> "WHOREPLY", c |-> c, who |-> n, op |-> n \in ops[c]]
           S == {R(n) : n \in members[c]}
<1>1. IsFiniteSet(members[c])
  BY FS_Subset, ChannelsAssumption DEF CType
<1>2. IsFiniteSet(S)
  <2>1. [n \in members[c] |-> R(n)] \in Surjection(members[c], S)
    BY DEF Surjection
  <2> HIDE DEF S
  <2> QED
    BY <1>1, <2>1, FS_Surjection
<1>3. Replies(c) \in Seq(Lines)
  BY RepliesAre
<1>4. \A n : /\ R(n).ev = "WHOREPLY" /\ R(n).c = c /\ R(n).who = n
             /\ R(n).op = TRUE <=> n \in ops[c]
  OBVIOUS
<1>5. Replies(c) = SetToSeq(S)
  BY Zenon DEF Replies
<1> HIDE DEF R
<1>6. /\ \A x \in S : \E n \in members[c] : x = R(n)
      /\ \A n \in members[c] : R(n) \in S
  OBVIOUS
<1> HIDE DEF S
<1>7. /\ SetToSeq(S) \in Seq(S)
      /\ \A x \in S : \E i \in 1..Len(SetToSeq(S)) : SetToSeq(S)[i] = x
  BY <1>2, AllInSeq
<1>8. \A i \in 1..Len(SetToSeq(S)) : SetToSeq(S)[i] \in S
  BY <1>7
<1> QED
  BY <1>3, <1>4, <1>5, <1>6, <1>7, <1>8

\* An answer of one line.
LEMMA OneLine ==
  ASSUME CType, NEW l \in Lines
  PROVE  \E t \in Seq(Lines) : /\ t # << >> /\ Len(t) = 1 /\ t[1] = l /\ \A i \in 2..Len(t) : FALSE
                               /\ inbox \o <<l>> = inbox \o t
<1>1. <<l>> \in Seq(Lines)
  BY Short
<1>2. <<l>> # << >> /\ Len(<<l>>) = 1 /\ <<l>>[1] = l /\ \A i \in 2..Len(<<l>>) : FALSE
  OBVIOUS
<1> QED
  BY <1>1, <1>2

\* The server takes a command, and answers.
LEMMA AnswersGood ==
  ASSUME CType, CType', NEW c \in Names, NEW v, Good(c, v), NEW t \in Seq(Lines), t # << >>,
         outbox # << >>, outbox' = Tail(outbox), inbox' = inbox \o t, UNCHANGED bot, races \subseteq races',
         Line(t[1], Here(c), Here(c)', c, races'),
         \A i \in 2..Len(t) : Line(t[i], Here(c)', Here(c)', c, races'),
         In(Here(c)') => IF In(Here(c)) THEN Head(outbox) # WhoOf(c)
                                        ELSE Echo(t[1], Here(c), c) /\ Head(outbox) = JoinOf(c),
         (In(Here(c)) => ~KicksIn(Head(outbox), c)) =>
           ~Clears(t[1], Here(c), c) /\ \A i \in 2..Len(t) : ~Clears(t[i], Here(c)', c),
         Facts(c) => /\ owed'[c] \in {owed[c], NULL}
                     /\ owed'[c] # NULL => owed'[c] \in members'[c] /\ owed'[c] # me'
  PROVE  \E w : Good(c, w)'
<1> DEFINE y == Here(c)
           z == Here(c)'
<1>1. z.members = members'[c] /\ z.me = me' /\ v[Len(inbox)] = y /\ inbox \in Seq(Lines) /\ outbox \in Seq(Commands)
  BY DEF Here, Good, CType
<1> HIDE DEF y, z
<1>2. ASSUME Facts(c), NEW w, Adds(w, v, inbox, t, z), Knows(c, v, inbox, outbox, channels, owed[c], races)
      PROVE  Knows(c, w, inbox \o t, outbox', channels, owed'[c], races')
  <2> DEFINE s == inbox
             p == Tail(outbox)
             o == outbox
  <2>1. /\ JoinsAsk(o, c) => JoinsAsk(p, c)
        /\ KicksAsk(o, c) => KicksAsk(p, c)
        /\ Head(o) = JoinOf(c) /\ JoinsAsk(o, c) => Has(p, WhoOf(c))
        /\ Head(o) = JoinOf(c) /\ KicksAsk(o, c) => WhoFirst(p, c)
        /\ Head(o) # WhoOf(c) /\ WhoFirst(o, c) => WhoFirst(p, c)
        /\ Head(o) # WhoOf(c) /\ Has(o, WhoOf(c)) => Has(p, WhoOf(c))
        /\ KicksIn(Head(o), c) => ~WhoFirst(o, c)
    BY <1>1, TakenAsks
  <2> HIDE DEF s, p, o
  <2>2. /\ s \in Seq(Lines) /\ inbox = s /\ outbox' = p /\ outbox = o
        /\ v[Len(s)] = y
    BY <1>1 DEF s, p, o
  <2>3. /\ KicksAsk(o, c) /\ (Taken(channels, c) => JoinsAsk(o, c))
        /\ owed'[c] \in {owed[c], NULL}
        /\ owed'[c] # NULL => owed'[c] \in z.members /\ owed'[c] # z.me
    BY <1>1, <1>2, <2>2 DEF Facts
  <2>4. In(z) => IF In(y) THEN Head(o) # WhoOf(c) ELSE Echo(t[1], y, c) /\ Head(o) = JoinOf(c)
    BY <2>2 DEF y, z
  <2>5. In(z) => IF In(v[Len(s)])
                   THEN Has(o, WhoOf(c)) => Has(p, WhoOf(c))
                   ELSE /\ Echo(t[1], v[Len(s)], c) /\ WhoFirst(p, c)
                        /\ Taken(channels, c) => Has(p, WhoOf(c))
    BY <2>1, <2>2, <2>3, <2>4
  <2>6. (In(v[Len(s)]) => WhoFirst(o, c)) /\ owed'[c] # NULL =>
           /\ ~Clears(t[1], v[Len(s)], c)
           /\ \A i \in 2..Len(t) : ~Clears(t[i], z, c)
           /\ In(z) /\ In(v[Len(s)]) /\ WhoFirst(o, c) => WhoFirst(p, c)
    <3>1. (In(y) => ~KicksIn(Head(o), c)) =>
            ~Clears(t[1], y, c) /\ \A i \in 2..Len(t) : ~Clears(t[i], z, c)
      BY <2>2 DEF y, z
    <3> QED
      BY <2>1, <2>2, <2>4, <3>1
  <2>7. Knows(c, v, s, o, channels, owed[c], races) /\ Adds(w, v, s, t, z)
    BY <1>2, <2>2
  <2>8. Knows(c, w, s \o t, p, channels, owed'[c], races')
    BY <2>1, <2>2, <2>3, <2>5, <2>6, <2>7, KnowsMore
  <2> QED
    BY <2>2, <2>8
<1> QED
  BY <1>2, SaysGood DEF z

\* It takes a command, and does nothing.
LEMMA TakesGood ==
  ASSUME CType, CType', NEW c \in Names, NEW v, Good(c, v),
         outbox # << >>, outbox' = Tail(outbox), UNCHANGED <<bot, inbox, server, history>>, Head(outbox) # WhoOf(c)
  PROVE  \E w : Good(c, w)'
<1>1. Here(c)' = Here(c) /\ races \subseteq races' /\ UNCHANGED <<inbox, nick, me, channels, owed, members>>
      /\ outbox \in Seq(Commands)
  BY HereFields DEF bot, server, history, CType
<1>2. /\ JoinsAsk(outbox, c) => JoinsAsk(outbox', c)
      /\ KicksAsk(outbox, c) => KicksAsk(outbox', c)
      /\ WhoFirst(outbox, c) => WhoFirst(outbox', c)
      /\ Has(outbox, WhoOf(c)) => Has(outbox', WhoOf(c))
  BY <1>1, TakenAsks
<1>3. ASSUME Facts(c)
      PROVE  /\ c \in DOMAIN channels' => (c \in DOMAIN channels /\ channels'[c] = channels[c]) \/ Bare(channels'[c])
             /\ Taken(channels', c) => JoinsAsk(outbox', c)
             /\ KicksAsk(outbox', c)
             /\ owed'[c] \in {owed[c], NULL} /\ (owed'[c] # NULL => owed'[c] \in members'[c])
             /\ In(Here(c)) => /\ Has(outbox, WhoOf(c)) => Has(outbox', WhoOf(c))
                               /\ WhoFirst(outbox, c) => WhoFirst(outbox', c)
             /\ Minds(channels, c, owed[c]) /\ owed'[c] # NULL => Minds(channels', c, owed[c])
  BY <1>1, <1>2, <1>3 DEF Facts
<1> QED
  BY <1>1, <1>3, StaysGood

\* A WHO is answered.
LEMMA KnowsWho ==
  ASSUME NEW s \in Seq(Lines), NEW t \in Seq(Lines), t # << >>, NEW v, NEW w, NEW z, Adds(w, v, s, t, z),
         z = v[Len(s)], In(z),
         NEW c, NEW o, NEW p, NEW chs, NEW b, NEW R, NEW Q, R \subseteq Q, Knows(c, v, s, o, chs, b, R),
         JoinsAsk(o, c) => JoinsAsk(p, c), KicksAsk(o, c) => KicksAsk(p, c),
         \A n \in z.members : \E h \in 1..Len(t) : Tells(t[h], c, n) /\ \A i \in 1..h : ~Clears(t[i], z, c)
  PROVE  Knows(c, w, s \o t, p, chs, b, Q)
<1>1. w[0] = v[0] /\ w[Len(s \o t)] = z
  BY PlacesMore
<1>2. ASSUME c \in DOMAIN chs
      PROVE  /\ Sees(chs[c], w[0], Q) /\ (chs[c].joined => JoinsAsk(p, c))
             /\ Pending(chs[c], w, s \o t, c, p)
  <2>1. Sees(chs[c], v[0], R) /\ (chs[c].joined => JoinsAsk(o, c))
    BY <1>2 DEF Knows
  <2>2. Sees(chs[c], w[0], Q)
    BY <1>1, <2>1, SeesLess
  <2>3. Pending(chs[c], w, s \o t, c, p)
    BY PendingWho
  <2> QED
    BY <2>1, <2>2, <2>3
<1>3. ASSUME b # NULL PROVE b \in z.members /\ b # z.me /\ Owes(b, w, s \o t, c, p, chs)
  <2>1. b \in z.members /\ b # z.me /\ Owes(b, v, s, c, o, chs)
    BY <1>3 DEF Knows
  <2>2. PICK h \in 1..Len(t) : Tells(t[h], c, b) /\ \A i \in 1..h : ~Clears(t[i], z, c)
    BY <2>1
  <2> QED
    BY <2>1, <2>2, OwesWho
<1>4. KicksAsk(p, c)
  BY DEF Knows
<1> QED
  BY <1>1, <1>2, <1>3, <1>4 DEF Knows

\* The command that the server takes.
LEMMA AskedHas ==
  ASSUME CType, NEW cmd, Asked(cmd)
  PROVE  /\ outbox # << >> /\ outbox' = Tail(outbox) /\ UNCHANGED bot
         /\ Head(outbox).cmd = cmd /\ Head(outbox).c \in Names
         /\ cmd = "KICK" => Head(outbox).who \in Nicks
         /\ cmd = "JOIN" => Head(outbox) = JoinOf(Head(outbox).c)
         /\ \A d : Head(outbox) = WhoOf(d) => cmd = "WHO" /\ d = Head(outbox).c
         /\ \A d : KicksIn(Head(outbox), d) => cmd = "KICK" /\ d = Head(outbox).c
<1>1. /\ outbox # << >> /\ outbox' = Tail(outbox) /\ UNCHANGED bot
      /\ Head(outbox).cmd = cmd
  BY DEF Asked
<1>2. Head(outbox) \in Commands
  BY <1>1, QueueGrows DEF CType
<1>3. Head(outbox).c \in Names /\ (cmd = "KICK" => Head(outbox).who \in Nicks)
  BY <1>1, <1>2, CommandFields
<1>4. cmd = "JOIN" => Head(outbox) = JoinOf(Head(outbox).c)
  BY <1>1, <1>2, IsJoin
<1>5. \A d : Head(outbox) = WhoOf(d) => cmd = "WHO" /\ d = Head(outbox).c
  BY <1>1, AskedIs
<1>6. \A d : KicksIn(Head(outbox), d) => cmd = "KICK" /\ d = Head(outbox).c
  BY <1>1 DEF KicksIn
<1> QED
  BY <1>1, <1>3, <1>4, <1>5, <1>6

\* The server lets the bot in.
LEMMA AcceptTrue ==
  ASSUME CType, CType', NEW d \in Names, NEW v, Good(d, v), NEW c \in Names, Accept(c)
  PROVE  \E w : Good(d, w)'
<1> DEFINE l == [ev |-> "JOIN", c |-> c, who |-> me]
<1>1. /\ Asked("JOIN") /\ c = Head(outbox).c /\ me \notin members[c] /\ inbox' = inbox \o <<l>>
      /\ members' = [members EXCEPT ![c] = @ \cup {me}]
      /\ ops' = [ops EXCEPT ![c] = IF members[c] = {} THEN {me} ELSE @]
      /\ races' = (IF members[c] = {} THEN races \cup {"first"} ELSE races)
      /\ UNCHANGED <<me, owed>>
  BY DEF Accept, Answers
<1>2. l \in Lines /\ l.ev = "JOIN" /\ l.c = c /\ l.who = me
  BY IsLine DEF CType
<1> HIDE DEF l
<1>3. /\ outbox # << >> /\ outbox' = Tail(outbox) /\ UNCHANGED bot
      /\ Head(outbox) = JoinOf(c) /\ (\A k : Head(outbox) # WhoOf(k)) /\ (\A k : ~KicksIn(Head(outbox), k))
  BY <1>1, AskedHas
<1>4. /\ members'[c] = members[c] \cup {me} /\ races \subseteq races'
      /\ me \in ops'[c] => "first" \in races'
      /\ d # c => members'[d] = members[d] /\ ops'[d] = ops[d]
      /\ members[d] \subseteq members'[d]
  BY <1>1 DEF CType
<1>5. PICK t \in Seq(Lines) : t # << >> /\ t[1] = l /\ (\A i \in 2..Len(t) : FALSE) /\ inbox' = inbox \o t
  BY <1>1, <1>2, OneLine
<1>6. Facts(d) => /\ owed'[d] \in {owed[d], NULL}
                  /\ owed'[d] # NULL => owed'[d] \in members'[d] /\ owed'[d] # me'
  BY <1>1, <1>4 DEF Facts
<1>7. ~Clears(l, Here(d), d)
  BY <1>2 DEF Clears, OwnKick
<1>8. CASE d = c
  <2> DEFINE y == Here(d)
             z == Here(d)'
  <2>1. ~In(y) /\ In(z) /\ y.me = me /\ z.me = me /\ (z.me \in z.ops => "first" \in races')
    BY <1>1, <1>4, <1>8, HereFields
  <2> HIDE DEF y, z
  <2>2. About(l, y.me, d) /\ Heard(l, y.me) = z.me /\ Echo(l, y, d)
    BY <1>2, <1>8, <2>1 DEF About, Heard, Echo
  <2>3. Line(l, y, z, d, races')
    BY <1>2, <2>1, <2>2 DEF Line
  <2> USE DEF y, z
  <2> QED
    BY <1>3, <1>4, <1>5, <1>6, <1>7, <1>8, <2>1, <2>2, <2>3, AnswersGood
<1>9. CASE d # c
  <2>1. ~Touches(l, d) /\ l.ev \notin {"WHOREPLY", "BANNED"} /\ Here(d)' = Here(d)
    BY <1>1, <1>2, <1>4, <1>9, HereFields DEF Touches
  <2>2. Line(l, Here(d), Here(d)', d, races')
    BY <2>1, OtherLine
  <2> QED
    BY <1>3, <1>4, <1>5, <1>6, <1>7, <2>1, <2>2, AnswersGood
<1> QED
  BY <1>8, <1>9

\* It answers with a line that leaves all as it is, and the bot did not ask for it
\* while it was there.
LEMMA TellsSame ==
  ASSUME CType, CType', NEW d \in Names, NEW v, Good(d, v), NEW cmd, Asked(cmd), UNCHANGED <<server, history>>,
         NEW l \in Lines, inbox' = inbox \o <<l>>, ~Touches(l, d), cmd # "KICK",
         l.ev \in {"WHOREPLY", "BANNED", "ENDOFWHO"} /\ l.c = d => ~In(Here(d)),
         cmd = "WHO" /\ Head(outbox).c = d => ~In(Here(d))
  PROVE  \E w : Good(d, w)'
<1>1. /\ outbox # << >> /\ outbox' = Tail(outbox) /\ UNCHANGED bot
      /\ (\A k : Head(outbox) = WhoOf(k) => cmd = "WHO" /\ k = Head(outbox).c)
  BY AskedHas
<1>2. PICK t \in Seq(Lines) : t # << >> /\ t[1] = l /\ (\A i \in 2..Len(t) : FALSE) /\ inbox' = inbox \o t
  BY OneLine
<1>3. Here(d)' = Here(d) /\ races' = races /\ UNCHANGED <<members, me, owed>>
  BY HereFields DEF server, history
<1>4. ~Clears(l, Here(d), d)
  BY DEF Clears, OwnKick, About, Touches
<1>5. Line(l, Here(d), Here(d)', d, races')
  BY <1>3, OtherLine
<1>6. Facts(d) => /\ owed'[d] \in {owed[d], NULL}
                  /\ owed'[d] # NULL => owed'[d] \in members'[d] /\ owed'[d] # me'
  BY <1>3 DEF Facts
<1>7. In(Here(d)') => In(Here(d)) /\ Head(outbox) # WhoOf(d)
  BY <1>1, <1>3
<1>8. races \subseteq races'
  BY <1>3
<1> QED
  BY <1>1, <1>2, <1>4, <1>5, <1>6, <1>7, <1>8, AnswersGood

\* It does not let it in.
LEMMA RefuseTrue ==
  ASSUME CType, CType', NEW d \in Names, NEW v, Good(d, v), NEW c \in Names, Refuse(c)
  PROVE  \E w : Good(d, w)'
<1>1. PICK why \in Refusals : inbox' = inbox \o <<[ev |-> why, c |-> c]>>
  BY DEF Refuse, Answers
<1>2. why \in {"BANNED", "TOOMANY"}
  BY ChannelsAssumption
<1> DEFINE l == [ev |-> why, c |-> c]
<1>3. l \in Lines /\ l.ev = why /\ l.c = c
  BY <1>2 DEF Lines
<1>4. inbox' = inbox \o <<l>>
  BY <1>1
<1> HIDE DEF l
<1>5. Asked("JOIN") /\ me \notin members[c] /\ UNCHANGED <<server, history>>
  BY DEF Refuse
<1>6. ~Touches(l, d)
  BY <1>2, <1>3 DEF Touches
<1>7. l.c = d => ~In(Here(d))
  BY <1>3, <1>5, HereFields
<1> QED
  BY <1>3, <1>4, <1>5, <1>6, <1>7, TellsSame

\* It has the bot out, as the bot asked for.
LEMMA PartTrue ==
  ASSUME CType, CType', NEW d \in Names, NEW v, Good(d, v), Part
  PROVE  \E w : Good(d, w)'
<1> DEFINE c == Head(outbox).c
           l == [ev |-> "PART", c |-> c, who |-> me]
<1>1. /\ Asked("PART") /\ me \in members[c] /\ inbox' = inbox \o <<l>>
      /\ members' = [members EXCEPT ![c] = @ \ {me}]
      /\ ops' = [ops EXCEPT ![c] = @ \ {me}]
      /\ UNCHANGED <<me, history>>
  BY DEF Part, Answers
<1>2. /\ outbox # << >> /\ outbox' = Tail(outbox) /\ UNCHANGED bot /\ c \in Names
      /\ (\A k : Head(outbox) # WhoOf(k)) /\ (\A k : ~KicksIn(Head(outbox), k))
  BY <1>1, AskedHas
<1>3. l \in Lines /\ l.ev = "PART" /\ l.c = c /\ l.who = me
  BY <1>2, IsLine DEF CType
<1> HIDE DEF l, c
<1>4. /\ members'[c] = members[c] \ {me} /\ ops'[c] = ops[c] \ {me} /\ races \subseteq races'
      /\ d # c => members'[d] = members[d] /\ ops'[d] = ops[d]
      /\ members[d] \ {me} \subseteq members'[d] /\ owed' = owed
  BY <1>1, <1>2 DEF CType, history
<1>5. PICK t \in Seq(Lines) : t # << >> /\ t[1] = l /\ (\A i \in 2..Len(t) : FALSE) /\ inbox' = inbox \o t
  BY <1>1, <1>3, OneLine
<1>6. Facts(d) => /\ owed'[d] \in {owed[d], NULL}
                  /\ owed'[d] # NULL => owed'[d] \in members'[d] /\ owed'[d] # me'
  BY <1>1, <1>4 DEF Facts
<1>7. ~Clears(l, Here(d), d)
  BY <1>3 DEF Clears, OwnKick
<1>8. Line(l, Here(d), Here(d)', d, races') /\ (In(Here(d)') => In(Here(d)))
  <2>1. CASE d = c
    <3> DEFINE y == Here(d)
               z == Here(d)'
    <3>1. /\ In(y) /\ z.me = y.me /\ z.members = y.members \ {l.who} /\ z.ops = y.ops \ {l.who}
          /\ y.me = me /\ l.who = me
      BY <1>1, <1>3, <1>4, <2>1, HereFields
    <3> HIDE DEF y, z
    <3>2. Goes(l, d) /\ l.ev # "QUIT"
      BY <1>3, <2>1 DEF Goes
    <3>3. Line(l, y, z, d, races')
      BY <3>1, <3>2, GoesLine
    <3> QED
      BY <3>1, <3>3 DEF y, z
  <2>2. CASE d # c
    <3>1. ~Touches(l, d) /\ l.ev \notin {"WHOREPLY", "BANNED"} /\ Here(d)' = Here(d)
      BY <1>1, <1>3, <1>4, <2>2, HereFields DEF Touches
    <3> QED
      BY <3>1, OtherLine
  <2> QED
    BY <2>1, <2>2
<1> QED
  BY <1>2, <1>4, <1>5, <1>6, <1>7, <1>8, AnswersGood

\* It ignores a JOIN or a PART.
LEMMA IgnoreTrue ==
  ASSUME CType, CType', NEW d \in Names, NEW v, Good(d, v), Ignore
  PROVE  \E w : Good(d, w)'
<1>1. UNCHANGED <<inbox, server, history>> /\ \E cmd \in {"JOIN", "PART"} : Asked(cmd)
  BY DEF Ignore
<1>2. PICK cmd \in {"JOIN", "PART"} : Asked(cmd)
  BY <1>1
<1>3. outbox # << >> /\ outbox' = Tail(outbox) /\ UNCHANGED bot /\ Head(outbox) # WhoOf(d)
  BY <1>2, AskedHas
<1> QED
  BY <1>1, <1>3, TakesGood

\* It kicks for the bot, or not.
LEMMA KickTrue ==
  ASSUME CType, CType', NEW d \in Names, NEW v, Good(d, v), Kick
  PROVE  \E w : Good(d, w)'
<1> DEFINE c == Head(outbox).c
           n == Head(outbox).who
           l == [ev |-> "KICK", c |-> c, by |-> me, who |-> n]
<1>1. /\ Asked("KICK") /\ UNCHANGED <<me, races>>
      /\ IF me \in ops[c] /\ n \in members[c]
           THEN /\ members' = [members EXCEPT ![c] = @ \ {n}]
                /\ ops' = [ops EXCEPT ![c] = @ \ {n}]
                /\ inbox' = inbox \o <<l>>
                /\ Forget(n, {c})
           ELSE UNCHANGED <<inbox, members, ops, owed>>
  BY DEF Kick, Answers
<1>2. /\ outbox # << >> /\ outbox' = Tail(outbox) /\ UNCHANGED bot /\ c \in Names /\ n \in Nicks
      /\ (\A k : Head(outbox) # WhoOf(k)) /\ (\A k : KicksIn(Head(outbox), k) => k = c)
      /\ KicksIn(Head(outbox), c)
  <2>1. Head(outbox).cmd = "KICK"
    BY <1>1, AskedHas
  <2> QED
    BY <1>1, <2>1, AskedHas DEF KicksIn
<1>3. l \in Lines /\ l.ev = "KICK" /\ l.c = c /\ l.who = n
  BY <1>2, IsLine DEF CType
<1> HIDE DEF l, c, n
<1>4. CASE ~(me \in ops[c] /\ n \in members[c])
  BY <1>1, <1>2, <1>4, TakesGood DEF server, history
<1>5. CASE me \in ops[c] /\ n \in members[c]
  <2>1. /\ members' = [members EXCEPT ![c] = @ \ {n}] /\ ops' = [ops EXCEPT ![c] = @ \ {n}]
        /\ inbox' = inbox \o <<l>> /\ Forget(n, {c}) /\ me \in members[c] /\ me' = me
    BY <1>1, <1>2, <1>5 DEF CType
  <2>2. /\ members'[c] = members[c] \ {n} /\ ops'[c] = ops[c] \ {n} /\ races \subseteq races'
        /\ d # c => members'[d] = members[d] /\ ops'[d] = ops[d]
    BY <1>1, <1>2, <2>1 DEF CType
  <2>3. PICK t \in Seq(Lines) : t # << >> /\ t[1] = l /\ (\A i \in 2..Len(t) : FALSE) /\ inbox' = inbox \o t
    BY <1>3, <2>1, OneLine
  <2>4. Facts(d) => /\ owed'[d] \in {owed[d], NULL}
                    /\ owed'[d] # NULL => owed'[d] \in members'[d] /\ owed'[d] # me'
    BY <2>1, <2>2, Forgets DEF Facts
  <2>5. Line(l, Here(d), Here(d)', d, races') /\ (In(Here(d)') => In(Here(d)))
    <3>1. CASE d = c
      <4> DEFINE y == Here(d)
                 z == Here(d)'
      <4>1. In(y) /\ z.me = y.me /\ z.members = y.members \ {l.who} /\ z.ops = y.ops \ {l.who}
        BY <1>3, <2>1, <2>2, <3>1, HereFields
      <4> HIDE DEF y, z
      <4>2. Goes(l, d) /\ l.ev # "QUIT"
        BY <1>3, <3>1 DEF Goes
      <4>3. Line(l, y, z, d, races')
        BY <4>1, <4>2, GoesLine
      <4> QED
        BY <4>1, <4>3 DEF y, z
    <3>2. CASE d # c
      <4>1. ~Touches(l, d) /\ l.ev \notin {"WHOREPLY", "BANNED"} /\ Here(d)' = Here(d)
        BY <1>3, <2>1, <2>2, <3>2, HereFields DEF Touches
      <4> QED
        BY <4>1, OtherLine
    <3> QED
      BY <3>1, <3>2
  <2>6. (In(Here(d)) => ~KicksIn(Head(outbox), d)) => ~Clears(l, Here(d), d)
    <3>1. CASE d = c
      BY <1>2, <2>1, <3>1, HereFields
    <3>2. CASE d # c
      BY <1>3, <3>2 DEF Clears, OwnKick, About
    <3> QED
      BY <3>1, <3>2
  <2> QED
    BY <1>2, <2>2, <2>3, <2>4, <2>5, <2>6, AnswersGood
<1> QED
  BY <1>4, <1>5

\* An answer to WHO, of one who is there.
LEMMA TellLine ==
  ASSUME NEW l, NEW y, NEW c, NEW R, l.ev = "WHOREPLY", l.who \in y.members, l.op = TRUE <=> l.who \in y.ops
  PROVE  Line(l, y, y, c, R)
<1>1. ~About(l, y.me, c) /\ ~Goes(l, c) /\ ~Touches(l, c)
  BY DEF Touches, About, Goes
<1>2. Moves(l, y, y, c, R)
  BY <1>1 DEF Moves
<1> QED
  BY <1>1, <1>2 DEF Line, Heard

\* An answer to WHO, and one that leaves out nobody of ns.
Tales(t, c, ns, os) ==
  \A i \in 1..Len(t) :
    /\ t[i].ev \in {"WHOREPLY", "ENDOFWHO"} /\ t[i].c = c
    /\ t[i].ev = "WHOREPLY" => t[i].who \in ns /\ (t[i].op = TRUE <=> t[i].who \in os)

TellsAll(t, c, ns) ==
  \A n \in ns : \E h \in 1..Len(t) : Tells(t[h], c, n) /\ \A i \in 1..h : t[i].ev = "WHOREPLY"

\* The answers to WHO, and the end of them.
LEMMA AllReplies ==
  ASSUME CType, NEW c \in Names, NEW e, e = [ev |-> "ENDOFWHO", c |-> c],
         NEW t, t = Replies(c) \o <<e>> \/ t = <<e>>
  PROVE  /\ t \in Seq(Lines) /\ t # << >> /\ Tales(t, c, members[c], ops[c])
         /\ t # <<e>> => TellsAll(t, c, members[c])
<1> DEFINE r == Replies(c)
<1>1. e \in Lines /\ e.ev = "ENDOFWHO" /\ e.c = c
  BY IsLine DEF CType
<1>2. /\ r \in Seq(Lines)
      /\ \A i \in 1..Len(r) :
           r[i].ev = "WHOREPLY" /\ r[i].c = c /\ r[i].who \in members[c] /\ (r[i].op = TRUE <=> r[i].who \in ops[c])
      /\ \A n \in members[c] : \E i \in 1..Len(r) : r[i].who = n
  BY RepliesTell
<1> HIDE DEF r
<1>3. /\ <<e>> \in Seq(Lines) /\ Len(<<e>>) = 1 /\ <<e>>[1] = e /\ <<e>> # << >>
  BY <1>1
<1>4. CASE t = <<e>>
  BY <1>1, <1>3, <1>4 DEF Tales
<1>5. CASE t = r \o <<e>>
  <2>1. /\ t \in Seq(Lines) /\ Len(t) = Len(r) + 1 /\ Len(r) \in Nat /\ t # << >>
        /\ \A i \in 1..Len(r) : t[i] = r[i]
        /\ t[Len(r) + 1] = e
    BY <1>1, <1>2, <1>5
  <2>2. \A i \in 1..Len(t) : i \in 1..Len(r) \/ i = Len(r) + 1
    BY <2>1
  <2>3. ASSUME NEW n \in members[c]
        PROVE  \E h \in 1..Len(t) : Tells(t[h], c, n) /\ \A i \in 1..h : t[i].ev = "WHOREPLY"
    <3>1. PICK h \in 1..Len(r) : r[h].who = n
      BY <1>2
    <3>2. h \in 1..Len(t) /\ \A i \in 1..h : i \in 1..Len(r)
      BY <2>1
    <3>3. Tells(t[h], c, n)
      BY <1>2, <2>1, <3>1 DEF Tells
    <3>4. ASSUME NEW i \in 1..h PROVE t[i].ev = "WHOREPLY"
      <4>1. i \in 1..Len(r)
        BY <3>2
      <4> QED
        BY <1>2, <2>1, <4>1
    <3> QED
      BY <3>2, <3>3, <3>4
  <2>4. Tales(t, c, members[c], ops[c])
    <3>1. \A i \in 1..Len(r) :
            /\ t[i].ev \in {"WHOREPLY", "ENDOFWHO"} /\ t[i].c = c
            /\ t[i].ev = "WHOREPLY" => t[i].who \in members[c] /\ (t[i].op = TRUE <=> t[i].who \in ops[c])
      BY <1>2, <2>1
    <3> QED
      BY <1>1, <2>1, <2>2, <3>1 DEF Tales
  <2> QED
    BY <2>1, <2>3, <2>4 DEF TellsAll
<1> QED
  BY <1>4, <1>5 DEF r

\* It answers a WHO.
LEMMA WhoTrue ==
  ASSUME CType, CType', NEW d \in Names, NEW v, Good(d, v), Who
  PROVE  \E w : Good(d, w)'
<1> DEFINE c == Head(outbox).c
           e == [ev |-> "ENDOFWHO", c |-> c]
           y == Here(d)
<1>1. Asked("WHO") /\ UNCHANGED <<server, history>>
  BY DEF Who
<1>2. /\ outbox # << >> /\ outbox' = Tail(outbox) /\ UNCHANGED bot /\ c \in Names
      /\ (\A k : Head(outbox) = WhoOf(k) => k = c) /\ (\A k : ~KicksIn(Head(outbox), k))
  BY <1>1, AskedHas
<1>3. PICK t : /\ inbox' = inbox \o t /\ (t = Replies(c) \o <<e>> \/ t = <<e>>)
               /\ me \in members[c] => t = Replies(c) \o <<e>>
  <2>1. inbox' = inbox \o (Replies(c) \o <<e>>) \/ (me \notin members[c] /\ inbox' = inbox \o <<e>>)
    BY Zenon DEF Who, Answers, Replies
  <2> QED
    BY <2>1
<1>4. e = [ev |-> "ENDOFWHO", c |-> c]
  OBVIOUS
<1>5. Here(d)' = y /\ races' = races /\ UNCHANGED <<members, me, owed>> /\ y.members = members[d] /\ y.ops = ops[d]
      /\ y.me = me /\ (In(y) <=> me \in members[d])
  BY <1>1, HereFields DEF server, history
<1> HIDE DEF e, c, y
<1>0. /\ t \in Seq(Lines) /\ t # << >> /\ Tales(t, c, members[c], ops[c])
      /\ t # <<e>> => TellsAll(t, c, members[c])
  BY <1>2, <1>3, <1>4, AllReplies
<1>6. /\ t \in Seq(Lines) /\ t # << >>
      /\ \A i \in 1..Len(t) : /\ t[i].ev \in {"WHOREPLY", "ENDOFWHO"} /\ t[i].c = c
                              /\ t[i].ev = "WHOREPLY" => t[i].who \in members[c] /\ (t[i].op = TRUE <=> t[i].who \in ops[c])
      /\ t # <<e>> => \A n \in members[c] :
           \E h \in 1..Len(t) : Tells(t[h], c, n) /\ \A i \in 1..h : t[i].ev = "WHOREPLY"
  BY <1>0 DEF Tales, TellsAll
<1>7. 1 \in 1..Len(t) /\ \A i \in 2..Len(t) : i \in 1..Len(t)
  BY <1>6
<1>8. ASSUME NEW i \in 1..Len(t) PROVE Line(t[i], y, y, d, races')
  <2>1. ~Touches(t[i], d)
    BY <1>6 DEF Touches
  <2>2. CASE t[i].ev = "WHOREPLY" /\ d = c
    BY <1>5, <1>6, <2>2, TellLine
  <2>3. CASE ~(t[i].ev = "WHOREPLY" /\ d = c)
    BY <1>6, <2>1, <2>3, OtherLine
  <2> QED
    BY <2>2, <2>3
<1>9. Line(t[1], y, y, d, races') /\ \A i \in 2..Len(t) : Line(t[i], y, y, d, races')
  BY <1>7, <1>8
<1>10. CASE d = c /\ In(y)
  <2>1. t # <<e>>
    <3>1. t = Replies(c) \o <<e>>
      BY <1>3, <1>5, <1>10
    <3>2. PICK h \in 1..Len(Replies(c)) : TRUE
      BY <1>2, <1>5, <1>10, RepliesTell
    <3>3. Replies(c) \in Seq(Lines) /\ e \in Lines
      BY <1>2, RepliesTell, IsLine DEF CType, e
    <3>4. Len(t) = Len(Replies(c)) + 1 /\ Len(Replies(c)) \in Nat
      BY <3>1, <3>3
    <3>5. Len(t) # 1
      BY <3>2, <3>4
    <3> QED
      BY <3>5
  <2>2. ASSUME NEW n \in y.members
        PROVE  \E h \in 1..Len(t) : Tells(t[h], d, n) /\ \A i \in 1..h : ~Clears(t[i], y, d)
    <3>1. PICK h \in 1..Len(t) : Tells(t[h], c, n) /\ \A i \in 1..h : t[i].ev = "WHOREPLY"
      BY <1>5, <1>6, <1>10, <2>1, <2>2
    <3>2. \A i \in 1..h : ~Clears(t[i], y, d)
      BY <3>1 DEF Clears, OwnKick
    <3> QED
      BY <1>10, <3>1, <3>2
  <2>3. JoinsAsk(outbox, d) => JoinsAsk(outbox', d)
    BY <1>2, TakenAsks DEF CType
  <2>4. KicksAsk(outbox, d) => KicksAsk(outbox', d)
    BY <1>2, TakenAsks DEF CType
  <2>5. inbox \in Seq(Lines) /\ v[Len(inbox)] = y
    BY DEF CType, Good, y
  <2>6. ASSUME NEW w, Adds(w, v, inbox, t, y), Knows(d, v, inbox, outbox, channels, owed[d], races)
        PROVE  Knows(d, w, inbox \o t, outbox', channels, owed'[d], races')
    <3> DEFINE s == inbox
               o == outbox
               p == outbox'
    <3>1. s \in Seq(Lines) /\ v[Len(s)] = y /\ Adds(w, v, s, t, y) /\ Knows(d, v, s, o, channels, owed[d], races)
          /\ (JoinsAsk(o, d) => JoinsAsk(p, d)) /\ (KicksAsk(o, d) => KicksAsk(p, d))
      BY <2>3, <2>4, <2>5, <2>6
    <3> HIDE DEF s, o, p
    <3>2. Knows(d, w, s \o t, p, channels, owed[d], races)
      BY <1>6, <1>10, <2>2, <3>1, KnowsWho
    <3> QED
      BY <1>5, <3>2 DEF s, p
  <2>7. races \subseteq races' /\ UNCHANGED bot /\ inbox' = inbox \o t
    BY <1>2, <1>3, <1>5
  <2>8. /\ Line(t[1], Here(d), Here(d)', d, races')
        /\ \A i \in 2..Len(t) : Line(t[i], Here(d)', Here(d)', d, races')
    BY <1>5, <1>9 DEF y
  <2>9. \A w : /\ Adds(w, v, inbox, t, Here(d)')
               /\ Knows(d, v, inbox, outbox, channels, owed[d], races)
               => Knows(d, w, inbox \o t, outbox', channels, owed'[d], races')
    BY <1>5, <2>6
  <2> QED
    BY <1>6, <2>7, <2>8, <2>9, SaysGood
<1>11. CASE ~(d = c /\ In(y))
  <2>1. \A i \in 1..Len(t) : ~Clears(t[i], y, d)
    BY <1>6, <1>11 DEF Clears, OwnKick
  <2>2. ~Clears(t[1], y, d) /\ \A i \in 2..Len(t) : ~Clears(t[i], y, d)
    BY <1>7, <2>1
  <2>3. In(y) => Head(outbox) # WhoOf(d)
    BY <1>2, <1>11
  <2>4. Facts(d) => /\ owed'[d] \in {owed[d], NULL}
                    /\ owed'[d] # NULL => owed'[d] \in members'[d] /\ owed'[d] # me'
    BY <1>5 DEF Facts
  <2>5. races \subseteq races' /\ UNCHANGED bot /\ inbox' = inbox \o t /\ outbox' = Tail(outbox) /\ outbox # << >>
    BY <1>2, <1>3, <1>5
  <2> QED
    BY <1>5, <1>6, <1>9, <2>2, <2>3, <2>4, <2>5, AnswersGood DEF y
<1> QED
  BY <1>10, <1>11

\* Whatever the server does.
LEMMA ServerTrue ==
  ASSUME CType, CType', NEW d \in Names, NEW v, Good(d, v), ServerAnswers
  PROVE  \E w : Good(d, w)'
  BY AcceptTrue, RefuseTrue, IgnoreTrue, PartTrue, WhoTrue, KickTrue DEF ServerAnswers

-----------------------------------------------------------------------------
(* The bot.                                                                   *)

\* c keeps who is to be kicked in it, when y was before the line.
Recalls(c, y) ==
  owed'[c] # NULL =>
    /\ Minds(channels, c, owed[c]) /\ ~Clears(m, y, c) => Minds(channels', c, owed[c])
    /\ OwnKick(m, y, c) /\ m.by = owed[c] => Minds(channels', c, owed[c])
    /\ ~(Minds(channels, c, owed[c]) /\ Tells(m, c, owed[c]))

\* What it says, t, brings nothing about who is in c.
Mild(t, c) == \A i \in 1..Len(t) : ~KicksIn(t[i], c)

NoJoin(t, c) == \A i \in 1..Len(t) : t[i] # JoinOf(c)

\* It says nothing, or something about another channel.
LEMMA SaysMild ==
  /\ \A c : Mild(<< >>, c) /\ NoJoin(<< >>, c)
  /\ \A c, l : Mild(<<l>>, c) <=> ~KicksIn(l, c)
  /\ \A c, l : NoJoin(<<l>>, c) <=> l # JoinOf(c)
  /\ \A c, d : Mild(<<JoinOf(d)>>, c) /\ Mild(<<WhoOf(d)>>, c) /\ NoJoin(<<WhoOf(d)>>, c)
  /\ \A c, d : c # d => NoJoin(<<JoinOf(d)>>, c)
<1>1. Len(<< >>) = 0
  OBVIOUS
<1>2. \A l : Len(<<l>>) = 1 /\ <<l>>[1] = l
  OBVIOUS
<1>3. \A c : Mild(<< >>, c) /\ NoJoin(<< >>, c)
  BY <1>1 DEF Mild, NoJoin
<1>4. \A c, l : Mild(<<l>>, c) <=> ~KicksIn(l, c)
  BY <1>2 DEF Mild
<1>5. \A c, l : NoJoin(<<l>>, c) <=> l # JoinOf(c)
  BY <1>2 DEF NoJoin
<1>6. \A c, d : /\ ~KicksIn(JoinOf(d), c) /\ ~KicksIn(WhoOf(d), c) /\ WhoOf(d) # JoinOf(c)
                /\ c # d => JoinOf(d) # JoinOf(c)
  BY DEF KicksIn, JoinOf, WhoOf
<1> QED
  BY <1>3, <1>4, <1>5, <1>6

\* It handles a line, and kicks nobody.
LEMMA MildHandled ==
  ASSUME CType, NEW c, NEW y, NEW z, AtHead(c, y, z),
         NEW t \in Seq(Commands), outbox' = outbox \o t, Mild(t, c),
         c \in DOMAIN channels' =>
           /\ c \in DOMAIN channels /\ Kept(channels[c], y, channels'[c], z, races)
           /\ channels'[c].joined => (channels[c].joined /\ NoJoin(t, c)) \/ (Echo(m, y, c) /\ t = <<WhoOf(c)>>)
           /\ \A n : Enough /\ Tells(m, c, n) /\ In(y) => Listed(channels'[c], n),
         c \in DOMAIN channels /\ Echo(m, y, c) => t = <<WhoOf(c)>>,
         owed'[c] \in {owed[c], NULL}, Recalls(c, y)
  PROVE  Handled(c, y, z)
<1> DEFINE o == outbox
           p == outbox'
<1>1. o \in Seq(Commands) /\ p = o \o t
  BY DEF CType
<1>2. /\ c \in DOMAIN channels /\ channels[c].joined => JoinsAsk(o, c)
      /\ KicksAsk(o, c)
  BY DEF AtHead
<1> HIDE DEF o, p
<1>3. /\ NoJoin(t, c) /\ JoinsAsk(o, c) => JoinsAsk(p, c)
      /\ KicksAsk(o, c) => KicksAsk(p, c)
      /\ WhoFirst(o, c) => WhoFirst(p, c)
      /\ t = <<WhoOf(c)>> => JoinsAsk(p, c)
      /\ Has(o, WhoOf(c)) => Has(p, WhoOf(c))
  BY <1>1, MoreAsks DEF Mild, NoJoin
<1>4. t = <<WhoOf(c)>> => Has(p, WhoOf(c))
  <2>1. Has(<<WhoOf(c)>>, WhoOf(c))
    BY HasOne
  <2>2. \A x : Has(o \o t, x) <=> Has(o, x) \/ Has(t, x)
    BY <1>1, HasConcat
  <2> QED
    BY <1>1, <2>1, <2>2
<1> QED
  BY <1>2, <1>3, <1>4 DEF Handled, Recalls, o, p

\* A line about another channel.
LEMMA OtherHandled ==
  ASSUME CType, NEW c, NEW y, NEW z, AtHead(c, y, z),
         ~Touches(m, c), ~(m.ev \in {"WHOREPLY", "ENDOFWHO"} /\ m.c = c),
         NEW t \in Seq(Commands), outbox' = outbox \o t, Mild(t, c),
         c \in DOMAIN channels' =>
           /\ c \in DOMAIN channels /\ channels'[c] = channels[c]
           /\ channels[c].joined => NoJoin(t, c),
         owed'[c] \in {owed[c], NULL},
         owed'[c] # NULL /\ c \in DOMAIN channels => c \in DOMAIN channels'
  PROVE  Handled(c, y, z)
<1>1. ~Echo(m, y, c) /\ ~OwnKick(m, y, c) /\ ~Clears(m, y, c) /\ \A n : ~Tells(m, c, n)
  BY DEF Echo, OwnKick, Clears, About, Touches, Tells
<1>2. Recalls(c, y)
  BY <1>1 DEF Recalls, Minds
<1>3. c \in DOMAIN channels => Kept(channels[c], y, channels[c], z, races)
  BY QuietKept DEF AtHead
<1> QED
  BY <1>1, <1>2, <1>3, MildHandled

\* A channel that the table does not have.
LEMMA UnknownHandled ==
  ASSUME CType, NEW c, NEW y, NEW z, AtHead(c, y, z),
         NEW t \in Seq(Commands), outbox' = outbox \o t, Mild(t, c),
         c \notin DOMAIN channels, c \notin DOMAIN channels',
         owed'[c] \in {owed[c], NULL}, OwnKick(m, y, c) /\ m.by = owed[c] => owed'[c] = NULL
  PROVE  Handled(c, y, z)
<1>1. Recalls(c, y)
  BY DEF Recalls, Minds
<1> QED
  BY <1>1, MildHandled

\* The first line is handled in some way.
LEMMA GotGood ==
  ASSUME CType, NEW c \in Names, NEW v, Good(c, v), NEW ev, Got(ev), nick' = Heard(m, nick), races \subseteq races',
         \A y, z : "who" \notin races' /\ AtHead(c, y, z) => Handled(c, y, z)
  PROVE  \E w : Good(c, w)'
<1>1. inbox # << >> /\ inbox' = Tail(inbox) /\ UNCHANGED server
  BY DEF Got
<1> QED
  BY <1>1, FirstGood

\* Channels with the same list list the same people.
LEMMA SameUsers ==
  ASSUME NEW a, NEW b, a.users = b.users
  PROVE  /\ Once(a) <=> Once(b)
         /\ \A k, o : On(a, k, o) <=> On(b, k, o)
<1> DEFINE one(us) == \A i, j \in DOMAIN us : us[i].nick = us[j].nick => i = j
           on(us, k, o) == \E i \in DOMAIN us : us[i].nick = k /\ us[i].op = o
<1>1. (Once(a) <=> one(a.users)) /\ (Once(b) <=> one(b.users))
  BY Zenon DEF Once
<1>2. \A k, o : (On(a, k, o) <=> on(a.users, k, o)) /\ (On(b, k, o) <=> on(b.users, k, o))
  BY Zenon DEF On
<1> HIDE DEF one, on
<1>3. (one(a.users) <=> one(b.users)) /\ \A k, o : on(a.users, k, o) <=> on(b.users, k, o)
  OBVIOUS
<1> QED
  BY <1>1, <1>2, <1>3, Zenon

\* A channel that the bot is in or out of, or one that remembers somebody else.
LEMMA JoinedIs ==
  ASSUME NEW ch \in ChannelType, NEW b \in BOOLEAN, NEW new, new = [ch EXCEPT !.joined = b]
  PROVE  /\ new \in ChannelType /\ new.joined = b /\ new.kick_nick = ch.kick_nick
         /\ Once(new) <=> Once(ch)
         /\ \A k, o : On(new, k, o) <=> On(ch, k, o)
<1>1. new \in ChannelType /\ new.joined = b /\ new.kick_nick = ch.kick_nick /\ new.users = ch.users
  BY DEF ChannelType
<1> QED
  BY <1>1, SameUsers, Zenon

\* A channel that remembers somebody else.
LEMMA KickNickIs ==
  ASSUME NEW ch \in ChannelType, NEW b \in Nicks \cup {NULL}, NEW new, new = [ch EXCEPT !.kick_nick = b]
  PROVE  /\ new \in ChannelType /\ new.joined = ch.joined /\ new.kick_nick = b
         /\ Once(new) <=> Once(ch)
         /\ \A k, o : On(new, k, o) <=> On(ch, k, o)
<1>1. new \in ChannelType /\ new.joined = ch.joined /\ new.kick_nick = b /\ new.users = ch.users
  BY DEF ChannelType
<1> QED
  BY <1>1, SameUsers, Zenon

\* Script::irc_event, JOIN.
LEMMA EventJoinTrue ==
  ASSUME CType, NEW d \in Names, NEW v, Good(d, v), event_join
  PROVE  \E w : Good(d, w)'
<1> DEFINE a == user_add(channel, m.who, FALSE)
           b == a.joined \/ m.who = nick
           ch == [a EXCEPT !.joined = b]
           t == IF m.who = nick /\ Known THEN <<WhoOf(m.c)>> ELSE << >>
<1>1. Got("JOIN") /\ nick' = nick /\ races' = races /\ owed' = owed
      /\ InChannel(ch) /\ outbox' = outbox \o t
  BY DEF event_join, Say, history, WhoOf
<1>2. m \in Lines /\ m.ev = "JOIN" /\ m.c \in Names /\ m.who \in Nicks /\ C_USERS_MAX \in Nat
      /\ (Known => channel \in ChannelType /\ Len(channel.users) <= C_USERS_MAX) /\ Table(channels)
  BY <1>1, HeadFields, LineFields DEF CType
<1>3. Known => /\ a \in ChannelType /\ a.joined = channel.joined /\ a.kick_nick = channel.kick_nick
               /\ channel.joined \in BOOLEAN
  BY <1>2, AddKeeps, ChannelFields
<1>4. b \in BOOLEAN /\ (b <=> a.joined \/ m.who = nick)
  BY Zenon
<1>5. t \in Seq(Commands) /\ (t = << >> \/ (t = <<WhoOf(m.c)>> /\ Known))
      /\ (Known /\ m.who = nick => t = <<WhoOf(m.c)>>) /\ (m.who # nick => t = << >>)
  <2>1. WhoOf(m.c) \in Commands
    BY <1>2 DEF Commands, WhoOf
  <2>2. <<WhoOf(m.c)>> \in Seq(Commands) /\ << >> \in Seq(Commands)
    BY <2>1, QueueGrows DEF CType
  <2> QED
    BY <2>2, Zenon
<1> HIDE DEF t, b
<1>6. Mild(t, d) /\ NoJoin(t, d)
  <2>1. Mild(<< >>, d) /\ NoJoin(<< >>, d) /\ Mild(<<WhoOf(m.c)>>, d) /\ NoJoin(<<WhoOf(m.c)>>, d)
    BY SaysMild
  <2> QED
    BY <1>5, <2>1
<1> DEFINE new == ch
<1>11. a = user_add(channel, m.who, FALSE) /\ new = [a EXCEPT !.joined = b]
  OBVIOUS
<1> HIDE DEF a, new
<1>7. ASSUME Known
      PROVE  /\ new.joined = b /\ new.kick_nick = a.kick_nick
             /\ Once(new) <=> Once(a)
             /\ \A k, o : On(new, k, o) <=> On(a, k, o)
  <2>1. a \in ChannelType
    BY <1>3, <1>7
  <2>2. b \in BOOLEAN /\ new = [a EXCEPT !.joined = b]
    BY <1>4, <1>11, Zenon
  <2> QED
    BY <2>1, <2>2, JoinedIs
<1>8. /\ DOMAIN channels' = DOMAIN channels
      /\ d = m.c /\ d \in DOMAIN channels => Known /\ channels'[d] = new /\ channels[d] = channel
      /\ d # m.c /\ d \in DOMAIN channels => channels'[d] = channels[d]
  <2>1. InChannel(new)
    BY <1>1 DEF new
  <2> QED
    BY <1>2, <2>1, ChannelStep
<1> HIDE DEF ch
<1>9. ASSUME NEW y, NEW z, AtHead(d, y, z) PROVE Handled(d, y, z)
  <2>1. CASE d # m.c
    <3>1. ~Touches(m, d)
      BY <1>2, <2>1 DEF Touches
    <3> QED
      BY <1>1, <1>2, <1>5, <1>6, <1>8, <1>9, <2>1, <3>1, OtherHandled
  <2>2. CASE d = m.c /\ d \notin DOMAIN channels
    <3>1. ~OwnKick(m, y, d)
      BY <1>2 DEF OwnKick
    <3> QED
      BY <1>1, <1>5, <1>6, <1>8, <1>9, <2>2, <3>1, UnknownHandled
  <2>3. CASE d = m.c /\ d \in DOMAIN channels
    <3>1. /\ y \in View /\ z \in View /\ y.me = nick /\ Line(m, y, z, d, races) /\ Sees(channel, y, races)
          /\ Known /\ channels'[d] = new /\ channels[d] = channel
      BY <1>8, <1>9, <2>3 DEF AtHead
    <3>2. Once(a) /\ Gains(a, channel, m.who, FALSE)
      <4>1. Once(channel) /\ channel \in ChannelType
        BY <1>2, <3>1 DEF Sees
      <4>2. FALSE \in BOOLEAN
        OBVIOUS
      <4>3. Once(user_add(channel, m.who, FALSE)) /\ Gains(user_add(channel, m.who, FALSE), channel, m.who, FALSE)
        BY <1>2, <4>1, <4>2, AddIs
      <4> QED
        BY <1>11, <4>3
    <3>3. Once(new) /\ Gains(new, channel, m.who, FALSE)
      BY <1>7, <3>1, <3>2 DEF Gains
    <3>4. Kept(channel, y, new, z, races)
      <4>1. CASE m.who = nick
        <5>1. \A k, o : On(new, k, o) => On(channel, k, o) \/ (k = m.who /\ o = FALSE)
          BY <3>3 DEF Gains
        <5>2. channel \in ChannelType /\ m.c = d /\ m.who = y.me
          BY <1>2, <2>3, <3>1, <4>1
        <5> QED
          BY <1>2, <3>1, <3>3, <5>1, <5>2, EntersKept
      <4>2. CASE m.who # nick
        <5>1. new.joined = channel.joined
          BY <1>3, <1>4, <1>7, <3>1, <4>2
        <5> QED
          <6>1. channel \in ChannelType /\ m.c = d /\ m.who # y.me /\ m.ev = "JOIN" /\ m.who \in Nicks
            BY <1>2, <2>3, <3>1, <4>2
          <6>2. y \in View /\ z \in View /\ Line(m, y, z, d, races) /\ Sees(channel, y, races)
            BY <3>1
          <6> QED
            BY <3>3, <5>1, <6>1, <6>2, ComesKept
      <4> QED
        BY <4>1, <4>2
    <3>5. /\ Echo(m, y, d) <=> m.who = nick
          /\ ~OwnKick(m, y, d) /\ ~Clears(m, y, d) /\ \A n : ~Tells(m, d, n)
      BY <1>2, <2>3, <3>1 DEF Echo, OwnKick, Clears, About, Tells
    <3>6. Recalls(d, y)
      BY <1>3, <1>7, <1>8, <3>1, <3>5 DEF Recalls, Minds
    <3>7. new.joined => (channel.joined /\ NoJoin(t, d)) \/ (Echo(m, y, d) /\ t = <<WhoOf(d)>>)
      BY <1>3, <1>4, <1>5, <1>6, <1>7, <2>3, <3>1, <3>5
    <3> QED
      BY <1>1, <1>5, <1>6, <1>8, <1>9, <2>3, <3>1, <3>4, <3>5, <3>6, <3>7, MildHandled
  <2> QED
    BY <2>1, <2>2, <2>3
<1>10. nick' = Heard(m, nick) /\ races \subseteq races'
  BY <1>1, <1>2 DEF Heard
<1> QED
  BY <1>1, <1>9, <1>10, GotGood

\* A channel of which the bot hears something, but nothing of its own.
LEMMA SameHandled ==
  ASSUME CType, NEW d, NEW y, NEW z, AtHead(d, y, z), d \in DOMAIN channels, d \in DOMAIN channels',
         NEW t \in Seq(Commands), outbox' = outbox \o t, Mild(t, d), channels'[d].joined => NoJoin(t, d),
         Kept(channels[d], y, channels'[d], z, races), owed'[d] \in {owed[d], NULL},
         channels'[d].kick_nick = channels[d].kick_nick, channels'[d].joined => channels[d].joined,
         m.ev # "WHOREPLY", ~Echo(m, y, d), ~OwnKick(m, y, d)
  PROVE  Handled(d, y, z)
<1>1. \A n : ~Tells(m, d, n)
  BY DEF Tells
<1>2. Recalls(d, y)
  BY <1>1 DEF Recalls, Minds
<1> QED
  BY <1>1, <1>2, MildHandled

\* The bot says nothing.
LEMMA SaysNothing ==
  ASSUME CType
  PROVE  << >> \in Seq(Commands) /\ outbox = outbox \o << >> /\ \A c : Mild(<< >>, c) /\ NoJoin(<< >>, c)
<1>1. << >> \in Seq(Commands) /\ outbox = outbox \o << >>
  BY QueueGrows DEF CType
<1> QED
  BY <1>1, SaysMild

\* Somebody is deleted from the list.
LEMMA DelKept ==
  ASSUME NEW ch \in ChannelType, Len(ch.users) <= C_USERS_MAX, C_USERS_MAX \in Nat,
         NEW y \in View, NEW z \in View, NEW l, NEW c, NEW R,
         Line(l, y, z, c, R), Sees(ch, y, R), Goes(l, c), ~About(l, y.me, c)
  PROVE  /\ Kept(ch, y, user_del(ch, l.who), z, R)
         /\ user_del(ch, l.who).joined = ch.joined /\ user_del(ch, l.who).kick_nick = ch.kick_nick
<1> DEFINE new == user_del(ch, l.who)
<1>1. Once(ch)
  BY DEF Sees
<1>2. /\ Once(new) /\ new.kick_nick = ch.kick_nick /\ new.joined = ch.joined
      /\ \A k, o : On(new, k, o) <=> k # l.who /\ On(ch, k, o)
  BY <1>1, DelIs
<1> HIDE DEF new
<1>3. Kept(ch, y, new, z, R)
  BY <1>2, GoesKept
<1> QED
  BY <1>2, <1>3 DEF new

\* Script::irc_event, QUIT.
LEMMA EventQuitTrue ==
  ASSUME CType, NEW d \in Names, NEW v, Good(d, v), event_quit
  PROVE  \E w : Good(d, w)'
<1>1. Got("QUIT") /\ nick' = nick /\ races' = races /\ owed' = owed /\ outbox' = outbox
      /\ channels' = [c \in DOMAIN channels |-> user_del(channels[c], m.who)]
  BY DEF event_quit, history
<1>2. m.ev = "QUIT" /\ C_USERS_MAX \in Nat
  BY <1>1, HeadFields
<1>3. /\ DOMAIN channels' = DOMAIN channels
      /\ d \in DOMAIN channels => /\ channels'[d] = user_del(channels[d], m.who)
                                  /\ channels[d] \in ChannelType /\ Len(channels[d].users) <= C_USERS_MAX
  BY <1>1 DEF CType, Table
<1>4. << >> \in Seq(Commands) /\ outbox' = outbox \o << >> /\ Mild(<< >>, d) /\ NoJoin(<< >>, d)
  BY <1>1, SaysNothing
<1>5. ASSUME NEW y, NEW z, AtHead(d, y, z) PROVE Handled(d, y, z)
  <2>1. ~Echo(m, y, d) /\ ~OwnKick(m, y, d) /\ ~About(m, y.me, d) /\ Goes(m, d)
    BY <1>2 DEF Echo, OwnKick, About, Goes
  <2>2. CASE d \notin DOMAIN channels
    BY <1>1, <1>3, <1>4, <1>5, <2>1, <2>2, UnknownHandled
  <2>3. CASE d \in DOMAIN channels
    <3>1. /\ Kept(channels[d], y, channels'[d], z, races)
          /\ channels'[d].joined = channels[d].joined /\ channels'[d].kick_nick = channels[d].kick_nick
      BY <1>2, <1>3, <1>5, <2>1, <2>3, DelKept DEF AtHead
    <3> QED
      BY <1>1, <1>2, <1>3, <1>4, <1>5, <2>1, <2>3, <3>1, SameHandled
  <2> QED
    BY <2>2, <2>3
<1>6. nick' = Heard(m, nick) /\ races \subseteq races'
  BY <1>1, <1>2 DEF Heard
<1> QED
  BY <1>1, <1>5, <1>6, GotGood

\* Script::irc_event, NICK.
LEMMA EventNickTrue ==
  ASSUME CType, NEW d \in Names, NEW v, Good(d, v), event_nick
  PROVE  \E w : Good(d, w)'
<1>1. Got("NICK") /\ races' = races /\ owed' = owed /\ outbox' = outbox
      /\ channels' = [c \in DOMAIN channels |-> user_change_nick(channels[c], m.who, m.new)]
      /\ nick' = (IF nick = m.who THEN m.new ELSE nick)
  BY DEF event_nick, history
<1>2. m.ev = "NICK" /\ m.new \in Nicks
  BY <1>1, HeadFields, LineFields
<1>3. /\ DOMAIN channels' = DOMAIN channels
      /\ d \in DOMAIN channels => /\ channels'[d] = user_change_nick(channels[d], m.who, m.new)
                                  /\ channels[d] \in ChannelType
  BY <1>1 DEF CType, Table
<1>4. << >> \in Seq(Commands) /\ outbox' = outbox \o << >> /\ Mild(<< >>, d) /\ NoJoin(<< >>, d)
  BY <1>1, SaysNothing
<1>5. ASSUME NEW y, NEW z, AtHead(d, y, z) PROVE Handled(d, y, z)
  <2>1. ~Echo(m, y, d) /\ ~OwnKick(m, y, d) /\ ~About(m, y.me, d)
    BY <1>2 DEF Echo, OwnKick, About
  <2>2. CASE d \notin DOMAIN channels
    BY <1>1, <1>3, <1>4, <1>5, <2>1, <2>2, UnknownHandled
  <2>3. CASE d \in DOMAIN channels
    <3> DEFINE ch == channels[d]
               new == channels'[d]
    <3>1. /\ y \in View /\ z \in View /\ Line(m, y, z, d, races) /\ Sees(ch, y, races) /\ Once(ch)
          /\ ch \in ChannelType /\ new = user_change_nick(ch, m.who, m.new)
      BY <1>3, <1>5, <2>3 DEF AtHead, Sees
    <3> HIDE DEF ch, new
    <3>2. ~Listed(ch, m.new)
      <4>1. Listed(ch, m.new) => In(y) /\ m.new \in y.members
        BY <3>1, ListedOn DEF Sees
      <4>2. In(y) => m.new \notin y.members
        BY <1>2, <2>1, <3>1 DEF Line, Moves
      <4> QED
        BY <4>1, <4>2
    <3>3. /\ Once(new) /\ new.kick_nick = ch.kick_nick /\ new.joined = ch.joined
          /\ \A j, o : On(new, j, o) <=> \/ j # m.who /\ On(ch, j, o)
                                         \/ j = m.new /\ On(ch, m.who, o)
      BY <1>2, <3>1, <3>2, NickIs
    <3>4. Kept(ch, y, new, z, races)
      BY <1>2, <3>1, <3>3, NickKept
    <3> QED
      BY <1>1, <1>2, <1>3, <1>4, <1>5, <2>1, <2>3, <3>3, <3>4, SameHandled DEF ch, new
  <2> QED
    BY <2>2, <2>3
<1>6. nick' = Heard(m, nick) /\ races \subseteq races'
  BY <1>1, <1>2 DEF Heard
<1> QED
  BY <1>1, <1>5, <1>6, GotGood

\* Script::irc_event, PART.
LEMMA EventPartTrue ==
  ASSUME CType, NEW d \in Names, NEW v, Good(d, v), event_part
  PROVE  \E w : Good(d, w)'
<1> DEFINE ch == IF nick = m.who THEN Out(channel) ELSE user_del(channel, m.who)
<1>1. Got("PART") /\ nick' = nick /\ races' = races /\ owed' = owed /\ outbox' = outbox /\ InChannel(ch)
  BY DEF event_part, history
<1>2. m.ev = "PART" /\ C_USERS_MAX \in Nat /\ Table(channels)
      /\ (Known => channel \in ChannelType /\ Len(channel.users) <= C_USERS_MAX)
  BY <1>1, HeadFields DEF CType
<1>3. /\ nick = m.who => ch = Out(channel)
      /\ nick # m.who => ch = user_del(channel, m.who)
  OBVIOUS
<1> HIDE DEF ch
<1>4. << >> \in Seq(Commands) /\ outbox' = outbox \o << >> /\ Mild(<< >>, d) /\ NoJoin(<< >>, d)
  BY <1>1, SaysNothing
<1>5. /\ DOMAIN channels' = DOMAIN channels
      /\ d = m.c /\ d \in DOMAIN channels => Known /\ channels'[d] = ch /\ channels[d] = channel
      /\ d # m.c /\ d \in DOMAIN channels => channels'[d] = channels[d]
  BY <1>1, <1>2, ChannelStep
<1>6. ASSUME NEW y, NEW z, AtHead(d, y, z) PROVE Handled(d, y, z)
  <2>1. ~Echo(m, y, d) /\ ~OwnKick(m, y, d)
    BY <1>2 DEF Echo, OwnKick
  <2>2. CASE d # m.c
    <3>1. ~Touches(m, d)
      BY <1>2, <2>2 DEF Touches
    <3> QED
      BY <1>1, <1>2, <1>4, <1>5, <1>6, <2>2, <3>1, OtherHandled
  <2>3. CASE d = m.c /\ d \notin DOMAIN channels
    BY <1>1, <1>4, <1>5, <1>6, <2>1, <2>3, UnknownHandled
  <2>4. CASE d = m.c /\ d \in DOMAIN channels
    <3>1. /\ y \in View /\ z \in View /\ y.me = nick /\ Line(m, y, z, d, races) /\ Sees(channel, y, races)
          /\ Known /\ channels'[d] = ch /\ channels[d] = channel /\ channel \in ChannelType
          /\ Len(channel.users) <= C_USERS_MAX
      BY <1>2, <1>5, <1>6, <2>4 DEF AtHead
    <3>2. Kept(channel, y, ch, z, races) /\ (ch.joined => channel.joined) /\ ch.kick_nick = channel.kick_nick
      <4>1. CASE nick = m.who
        <5>1. About(m, y.me, d)
          BY <1>2, <2>4, <3>1, <4>1 DEF About
        <5>2. Once(ch) /\ ch.kick_nick = channel.kick_nick /\ ch.joined = FALSE /\ \A k, o : ~On(ch, k, o)
          BY <1>3, <3>1, <4>1, OutIs
        <5>3. Kept(channel, y, ch, z, races)
          BY <1>2, <3>1, <5>1, <5>2, OutKept
        <5> QED
          BY <5>2, <5>3
      <4>2. CASE nick # m.who
        <5>1. ~About(m, y.me, d) /\ Goes(m, d)
          BY <1>2, <2>4, <3>1, <4>2 DEF About, Goes
        <5> QED
          BY <1>2, <1>3, <3>1, <4>2, <5>1, DelKept
      <4> QED
        BY <4>1, <4>2
    <3> QED
      BY <1>1, <1>2, <1>4, <1>5, <1>6, <2>1, <2>4, <3>1, <3>2, SameHandled
  <2> QED
    BY <2>2, <2>3, <2>4
<1>7. nick' = Heard(m, nick) /\ races \subseteq races'
  BY <1>1, <1>2 DEF Heard
<1> QED
  BY <1>1, <1>6, <1>7, GotGood

\* Script::irc_event, KICK.
LEMMA EventKickTrue ==
  ASSUME CType, NEW d \in Names, NEW v, Good(d, v), event_kick
  PROVE  \E w : Good(d, w)'
<1> DEFINE a == Out(channel)
           ch == IF nick = m.who THEN [a EXCEPT !.kick_nick = m.by] ELSE user_del(channel, m.who)
           t == IF nick = m.who /\ Known THEN <<JoinOf(m.c)>> ELSE << >>
<1>1. /\ Got("KICK") /\ nick' = nick /\ races' = races /\ InChannel(ch) /\ outbox' = outbox \o t
      /\ owed' = (IF nick = m.who /\ ~Known /\ owed[m.c] = m.by THEN [owed EXCEPT ![m.c] = NULL] ELSE owed)
  BY DEF event_kick, Say, JoinOf
<1>2. m.ev = "KICK" /\ C_USERS_MAX \in Nat /\ Table(channels) /\ m.by \in Nicks /\ m.c \in Names
      /\ (Known => channel \in ChannelType /\ Len(channel.users) <= C_USERS_MAX)
  BY <1>1, HeadFields, LineFields DEF CType
<1>3. /\ nick = m.who => ch = [a EXCEPT !.kick_nick = m.by]
      /\ nick # m.who => ch = user_del(channel, m.who)
      /\ a = Out(channel)
  OBVIOUS
<1>4. /\ t \in Seq(Commands) /\ (t = << >> \/ (t = <<JoinOf(m.c)>> /\ nick = m.who /\ Known))
  <2>1. JoinOf(m.c) \in Commands
    BY <1>2 DEF Commands, JoinOf
  <2>2. <<JoinOf(m.c)>> \in Seq(Commands) /\ << >> \in Seq(Commands)
    BY <2>1, QueueGrows DEF CType
  <2> QED
    BY <2>2, Zenon
<1> HIDE DEF ch, t, a
<1>5. Mild(t, d) /\ (d # m.c \/ nick # m.who => NoJoin(t, d))
  <2>1. /\ Mild(<< >>, d) /\ NoJoin(<< >>, d) /\ Mild(<<JoinOf(m.c)>>, d)
        /\ d # m.c => NoJoin(<<JoinOf(m.c)>>, d)
    BY SaysMild
  <2> QED
    BY <1>4, <2>1
<1>6. /\ owed'[d] \in {owed[d], NULL} /\ (d # m.c => owed'[d] = owed[d])
      /\ nick = m.who /\ ~Known /\ owed[d] = m.by /\ d = m.c => owed'[d] = NULL
      /\ Known => owed' = owed
  BY <1>1, <1>2 DEF CType
<1>7. /\ DOMAIN channels' = DOMAIN channels
      /\ d = m.c /\ d \in DOMAIN channels => Known /\ channels'[d] = ch /\ channels[d] = channel
      /\ d # m.c /\ d \in DOMAIN channels => channels'[d] = channels[d]
  BY <1>1, <1>2, ChannelStep
<1>8. ASSUME NEW y, NEW z, AtHead(d, y, z) PROVE Handled(d, y, z)
  <2>1. ~Echo(m, y, d) /\ (OwnKick(m, y, d) <=> d = m.c /\ nick = m.who) /\ \A n : ~Tells(m, d, n)
    BY <1>2, <1>8 DEF Echo, OwnKick, About, AtHead, Tells
  <2>2. CASE d # m.c
    <3>1. ~Touches(m, d)
      BY <1>2, <2>2 DEF Touches
    <3> QED
      BY <1>1, <1>2, <1>4, <1>5, <1>6, <1>7, <1>8, <2>2, <3>1, OtherHandled
  <2>3. CASE d = m.c /\ d \notin DOMAIN channels
    <3>1. ~Known
      BY <2>3 DEF Known
    <3> QED
      BY <1>1, <1>4, <1>5, <1>6, <1>7, <1>8, <2>1, <2>3, <3>1, UnknownHandled
  <2>4. CASE d = m.c /\ d \in DOMAIN channels
    <3>1. /\ y \in View /\ z \in View /\ y.me = nick /\ Line(m, y, z, d, races) /\ Sees(channel, y, races)
          /\ Known /\ channels'[d] = ch /\ channels[d] = channel /\ channel \in ChannelType
          /\ Len(channel.users) <= C_USERS_MAX
      BY <1>2, <1>7, <1>8, <2>4 DEF AtHead
    <3>2. CASE nick = m.who
      <4>1. About(m, y.me, d) /\ OwnKick(m, y, d) /\ Clears(m, y, d)
        BY <1>2, <2>1, <2>4, <3>1, <3>2 DEF About, Clears
      <4>2. a \in ChannelType /\ Once(a) /\ a.joined = FALSE /\ \A k, o : ~On(a, k, o)
        BY <1>2, <1>3, <3>1, OutIs, OutKeeps
      <4>3. m.by \in Nicks \cup {NULL} /\ ch = [a EXCEPT !.kick_nick = m.by]
        BY <1>2, <1>3, <3>2
      <4>4. /\ ch.joined = a.joined /\ ch.kick_nick = m.by /\ (Once(ch) <=> Once(a))
            /\ \A k, o : On(ch, k, o) <=> On(a, k, o)
        BY <4>2, <4>3, KickNickIs
      <4>5. Once(ch) /\ ch.joined = FALSE /\ \A k, o : ~On(ch, k, o)
        BY <4>2, <4>4
      <4>6. Kept(channel, y, ch, z, races)
        BY <1>2, <3>1, <4>1, <4>5, OutKept
      <4>7. Recalls(d, y)
        BY <1>7, <2>1, <2>4, <3>1, <4>1, <4>4 DEF Recalls, Minds
      <4> QED
        BY <1>1, <1>4, <1>5, <1>6, <1>7, <1>8, <2>1, <2>4, <3>1, <4>5, <4>6, <4>7, MildHandled
    <3>3. CASE nick # m.who
      <4>1. ~About(m, y.me, d) /\ Goes(m, d)
        BY <1>2, <2>4, <3>1, <3>3 DEF About, Goes
      <4>2. /\ Kept(channel, y, ch, z, races) /\ ch.joined = channel.joined /\ ch.kick_nick = channel.kick_nick
        BY <1>2, <1>3, <3>1, <3>3, <4>1, DelKept
      <4> QED
        BY <1>1, <1>2, <1>4, <1>5, <1>6, <1>7, <1>8, <2>1, <2>4, <3>1, <3>3, <4>2, SameHandled
    <3> QED
      BY <3>2, <3>3
  <2> QED
    BY <2>2, <2>3, <2>4
<1>9. nick' = Heard(m, nick) /\ races \subseteq races'
  BY <1>1, <1>2 DEF Heard
<1> QED
  BY <1>1, <1>8, <1>9, GotGood

\* Script::irc_event, MODE.
LEMMA EventModeTrue ==
  ASSUME CType, NEW d \in Names, NEW v, Good(d, v), event_mode
  PROVE  \E w : Good(d, w)'
<1> DEFINE ch == ModeLetters(channel)
<1>1. Got("MODE") /\ nick' = nick /\ races' = races /\ owed' = owed /\ outbox' = outbox /\ InChannel(ch)
  BY DEF event_mode, history
<1>2. m.ev = "MODE" /\ C_USERS_MAX \in Nat /\ Table(channels) /\ Len(m.modes) \in Nat
      /\ (Known => channel \in ChannelType /\ Len(channel.users) <= C_USERS_MAX)
  BY <1>1, HeadFields, LineFields DEF CType
<1>3. << >> \in Seq(Commands) /\ outbox' = outbox \o << >> /\ Mild(<< >>, d) /\ NoJoin(<< >>, d)
  BY <1>1, SaysNothing
<1>4. /\ DOMAIN channels' = DOMAIN channels
      /\ d = m.c /\ d \in DOMAIN channels => Known /\ channels'[d] = ch /\ channels[d] = channel
      /\ d # m.c /\ d \in DOMAIN channels => channels'[d] = channels[d]
  BY <1>1, <1>2, ChannelStep
<1>5. ASSUME NEW y, NEW z, AtHead(d, y, z) PROVE Handled(d, y, z)
  <2>1. ~Echo(m, y, d) /\ ~OwnKick(m, y, d)
    BY <1>2 DEF Echo, OwnKick
  <2>2. CASE d # m.c
    <3>1. ~Touches(m, d)
      BY <1>2, <2>2 DEF Touches
    <3> QED
      BY <1>1, <1>2, <1>3, <1>4, <1>5, <2>2, <3>1, OtherHandled
  <2>3. CASE d = m.c /\ d \notin DOMAIN channels
    BY <1>1, <1>3, <1>4, <1>5, <2>1, <2>3, UnknownHandled
  <2>4. CASE d = m.c /\ d \in DOMAIN channels
    <3>1. /\ y \in View /\ z \in View /\ Line(m, y, z, d, races) /\ Sees(channel, y, races)
          /\ Known /\ channels'[d] = ch /\ channels[d] = channel /\ channel \in ChannelType
          /\ Len(channel.users) <= C_USERS_MAX /\ Once(channel)
      BY <1>2, <1>4, <1>5, <2>4 DEF AtHead, Sees
    <3>2. Kept(channel, y, ch, z, races)
      BY <1>2, <2>4, <3>1, ModeKept
    <3>3. ch.joined = channel.joined
      BY <1>2, <3>1, ModesKeep
    <3>4. ch.kick_nick = channel.kick_nick
      BY <1>2, <3>1, ModesList
    <3> HIDE DEF ch
    <3> QED
      BY <1>1, <1>2, <1>3, <1>4, <1>5, <2>1, <2>4, <3>1, <3>2, <3>3, <3>4, SameHandled
  <2> QED
    BY <2>2, <2>3, <2>4
<1>6. nick' = Heard(m, nick) /\ races \subseteq races'
  BY <1>1, <1>2 DEF Heard
<1> QED
  BY <1>1, <1>5, <1>6, GotGood

\* JOIN, for all channels that are not joined.
LEMMA JoinAllMild ==
  ASSUME NEW chs, Table(chs), NEW d
  PROVE  /\ JoinAll(chs) \in Seq(Commands) /\ Mild(JoinAll(chs), d)
         /\ chs[d].joined => NoJoin(JoinAll(chs), d)
<1> DEFINE t == JoinAll(chs)
<1>1. t \in Seq(Commands) /\ \A x : Has(t, x) => x.cmd = "JOIN" /\ ~chs[x.c].joined
  BY JoinAllIs
<1> HIDE DEF t
<1>2. \A i \in 1..Len(t) : t[i].cmd = "JOIN" /\ ~chs[t[i].c].joined
  BY <1>1 DEF Has
<1>3. Mild(t, d)
  BY <1>2 DEF Mild, KicksIn
<1>4. chs[d].joined => NoJoin(t, d)
  BY <1>2, AskedIs DEF NoJoin
<1> QED
  BY <1>1, <1>3, <1>4 DEF t

\* Script::irc_event, PING.
LEMMA EventPingTrue ==
  ASSUME CType, NEW d \in Names, NEW v, Good(d, v), event_ping
  PROVE  \E w : Good(d, w)'
<1> DEFINE t == JoinAll(channels)
<1>1. Got("PING") /\ nick' = nick /\ races' = races /\ owed' = owed /\ channels' = channels /\ outbox' = outbox \o t
  BY DEF event_ping, bot, history, Say
<1>2. m.ev = "PING"
  BY <1>1, HeadFields
<1>3. t \in Seq(Commands) /\ Mild(t, d) /\ (channels[d].joined => NoJoin(t, d))
  BY JoinAllMild DEF CType
<1> HIDE DEF t
<1>4. ~Touches(m, d) /\ m.ev \notin {"WHOREPLY", "ENDOFWHO"}
  BY <1>2 DEF Touches
<1>5. ASSUME NEW y, NEW z, AtHead(d, y, z) PROVE Handled(d, y, z)
  BY <1>1, <1>3, <1>4, <1>5, OtherHandled
<1>6. nick' = Heard(m, nick) /\ races \subseteq races'
  BY <1>1, <1>2 DEF Heard
<1> QED
  BY <1>1, <1>5, <1>6, GotGood

\* Script::irc_reply, ERR_BANNEDFROMCHAN.
LEMMA BannedTrue ==
  ASSUME CType, NEW d \in Names, NEW v, Good(d, v), reply_bannedfromchan
  PROVE  \E w : Good(d, w)'
<1> DEFINE t == IF has_services /\ Known THEN <<JoinOf(m.c)>> ELSE << >>
<1>1. Got("BANNED") /\ nick' = nick /\ races' = races /\ owed' = owed /\ channels' = channels /\ outbox' = outbox \o t
  BY DEF reply_bannedfromchan, bot, history, Say, JoinOf
<1>2. m.ev = "BANNED" /\ m.c \in Names
  BY <1>1, HeadFields, LineFields
<1>3. t \in Seq(Commands) /\ (t = << >> \/ t = <<JoinOf(m.c)>>)
  <2>1. JoinOf(m.c) \in Commands
    BY <1>2 DEF Commands, JoinOf
  <2>2. <<JoinOf(m.c)>> \in Seq(Commands) /\ << >> \in Seq(Commands)
    BY <2>1, QueueGrows DEF CType
  <2> QED
    BY <2>2, Zenon
<1> HIDE DEF t
<1>4. Mild(t, d) /\ (d # m.c => NoJoin(t, d))
  <2>1. /\ Mild(<< >>, d) /\ NoJoin(<< >>, d) /\ Mild(<<JoinOf(m.c)>>, d)
        /\ d # m.c => NoJoin(<<JoinOf(m.c)>>, d)
    BY SaysMild
  <2> QED
    BY <1>3, <2>1
<1>5. ~Touches(m, d) /\ m.ev \notin {"WHOREPLY", "ENDOFWHO"}
  BY <1>2 DEF Touches
<1>6. ASSUME NEW y, NEW z, AtHead(d, y, z) PROVE Handled(d, y, z)
  <2>1. d \in DOMAIN channels /\ d = m.c => ~channels[d].joined
    BY <1>2, <1>6 DEF AtHead, Line, Sees
  <2> QED
    BY <1>1, <1>3, <1>4, <1>5, <1>6, <2>1, OtherHandled
<1>7. nick' = Heard(m, nick) /\ races \subseteq races'
  BY <1>1, <1>2 DEF Heard
<1> QED
  BY <1>1, <1>6, <1>7, GotGood

\* Script::irc_reply, ERR_TOOMANYCHANNELS.
LEMMA TooManyTrue ==
  ASSUME CType, NEW d \in Names, NEW v, Good(d, v), reply_toomanychannels
  PROVE  \E w : Good(d, w)'
<1>1. /\ Got("TOOMANY") /\ nick' = nick /\ races \subseteq races' /\ outbox' = outbox /\ channels' = Without(m.c)
      /\ owed' = [owed EXCEPT ![m.c] = NULL]
  BY DEF reply_toomanychannels
<1>2. m.ev = "TOOMANY" /\ m.c \in Names
  BY <1>1, HeadFields, LineFields
<1>3. << >> \in Seq(Commands) /\ outbox' = outbox \o << >> /\ Mild(<< >>, d) /\ NoJoin(<< >>, d)
  BY <1>1, SaysNothing
<1>4. /\ d \in DOMAIN channels' => d \in DOMAIN channels /\ channels'[d] = channels[d]
      /\ owed'[d] \in {owed[d], NULL}
      /\ owed'[d] # NULL /\ d \in DOMAIN channels => d \in DOMAIN channels'
  BY <1>1, <1>2 DEF Without, CType
<1>5. ~Touches(m, d) /\ m.ev \notin {"WHOREPLY", "ENDOFWHO"}
  BY <1>2 DEF Touches
<1>6. ASSUME NEW y, NEW z, AtHead(d, y, z) PROVE Handled(d, y, z)
  BY <1>3, <1>4, <1>5, <1>6, OtherHandled
<1>7. nick' = Heard(m, nick)
  BY <1>1, <1>2 DEF Heard
<1> QED
  BY <1>1, <1>6, <1>7, GotGood

\* Script::irc_reply, RPL_ENDOFWHO.
LEMMA EndTrue ==
  ASSUME CType, NEW d \in Names, NEW v, Good(d, v), reply_endofwho
  PROVE  \E w : Good(d, w)'
<1> DEFINE ch == [channel EXCEPT !.kick_nick = NULL]
<1>1. /\ Got("ENDOFWHO") /\ nick' = nick /\ races \subseteq races' /\ outbox' = outbox /\ owed' = owed
      /\ InChannel(ch) /\ (Known /\ ~channel.joined => "who" \in races')
  BY DEF reply_endofwho
<1>2. m.ev = "ENDOFWHO" /\ Table(channels) /\ (Known => channel \in ChannelType)
  BY <1>1, HeadFields DEF CType
<1>3. << >> \in Seq(Commands) /\ outbox' = outbox \o << >> /\ Mild(<< >>, d) /\ NoJoin(<< >>, d)
  BY <1>1, SaysNothing
<1>4. NULL \in Nicks \cup {NULL} /\ ch = [channel EXCEPT !.kick_nick = NULL]
  OBVIOUS
<1> HIDE DEF ch
<1>5. Known => /\ ch.joined = channel.joined /\ (Once(ch) <=> Once(channel))
               /\ \A k, o : On(ch, k, o) <=> On(channel, k, o)
  BY <1>2, <1>4, KickNickIs
<1>6. /\ DOMAIN channels' = DOMAIN channels
      /\ d = m.c /\ d \in DOMAIN channels => Known /\ channels'[d] = ch /\ channels[d] = channel
      /\ d # m.c /\ d \in DOMAIN channels => channels'[d] = channels[d]
  BY <1>1, <1>2, ChannelStep
<1>7. ~Touches(m, d)
  BY <1>2 DEF Touches
<1>8. ASSUME NEW y, NEW z, "who" \notin races', AtHead(d, y, z) PROVE Handled(d, y, z)
  <2>1. ~Echo(m, y, d) /\ ~OwnKick(m, y, d) /\ \A n : ~Tells(m, d, n)
    BY <1>2 DEF Echo, OwnKick, Tells
  <2>2. CASE d # m.c
    BY <1>1, <1>3, <1>6, <1>7, <1>8, <2>2, OtherHandled
  <2>3. CASE d = m.c /\ d \notin DOMAIN channels
    BY <1>1, <1>3, <1>6, <1>8, <2>1, <2>3, UnknownHandled
  <2>4. CASE d = m.c /\ d \in DOMAIN channels
    <3>1. /\ y \in View /\ z \in View /\ Line(m, y, z, d, races) /\ Sees(channel, y, races)
          /\ Known /\ channels'[d] = ch /\ channels[d] = channel /\ channel \in ChannelType /\ Once(channel)
      BY <1>2, <1>6, <1>8, <2>4 DEF AtHead, Sees
    <3>2. In(y) /\ channel.joined
      BY <1>1, <1>8, <3>1 DEF Sees
    <3>3. /\ In(z) <=> In(y)
          /\ In(y) => z.members = y.members /\ z.ops = y.ops
      BY <1>7, <3>1, QuietKept
    <3>4. Kept(channel, y, ch, z, races)
      BY <1>5, <3>1, <3>3, StaysKept
    <3>5. Clears(m, y, d)
      BY <1>2, <2>4, <3>2 DEF Clears
    <3>6. Recalls(d, y)
      BY <2>1, <3>5 DEF Recalls
    <3> QED
      BY <1>1, <1>3, <1>5, <1>6, <1>8, <2>1, <3>1, <3>2, <3>4, <3>6, MildHandled
  <2> QED
    BY <2>2, <2>3, <2>4
<1>9. nick' = Heard(m, nick)
  BY <1>1, <1>2 DEF Heard
<1> QED
  BY <1>1, <1>8, <1>9, GotGood

\* Script::irc_reply, RPL_WHOREPLY.
LEMMA WhoreplyTrue ==
  ASSUME CType, NEW d \in Names, NEW v, Good(d, v), reply_whoreply
  PROVE  \E w : Good(d, w)'
<1> DEFINE back == Known /\ channel.kick_nick = m.who
           a == user_add(channel, m.who, m.op)
           k == IF a.kick_nick = m.who THEN NULL ELSE a.kick_nick
           ch == [a EXCEPT !.kick_nick = k]
           l == [cmd |-> "KICK", c |-> m.c, who |-> m.who]
           t == IF back THEN <<l>> ELSE << >>
<1>1. /\ Got("WHOREPLY") /\ nick' = nick /\ races \subseteq races' /\ InChannel(ch) /\ outbox' = outbox \o t
      /\ owed' = (IF back /\ owed[m.c] = m.who THEN [owed EXCEPT ![m.c] = NULL] ELSE owed)
      /\ (Known /\ ~channel.joined => "who" \in races')
  BY DEF reply_whoreply, Say
<1>2. /\ m \in Lines /\ m.ev = "WHOREPLY" /\ m.c \in Names /\ m.who \in Nicks /\ m.op \in BOOLEAN
      /\ C_USERS_MAX \in Nat /\ Table(channels)
      /\ (Known => channel \in ChannelType /\ Len(channel.users) <= C_USERS_MAX)
  BY <1>1, HeadFields, LineFields DEF CType
<1>3. Known => /\ a \in ChannelType /\ a.joined = channel.joined /\ a.kick_nick = channel.kick_nick
  BY <1>2, AddKeeps
<1>4. /\ l \in Commands /\ l.cmd = "KICK" /\ l.c = m.c /\ \A c : l # JoinOf(c)
  <2>1. l \in Commands /\ l.cmd = "KICK" /\ l.c = m.c
    BY <1>2 DEF Commands
  <2>2. \A c : JoinOf(c).cmd = "JOIN"
    BY AskedIs
  <2> QED
    BY <2>1, <2>2
<1> HIDE DEF l
<1>5. t \in Seq(Commands) /\ (back => t = <<l>>) /\ (~back => t = << >>)
  BY <1>4, QueueGrows DEF CType
<1>6. /\ a = user_add(channel, m.who, m.op) /\ ch = [a EXCEPT !.kick_nick = k]
      /\ k = (IF a.kick_nick = m.who THEN NULL ELSE a.kick_nick)
      /\ back <=> Known /\ channel.kick_nick = m.who
  OBVIOUS
<1> HIDE DEF back, a, k, ch, t
<1>7. /\ NoJoin(t, d) /\ (d # m.c \/ ~back => Mild(t, d))
  <2>1. Mild(<< >>, d) /\ NoJoin(<< >>, d)
    BY SaysMild
  <2>2. NoJoin(<<l>>, d) /\ (d # m.c => Mild(<<l>>, d))
    BY <1>4, SaysMild DEF KicksIn
  <2> QED
    BY <1>5, <2>1, <2>2
<1>8. Known => /\ ch.joined = channel.joined /\ ch.kick_nick = k
               /\ (Once(ch) <=> Once(a)) /\ \A n, o : On(ch, n, o) <=> On(a, n, o)
  <2>1. Known => k \in Nicks \cup {NULL}
    BY <1>2, <1>3, <1>6, ChannelFields
  <2> QED
    BY <1>3, <1>6, <2>1, KickNickIs
<1>9. /\ DOMAIN channels' = DOMAIN channels
      /\ d = m.c /\ d \in DOMAIN channels => Known /\ channels'[d] = ch /\ channels[d] = channel
      /\ d # m.c /\ d \in DOMAIN channels => channels'[d] = channels[d]
  BY <1>1, <1>2, ChannelStep
<1>10. /\ owed'[d] \in {owed[d], NULL} /\ (d # m.c \/ ~back => owed'[d] = owed[d])
       /\ back /\ d = m.c /\ owed[d] = m.who => owed'[d] = NULL
  BY <1>1, <1>2 DEF CType
<1>11. ~Touches(m, d)
  BY <1>2 DEF Touches
<1>12. ASSUME NEW y, NEW z, "who" \notin races', AtHead(d, y, z) PROVE Handled(d, y, z)
  <2>1. ~Echo(m, y, d) /\ ~OwnKick(m, y, d) /\ ~Clears(m, y, d)
        /\ \A n : Tells(m, d, n) <=> d = m.c /\ n = m.who
    BY <1>2 DEF Echo, OwnKick, Clears, Tells
  <2>2. CASE d # m.c
    BY <1>1, <1>5, <1>7, <1>9, <1>10, <1>11, <1>12, <2>2, OtherHandled
  <2>3. CASE d = m.c /\ d \notin DOMAIN channels
    <3>1. ~back
      BY <1>6, <2>3 DEF Known
    <3> QED
      BY <1>1, <1>5, <1>7, <1>9, <1>10, <1>12, <2>1, <2>3, <3>1, UnknownHandled
  <2>4. CASE d = m.c /\ d \in DOMAIN channels
    <3>1. /\ y \in View /\ z \in View /\ Line(m, y, z, d, races) /\ Sees(channel, y, races)
          /\ Known /\ channels'[d] = ch /\ channels[d] = channel /\ channel \in ChannelType /\ Once(channel)
          /\ (channel.joined => JoinsAsk(outbox, d)) /\ KicksAsk(outbox, d)
      BY <1>2, <1>9, <1>12, <2>4 DEF AtHead, Sees
    <3>2. In(y) /\ channel.joined
      BY <1>1, <1>12, <3>1 DEF Sees
    <3>3. Once(user_add(channel, m.who, m.op)) /\ Gains(user_add(channel, m.who, m.op), channel, m.who, m.op)
      BY <1>2, <3>1, AddIs
    <3>4. Once(ch) /\ ch.joined = channel.joined
      BY <1>6, <1>8, <3>1, <3>3
    <3>5. Gains(ch, channel, m.who, m.op)
      BY <1>6, <1>8, <3>1, <3>3 DEF Gains
    <3>6. m.c = d /\ m.ev = "WHOREPLY" /\ m.who \in Nicks /\ m.op \in BOOLEAN
      BY <1>2, <2>4
    <3>7. Kept(channel, y, ch, z, races) /\ (Enough => Listed(ch, m.who))
      BY <3>1, <3>2, <3>4, <3>5, <3>6, ToldKept
    <3>8. CASE ~back
      <4>1. ch.kick_nick = channel.kick_nick /\ channel.kick_nick # m.who
        BY <1>3, <1>6, <1>8, <3>1, <3>8
      <4>2. Recalls(d, y)
        BY <1>9, <2>1, <2>4, <3>1, <4>1 DEF Recalls, Minds
      <4> QED
        BY <1>1, <1>5, <1>7, <1>10, <1>12, <2>1, <2>4, <3>1, <3>2, <3>4, <3>7, <3>8, <4>2, MildHandled
    <3>9. CASE back
      <4> DEFINE o == outbox
                 p == outbox'
      <4>1. o \in Seq(Commands) /\ p = o \o t /\ JoinsAsk(o, d) /\ KicksAsk(o, d)
        BY <1>1, <3>1, <3>2 DEF CType
      <4> HIDE DEF o, p
      <4>2. /\ JoinsAsk(p, d) /\ KicksAsk(p, d)
            /\ Has(o, WhoOf(d)) => Has(p, WhoOf(d)) /\ (WhoFirst(o, d) => WhoFirst(p, d))
        BY <1>5, <1>7, <4>1, MoreAsks DEF NoJoin
      <4>3. Taken(channels, d) /\ (Minds(channels, d, owed[d]) => owed'[d] = NULL)
        BY <1>6, <1>10, <2>4, <3>1, <3>2, <3>9 DEF Taken, Minds
      <4> QED
        BY <1>10, <2>1, <2>4, <3>1, <3>2, <3>4, <3>7, <4>2, <4>3 DEF Handled, o, p
    <3> QED
      BY <3>8, <3>9
  <2> QED
    BY <2>2, <2>3, <2>4
<1>13. nick' = Heard(m, nick)
  BY <1>1, <1>2 DEF Heard
<1> QED
  BY <1>1, <1>12, <1>13, GotGood

\* Whatever the bot is told.
LEMMA EventTrue == ASSUME CType, NEW d \in Names, NEW v, Good(d, v), Event PROVE \E w : Good(d, w)'
  BY EventJoinTrue, EventQuitTrue, EventNickTrue, EventKickTrue, EventPartTrue, EventModeTrue, EventPingTrue
     DEF Event

\* Whatever it is answered.
LEMMA ReplyTrue == ASSUME CType, NEW d \in Names, NEW v, Good(d, v), Reply PROVE \E w : Good(d, w)'
  BY WhoreplyTrue, EndTrue, BannedTrue, TooManyTrue DEF Reply

-----------------------------------------------------------------------------
(* Commands, a new connection, and every step.                                *)

\* It is told nothing, asks for t, and knows no more than before of d.
LEMMA TellsNothing ==
  ASSUME CType, CType', NEW d \in Names, NEW v, Good(d, v),
         UNCHANGED <<inbox, nick, server, races>>,
         NEW t \in Seq(Commands), outbox' = outbox \o t, Mild(t, d),
         d \in DOMAIN channels' =>
           \/ d \in DOMAIN channels /\ channels'[d] = channels[d] /\ NoJoin(t, d)
           \/ Bare(channels'[d]),
         owed'[d] \in {owed[d], NULL},
         Minds(channels, d, owed[d]) /\ owed'[d] # NULL => Minds(channels', d, owed[d])
  PROVE  \E w : Good(d, w)'
<1>1. UNCHANGED <<inbox, nick, me>> /\ races \subseteq races' /\ Here(d)' = Here(d) /\ members' = members
  BY DEF server, Here
<1>2. ASSUME Facts(d)
      PROVE  /\ d \in DOMAIN channels' => (d \in DOMAIN channels /\ channels'[d] = channels[d]) \/ Bare(channels'[d])
             /\ Taken(channels', d) => JoinsAsk(outbox', d)
             /\ KicksAsk(outbox', d)
             /\ owed'[d] \in {owed[d], NULL} /\ (owed'[d] # NULL => owed'[d] \in members'[d])
             /\ In(Here(d)) => /\ Has(outbox, WhoOf(d)) => Has(outbox', WhoOf(d))
                               /\ WhoFirst(outbox, d) => WhoFirst(outbox', d)
             /\ Minds(channels, d, owed[d]) /\ owed'[d] # NULL => Minds(channels', d, owed[d])
  <2> DEFINE o == outbox
             p == outbox'
  <2>1. o \in Seq(Commands) /\ p = o \o t
    BY DEF CType
  <2>2. (Taken(channels, d) => JoinsAsk(o, d)) /\ KicksAsk(o, d)
    BY <1>2 DEF Facts
  <2> HIDE DEF o, p
  <2>3. /\ NoJoin(t, d) /\ JoinsAsk(o, d) => JoinsAsk(p, d)
        /\ KicksAsk(p, d)
        /\ Has(o, WhoOf(d)) => Has(p, WhoOf(d))
        /\ WhoFirst(o, d) => WhoFirst(p, d)
    BY <2>1, <2>2, MoreAsks DEF NoJoin, Mild
  <2>4. Taken(channels', d) => Taken(channels, d) /\ NoJoin(t, d)
    BY DEF Taken, Bare
  <2>5. owed'[d] # NULL => owed'[d] \in members'[d]
    BY <1>1, <1>2 DEF Facts
  <2> QED
    BY <2>2, <2>3, <2>4, <2>5 DEF o, p
<1> QED
  BY <1>1, <1>2, StaysGood

\* A channel that was added is one that the bot is out of.
LEMMA NewIsBare == Bare(NewChannel)
  BY DEF Bare, NewChannel, Once, On

\* scriptcmd_join.
LEMMA JoinTrue ==
  ASSUME CType, CType', NEW d \in Names, NEW v, Good(d, v), NEW c \in Names, scriptcmd_join(c)
  PROVE  \E w : Good(d, w)'
<1> DEFINE t == <<JoinOf(c)>>
<1>1. /\ UNCHANGED <<inbox, nick, server, races, owed>> /\ outbox' = outbox \o t
      /\ c \notin DOMAIN channels
      /\ channels' = [x \in DOMAIN channels \cup {c} |-> IF x = c THEN NewChannel ELSE channels[x]]
  BY DEF scriptcmd_join, Commanded, Say, JoinOf, history
<1>2. t \in Seq(Commands) /\ Mild(t, d) /\ (c # d => NoJoin(t, d))
  <2>1. JoinOf(c) \in Commands
    BY DEF Commands, JoinOf
  <2> QED
    BY <2>1, QueueGrows, SaysMild DEF CType
<1> HIDE DEF t
<1>3. CASE d = c
  <2>1. Bare(channels'[d])
    BY <1>1, <1>3, NewIsBare
  <2>2. ~Minds(channels, d, owed[d])
    BY <1>1, <1>3 DEF Minds
  <2> QED
    BY <1>1, <1>2, <2>1, <2>2, TellsNothing
<1>4. CASE d # c
  <2>1. (d \in DOMAIN channels' <=> d \in DOMAIN channels) /\ (d \in DOMAIN channels => channels'[d] = channels[d])
    BY <1>1, <1>4
  <2>2. Minds(channels, d, owed[d]) => Minds(channels', d, owed[d])
    BY <2>1 DEF Minds
  <2> QED
    BY <1>1, <1>2, <1>4, <2>1, <2>2, TellsNothing
<1> QED
  BY <1>3, <1>4

\* scriptcmd_part.
LEMMA PartsTrue ==
  ASSUME CType, CType', NEW d \in Names, NEW v, Good(d, v), NEW c \in Names, scriptcmd_part(c)
  PROVE  \E w : Good(d, w)'
<1> DEFINE t == <<PartOf(c)>>
<1>1. /\ UNCHANGED <<inbox, nick, server, races>> /\ outbox' = outbox \o t
      /\ channels' = Without(c) /\ owed' = [owed EXCEPT ![c] = NULL]
  BY DEF scriptcmd_part, Commanded, Say, PartOf
<1>2. t \in Seq(Commands) /\ Mild(t, d) /\ NoJoin(t, d)
  <2>1. PartOf(c) \in Commands /\ ~KicksIn(PartOf(c), d) /\ PartOf(c) # JoinOf(d)
    BY DEF Commands, PartOf, KicksIn, JoinOf
  <2> QED
    BY <2>1, QueueGrows, SaysMild DEF CType
<1> HIDE DEF t
<1>3. d \in DOMAIN channels' => d \in DOMAIN channels /\ channels'[d] = channels[d]
  BY <1>1 DEF Without
<1>4. owed'[d] \in {owed[d], NULL}
  BY <1>1 DEF CType
<1>5. Minds(channels, d, owed[d]) /\ owed'[d] # NULL => Minds(channels', d, owed[d])
  BY <1>1 DEF Minds, Without, CType
<1> QED
  BY <1>1, <1>2, <1>3, <1>4, <1>5, TellsNothing

\* The bot has a connection, and is in no channel yet.
NewLink(c) ==
  /\ inbox = << >> /\ nick = me /\ outbox = JoinAll(channels) /\ ~In(Here(c))
  /\ c \in DOMAIN channels => Bare(channels[c])
  /\ "who" \notin races /\ owed[c] # NULL =>
       owed[c] \in members[c] /\ owed[c] # me /\ Minds(channels, c, owed[c])

\* Then it knows what it knew before.
Afresh == \A c \in Names : CType /\ NewLink(c) => \E v : Good(c, v)

\* So it is.
LEMMA LinkGood == Afresh
<1> SUFFICES ASSUME NEW c \in Names, CType, NewLink(c) PROVE \E v : Good(c, v)
  BY DEF Afresh
<1> DEFINE z == Here(c)
           s == inbox
<1>1. /\ s = << >> /\ Len(s) = 0 /\ z \in View /\ z.me = nick /\ z.me = me /\ z.members = members[c] /\ ~In(z)
  <2>1. Here(c) \in View
    BY HereIs
  <2> QED
    BY <2>1 DEF NewLink, Here
<1>2. Mild(outbox, c)
  BY JoinAllMild DEF NewLink, CType
<1> HIDE DEF z, s
<1>3. PICK v : v = [i \in 0..0 |-> z]
  OBVIOUS
<1>4. v \in [0..Len(s) -> View] /\ v[0] = z /\ v[Len(s)] = z
  BY <1>1, <1>3
<1>5. Chain(v, s, c, races)
  BY <1>1, <1>4 DEF Chain
<1>6. ASSUME "who" \notin races PROVE Knows(c, v, s, outbox, channels, owed[c], races)
  <2>1. ASSUME c \in DOMAIN channels
        PROVE  Sees(channels[c], v[0], races) /\ Pending(channels[c], v, s, c, outbox) /\ ~channels[c].joined
    BY <2>1 DEF NewLink, Bare, Sees, Pending
  <2>2. KicksAsk(outbox, c)
    BY <1>2 DEF KicksAsk, Mild
  <2>3. ASSUME owed[c] # NULL
        PROVE  owed[c] \in v[Len(s)].members /\ owed[c] # v[Len(s)].me /\ Owes(owed[c], v, s, c, outbox, channels)
    <3>1. From(0, owed[c], v, s, c, channels)
      BY <1>6, <2>3 DEF From, NewLink
    <3>2. WillAsk(0, v, s, c, outbox, channels)
      BY <1>1, <1>4 DEF WillAsk
    <3>3. 0 \in 0..Len(s)
      BY <1>1
    <3> QED
      BY <1>1, <1>4, <1>6, <2>3, <3>1, <3>2, <3>3 DEF Owes, NewLink
  <2> QED
    BY <2>1, <2>2, <2>3 DEF Knows
<1>7. Good(c, v)
  BY <1>1, <1>4, <1>5, <1>6 DEF Good, z, s
<1> QED
  BY <1>7

\* At first.
LEMMA InitTrue == ASSUME Init PROVE TrueInv
<1>1. CType
  BY InitTypes
<1>2. outbox = JoinAll(channels)
  <2>1. {d \in DOMAIN channels : ~channels[d].joined} = conf
    BY DEF Init, NewChannel
  <2> QED
    BY <2>1, Zenon DEF Init, JoinAll
<1>3. ASSUME NEW c \in Names PROVE NewLink(c)
  <2>1. me \notin members[c] /\ owed[c] = NULL
    BY DEF Init
  <2>2. c \in DOMAIN channels => Bare(channels[c])
    BY NewIsBare DEF Init
  <2> QED
    BY <1>2, <2>1, <2>2 DEF NewLink, In, Here, Init
<1> QED
  BY <1>1, <1>3, LinkGood DEF TrueInv, Afresh

\* A new connection.
LEMMA ReconnectTrue ==
  ASSUME CType, CType', NEW d \in Names, NEW v, Good(d, v), Reconnect
  PROVE  \E w : Good(d, w)'
<1>1. /\ inbox' = << >> /\ nick' = me' /\ outbox' = JoinAll(channels') /\ me' = nick_orig
      /\ channels' = [c \in DOMAIN channels |-> Out(channels[c])] /\ races' = races
      /\ members'[d] = members[d] \ {me} /\ nick_orig \notin members[d] \ {me}
      /\ owed'[d] = IF d \in DOMAIN channels /\ channels[d].kick_nick = owed[d] THEN owed[d] ELSE NULL
  BY DEF Reconnect
<1>2. ~In(Here(d)')
  BY <1>1 DEF In, Here
<1>3. ASSUME d \in DOMAIN channels
      PROVE  Bare(channels'[d]) /\ channels'[d].kick_nick = channels[d].kick_nick
  <2>1. channels[d] \in ChannelType /\ channels'[d] = Out(channels[d])
    BY <1>1, <1>3 DEF CType, Table
  <2> QED
    BY <2>1, OutIs DEF Bare
<1>4. DOMAIN channels' = DOMAIN channels
  BY <1>1
<1>5. ASSUME "who" \notin races', owed'[d] # NULL
      PROVE  owed'[d] \in members'[d] /\ owed'[d] # me' /\ Minds(channels', d, owed'[d])
  <2>1. owed'[d] = owed[d] /\ d \in DOMAIN channels /\ channels[d].kick_nick = owed[d]
    BY <1>1, <1>5
  <2>2. owed[d] \in members[d] /\ owed[d] # me
    BY <1>1, <1>5, <2>1, FactsHold DEF Facts
  <2> QED
    BY <1>1, <1>3, <1>4, <2>1, <2>2 DEF Minds
<1>6. NewLink(d)'
  BY <1>1, <1>2, <1>3, <1>4, <1>5 DEF NewLink
<1>7. Afresh'
  BY LinkGood, PTL
<1> QED
  BY <1>6, <1>7 DEF Afresh

\* Every step.
LEMMA TrueKeeps == ASSUME TrueInv, [Next]_vars PROVE TrueInv'
<1>1. CType /\ CType'
  BY TypesKeep DEF TrueInv
<1>2. ASSUME NEW d \in Names PROVE \E w : Good(d, w)'
  <2>1. PICK v : Good(d, v)
    BY DEF TrueInv
  <2>2. CASE UNCHANGED vars
    <3>1. Good(d, v)' <=> Good(d, v)
      BY <2>2 DEF Good, Here, vars, bot, server, history
    <3> QED
      BY <2>1, <3>1
  <2>3. CASE Person
    BY <1>1, <2>1, <2>3, PersonTrue
  <2>4. CASE Ping
    BY <1>1, <2>1, <2>4, PingTrue
  <2>5. CASE ServerAnswers
    BY <1>1, <2>1, <2>5, ServerTrue
  <2>6. CASE Reply
    BY <1>1, <2>1, <2>6, ReplyTrue
  <2>7. CASE Event
    BY <1>1, <2>1, <2>7, EventTrue
  <2>8. CASE Command
    BY <1>1, <2>1, <2>8, JoinTrue, PartsTrue DEF Command
  <2>9. CASE Reconnect
    BY <1>1, <2>1, <2>9, ReconnectTrue
  <2> QED
    BY <2>2, <2>3, <2>4, <2>5, <2>6, <2>7, <2>8, <2>9 DEF Next
<1> QED
  BY <1>1, <1>2 DEF TrueInv

\* Nobody is in a list twice.
LEMMA OnceHere == ASSUME TrueInv, "who" \notin races PROVE NoTwice
<1> SUFFICES ASSUME NEW c \in DOMAIN channels PROVE Once(channels[c])
  BY DEF NoTwice, Once
<1>1. c \in Names
  BY DEF TrueInv, CType, Table
<1>2. PICK v : Good(c, v)
  BY <1>1 DEF TrueInv
<1> QED
  BY <1>2 DEF Good, Knows, Sees

\* Nothing is under way: the bot knows what is there, with op or without.
LEMMA SeenHere ==
  ASSUME TrueInv, "who" \notin races, Quiet, NEW c \in DOMAIN channels
  PROVE  /\ Sees(channels[c], Here(c), races)
         /\ Enough /\ channels[c].joined => Full(channels[c], Here(c))
<1> DEFINE ch == channels[c]
           s == inbox
           o == outbox
<1>1. c \in Names
  BY DEF TrueInv, CType, Table
<1>2. PICK v : Good(c, v)
  BY <1>1 DEF TrueInv
<1>3. s = << >> /\ Len(s) = 0 /\ (\A x : ~Has(o, x)) /\ 0..0 = {0}
  BY DEF Quiet, Has
<1>4. Sees(ch, v[0], races) /\ (Enough => Pending(ch, v, s, c, o)) /\ v[0] = Here(c)
  BY <1>2, <1>3 DEF Good, Knows
<1> HIDE DEF ch, s, o
<1>5. ASSUME Enough, ch.joined PROVE Full(ch, v[0])
  <2>1. In(v[0])
    BY <1>4, <1>5 DEF Sees
  <2>2. \A i \in 1..Len(s) : FALSE
    BY <1>3
  <2>3. Synced(ch, v, s, c)
    BY <1>3, <1>4, <1>5, <2>1, <2>2 DEF Pending
  <2>4. PICK j \in 0..Len(s), k \in 0..Len(s) :
          /\ j <= k /\ \A i \in j..k : v[i].members = v[k].members
          /\ \A n \in v[k].members : (j = 0 /\ Listed(ch, n)) \/ \E i \in (j + 1)..k : Tells(s[i], c, n)
    BY <2>3 DEF Synced
  <2>5. k = 0 /\ j = 0 /\ \A i \in (j + 1)..k : FALSE
    BY <1>3
  <2> QED
    BY <2>4, <2>5 DEF Full
<1> QED
  BY <1>4, <1>5 DEF ch

\* So the lists are of those who are there.
LEMMA ListsTrue == ASSUME TrueInv, Enough, "who" \notin races PROVE UsersAreTrue
<1> SUFFICES ASSUME Quiet, NEW c \in DOMAIN channels, channels[c].joined
             PROVE  {x.nick : x \in Users(c)} = members[c]
  BY DEF UsersAreTrue
<1> DEFINE ch == channels[c]
           S == {x.nick : x \in Users(c)}
<1>1. ch \in ChannelType
  BY DEF TrueInv, CType, Table
<1>2. Sees(ch, Here(c), races) /\ Full(ch, Here(c)) /\ Here(c).members = members[c]
  BY SeenHere DEF Here
<1>3. \A n : n \in S <=> \E i \in DOMAIN ch.users : ch.users[i].nick = n
  BY DEF Users
<1> HIDE DEF ch, S
<1>4. DOMAIN ch.users = 1..Len(ch.users)
  BY <1>1, UsersAre
<1>5. \A n : Listed(ch, n) <=> n \in members[c]
  BY <1>2, ListedOn DEF Sees, Full
<1>6. \A n : Listed(ch, n) <=> \E i \in 1..Len(ch.users) : ch.users[i].nick = n
  BY <1>1, ListedIs
<1>7. \A n : n \in S <=> n \in members[c]
  BY <1>3, <1>4, <1>5, <1>6
<1>8. S = members[c]
  BY <1>7
<1> QED
  BY <1>8 DEF S

\* And so it is with op.
LEMMA OpsTrue == ASSUME TrueInv, races \cap {"who", "first", "mode"} = {} PROVE OpsAreTrue
<1> SUFFICES ASSUME Quiet, NEW c \in DOMAIN channels, NEW u \in Users(c), u.nick \in members[c]
             PROVE  u.op <=> u.nick \in ops[c]
  BY DEF OpsAreTrue
<1> DEFINE ch == channels[c]
<1>1. ch \in ChannelType
  BY DEF TrueInv, CType, Table
<1>2. "who" \notin races /\ races \cap {"first", "mode"} = {}
  OBVIOUS
<1>3. Sees(ch, Here(c), races) /\ Here(c).ops = ops[c]
  BY <1>2, SeenHere DEF Here
<1>4. PICK i \in DOMAIN ch.users : u = ch.users[i]
  BY DEF Users
<1> HIDE DEF ch
<1>5. u.op \in BOOLEAN /\ On(ch, u.nick, u.op)
  BY <1>1, <1>4, UsersAre DEF On
<1>6. u.op = TRUE <=> u.nick \in ops[c]
  BY <1>2, <1>3, <1>5 DEF Sees
<1> QED
  BY <1>5, <1>6

\* Once the bot has seen everything its lists of users are those of the server,
\* with op for those who have it, and nobody is in one twice, but for the races
\* named: the handlers of JOIN, WHO, QUIT, NICK, KICK, PART and MODE and Channel's
\* list, for any channels and people, as long as a list has room for all of them.
THEOREM TableIsTrue == Enough => (Spec => []TrueButForRaces)
<1> SUFFICES ASSUME Enough PROVE Spec => []TrueButForRaces
  OBVIOUS
<1>1. Spec => []TrueInv
  BY InitTrue, TrueKeeps, PTL DEF Spec
<1>2. TrueInv => TrueButForRaces
  BY OnceHere, ListsTrue, OpsTrue DEF TrueButForRaces
<1> QED
  BY <1>1, <1>2, PTL

\* Nobody is in a list twice, however small it is, unless a WHO was answered after
\* the bot had been kicked: Channel::user_add, which looks for the nick first, and
\* Channel::user_change_nick, which does not.
THEOREM ListedOnce == Spec => []("who" \notin races => NoTwice)
<1>1. Spec => []TrueInv
  BY InitTrue, TrueKeeps, PTL DEF Spec
<1>2. TrueInv => ("who" \notin races => NoTwice)
  BY OnceHere
<1> QED
  BY <1>1, <1>2, PTL

\* Nothing is under way and the bot is in c: nobody is left to be kicked.
LEMMA NobodyOwed ==
  ASSUME TrueInv, "who" \notin races, Quiet, NEW c \in Names, me \in members[c]
  PROVE  owed[c] = NULL
<1> DEFINE s == inbox
           o == outbox
           b == owed[c]
<1>1. PICK v : Good(c, v)
  BY DEF TrueInv
<1>2. s = << >> /\ Len(s) = 0 /\ (\A x : ~Has(o, x)) /\ 0..0 = {0}
  BY DEF Quiet, Has
<1>3. (b # NULL => Owes(b, v, s, c, o, channels)) /\ v[0] = Here(c) /\ In(Here(c))
  BY <1>1, <1>2 DEF Good, Knows, In, Here
<1> HIDE DEF s, o, b
<1>4. ASSUME Owes(b, v, s, c, o, channels) PROVE FALSE
  <2>1. PICK p \in 0..Len(s) : Answered(p, b, v, s, c) \/ WillAsk(p, v, s, c, o, channels)
    BY <1>4 DEF Owes
  <2>2. \A i \in (p + 1)..Len(s) : FALSE
    BY <1>2
  <2> QED
    BY <1>2, <1>3, <2>1, <2>2 DEF Answered, WillAsk
<1> QED
  BY <1>3, <1>4 DEF b

\* Whoever kicked the bot and stayed is kicked back when it is in the channel
\* again: kick_nick, from the KICK to the answers to the WHO, whatever comes
\* between them, a lost connection for one.
THEOREM KickedBack == Spec => []KicksBack
<1>1. Spec => []TrueInv
  BY InitTrue, TrueKeeps, PTL DEF Spec
<1>2. TrueInv => KicksBack
  <2> SUFFICES ASSUME TrueInv, Quiet, races \cap {"who", "refusal"} = {},
                      NEW c \in DOMAIN channels, me \in members[c]
               PROVE  owed[c] = NULL
    BY DEF KicksBack
  <2>1. "who" \notin races /\ c \in Names
    BY DEF TrueInv, CType, Table
  <2> QED
    BY <2>1, NobodyOwed
<1> QED
  BY <1>1, <1>2, PTL

===============================================================================
