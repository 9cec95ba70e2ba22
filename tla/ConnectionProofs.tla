-------------------------- MODULE ConnectionProofs --------------------------
(***************************************************************************)
(* Proofs about Connection, for every value of its constants.              *)
(*                                                                         *)
(* The argument: the type invariant and the shape of the ring depend on    *)
(* nothing but each other; the flags, the session and the target of a      *)
(* !server each need the ring, because they follow host_current; and the   *)
(* retry property is a step property that rests on the equality of the     *)
(* history idle with the code's own last_try.  The two properties of the   *)
(* silence limit compare quiet and gap, which the code looks at, with the  *)
(* real silence; each direction needs an assumption about the date.        *)
(***************************************************************************)
EXTENDS Connection, SequenceLemmas

-----------------------------------------------------------------------------
(* The ring of hosts. *)

\* p is the only one of the n hosts whose next is cur.
IsLast(nxt, n, cur, p) ==
  p \in 1..n /\ nxt[p] = cur /\ \A q \in 1..n : nxt[q] = cur => q = p

\* n hosts, each of them the next of exactly one.
Ring(nxt, n) ==
  /\ n \in Nat /\ nxt \in [1..n -> 1..n]
  /\ \A h \in 1..n : \E p \in 1..n : IsLast(nxt, n, h, p)

\* nxt with the new host n + 1 spliced in between last and cur.
Spliced(nxt, n, last, cur) ==
  [h \in 1..(n + 1) |->
     IF h = n + 1 THEN cur ELSE IF h = last THEN n + 1 ELSE nxt[h]]

\* The place where host_add's recursion ends exists, and is the only one.
LEMMA LastPrecedes ==
  ASSUME NEW n, NEW nxt, Ring(nxt, n), NEW cur \in 1..n
  PROVE  IsLast(nxt, n, cur, Last(nxt, cur))
<1>1. PICK p \in 1..n : IsLast(nxt, n, cur, p)
  BY DEF Ring
<1>2. DOMAIN nxt = 1..n
  BY DEF Ring
<1>3. Last(nxt, cur) \in 1..n /\ nxt[Last(nxt, cur)] = cur
  BY <1>1, <1>2 DEF Last, IsLast
<1> QED
  BY <1>1, <1>3 DEF IsLast

\* Splicing in a host before cur keeps the ring.
LEMMA SpliceKeepsRing ==
  ASSUME NEW n, NEW nxt, Ring(nxt, n), NEW cur \in 1..n,
         NEW last, IsLast(nxt, n, cur, last)
  PROVE  Ring(Spliced(nxt, n, last, cur), n + 1)
<1> DEFINE new == Spliced(nxt, n, last, cur)
<1>1. n \in Nat /\ nxt \in [1..n -> 1..n] /\ last \in 1..n
  BY DEF Ring, IsLast
<1>2. \A q \in 1..(n + 1) : q # n + 1 => q \in 1..n /\ nxt[q] \in 1..n
  <2> TAKE q \in 1..(n + 1)
  <2> HAVE q # n + 1
  <2>1. q \in 1..n
    BY <1>1
  <2> QED
    BY <1>1, <2>1
<1>3. \A q \in 1..(n + 1) :
        new[q] = IF q = n + 1 THEN cur ELSE IF q = last THEN n + 1 ELSE nxt[q]
  BY DEF Spliced
<1>4. \A q \in 1..n : q \in 1..(n + 1) /\ q # n + 1
  BY <1>1
<1>5. \A q \in 1..(n + 1) : new[q] \in 1..(n + 1)
  <2> TAKE q \in 1..(n + 1)
  <2>1. n + 1 \in 1..(n + 1)
    BY <1>1
  <2> QED
    BY <1>2, <1>3, <1>4, <2>1
<1>6. new \in [1..(n + 1) -> 1..(n + 1)]
  <2>1. new = [q \in 1..(n + 1) |-> new[q]]
    BY DEF Spliced
  <2> HIDE DEF new
  <2> QED
    BY <1>5, <2>1
<1>7. ASSUME NEW h \in 1..(n + 1)
      PROVE  \E p \in 1..(n + 1) : IsLast(new, n + 1, h, p)
  <2> HIDE DEF new
  <2>1. CASE h = n + 1
    <3>1. last \in 1..(n + 1) /\ new[last] = h
      BY <1>1, <1>3, <1>4, <2>1
    <3>2. ASSUME NEW q \in 1..(n + 1), new[q] = h
          PROVE  q = last
      BY <1>2, <1>3, <1>4, <2>1, <3>2
    <3> QED
      BY <3>1, <3>2 DEF IsLast
  <2>2. CASE h = cur
    <3>1. n + 1 \in 1..(n + 1) /\ new[n + 1] = h
      BY <1>1, <1>3, <2>2
    <3>2. ASSUME NEW q \in 1..(n + 1), new[q] = h
          PROVE  q = n + 1
      BY <1>2, <1>3, <1>4, <2>2, <3>2 DEF IsLast
    <3> QED
      BY <3>1, <3>2 DEF IsLast
  <2>3. CASE h # n + 1 /\ h # cur
    <3>1. h \in 1..n
      BY <1>2, <2>3
    <3>2. PICK p \in 1..n : IsLast(nxt, n, h, p)
      BY <3>1 DEF Ring
    <3>3. p \in 1..(n + 1) /\ p # n + 1 /\ p # last
      BY <1>4, <2>3, <3>2 DEF IsLast
    <3>4. new[p] = h
      BY <1>3, <3>2, <3>3 DEF IsLast
    <3>5. ASSUME NEW q \in 1..(n + 1), new[q] = h
          PROVE  q = p
      BY <1>2, <1>3, <2>3, <3>2, <3>5 DEF IsLast
    <3> QED
      BY <3>3, <3>4, <3>5 DEF IsLast
  <2> QED
    BY <2>1, <2>2, <2>3
<1>8. n + 1 \in Nat
  BY <1>1
<1> HIDE DEF new
<1>9. Ring(new, n + 1)
  BY <1>6, <1>7, <1>8 DEF Ring
<1> QED
  BY <1>9 DEF new

\* A set of hosts, with hosts, that going to the next one does not leave.
NotLeft(S, nxt, n) == S \in SUBSET (1..n) /\ S # {} /\ \A h \in S : nxt[h] \in S

\* The n hosts are one cycle.
OneCycle(nxt, n) == \A S : NotLeft(S, nxt, n) => S = 1..n

\* One number more.
LEMMA OneMore == \A n \in Nat : n + 1 \notin 1..n /\ 1..(n + 1) = 1..n \cup {n + 1}
  OBVIOUS

\* Splicing in a host before cur keeps one cycle: a set that the new ring does not
\* leave has the new host, and without it is one that the old ring does not leave.
LEMMA SpliceKeepsCycle ==
  ASSUME NEW n, NEW nxt, Ring(nxt, n), OneCycle(nxt, n), NEW cur \in 1..n,
         NEW last, IsLast(nxt, n, cur, last)
  PROVE  OneCycle(Spliced(nxt, n, last, cur), n + 1)
<1> DEFINE new == Spliced(nxt, n, last, cur)
<1>1. /\ n \in Nat /\ nxt \in [1..n -> 1..n] /\ last \in 1..n /\ nxt[last] = cur
      /\ n + 1 \notin 1..n /\ 1..(n + 1) = 1..n \cup {n + 1}
  <2>1. n \in Nat /\ nxt \in [1..n -> 1..n] /\ last \in 1..n /\ nxt[last] = cur
    BY DEF Ring, IsLast
  <2>2. n + 1 \notin 1..n /\ 1..(n + 1) = 1..n \cup {n + 1}
    BY OneMore DEF Ring
  <2> QED
    BY <2>1, <2>2
<1>2. /\ new[n + 1] = cur /\ new[last] = n + 1
      /\ \A h \in 1..n : h # last => new[h] = nxt[h]
  BY <1>1 DEF Spliced
<1> SUFFICES ASSUME NEW S, NotLeft(S, new, n + 1) PROVE S = 1..(n + 1)
  BY DEF OneCycle
<1> HIDE DEF new
<1>3. S \subseteq 1..n \cup {n + 1} /\ S # {} /\ \A h \in S : new[h] \in S
  BY <1>1 DEF NotLeft
<1>4. n + 1 \in S
  <2> SUFFICES ASSUME n + 1 \notin S PROVE FALSE
    OBVIOUS
  <2>1. last \notin S /\ S \subseteq 1..n
    BY <1>2, <1>3
  <2>2. NotLeft(S, nxt, n)
    BY <1>2, <1>3, <2>1 DEF NotLeft
  <2> QED
    BY <1>1, <2>1, <2>2 DEF OneCycle
<1>5. NotLeft(S \ {n + 1}, nxt, n)
  <2>1. cur \in S \ {n + 1} /\ S \ {n + 1} \subseteq 1..n
    <3>1. cur \in S
      BY <1>2, <1>3, <1>4
    <3>2. cur # n + 1
      BY <1>1
    <3> QED
      BY <1>3, <3>1, <3>2
  <2>2. ASSUME NEW h \in S \ {n + 1} PROVE nxt[h] \in S \ {n + 1}
    <3>1. h \in 1..n /\ h \in S /\ nxt[h] \in 1..n
      BY <1>1, <2>1
    <3>2. nxt[h] # n + 1
      BY <1>1, <3>1, Zenon
    <3>3. CASE h = last
      BY <1>1, <2>1, <3>3
    <3>4. CASE h # last
      <4>1. nxt[h] \in S
        BY <1>2, <1>3, <3>1, <3>4
      <4> QED
        BY <3>2, <4>1
    <3> QED
      BY <3>3, <3>4
  <2> QED
    BY <2>1, <2>2 DEF NotLeft
<1>6. S \ {n + 1} = 1..n
  BY <1>5 DEF OneCycle
<1> QED
  BY <1>1, <1>3, <1>4, <1>6

\* host_add gives a ring with one host more, which follows Last.
LEMMA HostAddKeepsRing ==
  ASSUME NEW n, NEW nxt, Ring(nxt, n), NEW cur \in 1..n
  PROVE  /\ Ring(host_add(nxt, cur, n + 1), n + 1)
         /\ host_add(nxt, cur, n + 1)[Last(nxt, cur)] = n + 1
         /\ OneCycle(nxt, n) => OneCycle(host_add(nxt, cur, n + 1), n + 1)
<1>1. IsLast(nxt, n, cur, Last(nxt, cur))
  BY LastPrecedes
<1>2. /\ DOMAIN nxt \cup {n + 1} = 1..(n + 1) /\ n + 1 \notin 1..n
  <2>1. n \in Nat /\ DOMAIN nxt = 1..n
    BY DEF Ring
  <2> QED
    BY <2>1, OneMore, Zenon
<1>3. host_add(nxt, cur, n + 1) = Spliced(nxt, n, Last(nxt, cur), cur)
  BY <1>2 DEF host_add, Spliced
<1>4. Ring(Spliced(nxt, n, Last(nxt, cur), cur), n + 1)
  BY <1>1, SpliceKeepsRing
<1>5. Last(nxt, cur) \in 1..(n + 1) /\ Last(nxt, cur) # n + 1
  <2>1. Last(nxt, cur) \in 1..n /\ n \in Nat
    BY <1>1 DEF IsLast, Ring
  <2> QED
    BY <1>2, <2>1
<1>6. OneCycle(nxt, n) => OneCycle(Spliced(nxt, n, Last(nxt, cur), cur), n + 1)
  BY <1>1, SpliceKeepsCycle
<1> QED
  BY <1>3, <1>4, <1>5, <1>6 DEF Spliced

\* The hosts of the configuration are a ring.
LEMMA ConfRingIsRing == Ring(ConfRing, conf_hosts)
<1> USE LimitsAssumption
<1>1. ConfRing \in [1..conf_hosts -> 1..conf_hosts]
  BY DEF ConfRing
<1>2. ASSUME NEW h \in 1..conf_hosts
      PROVE  \E p \in 1..conf_hosts : IsLast(ConfRing, conf_hosts, h, p)
  <2>1. CASE h = 1
    <3>1. IsLast(ConfRing, conf_hosts, h, conf_hosts)
      BY <2>1 DEF ConfRing, IsLast
    <3> QED
      BY <3>1
  <2>2. CASE h # 1
    <3>1. h - 1 \in 1..conf_hosts /\ h - 1 # conf_hosts
      BY <2>2
    <3>2. IsLast(ConfRing, conf_hosts, h, h - 1)
      BY <2>2, <3>1 DEF ConfRing, IsLast
    <3> QED
      BY <3>1, <3>2
  <2> QED
    BY <2>1, <2>2
<1> QED
  BY <1>1, <1>2 DEF Ring

\* The hosts of the configuration are one cycle: with a host, a set that going to the
\* next one does not leave has all up to the last, and so the first and all.
LEMMA ConfRingIsCycle == OneCycle(ConfRing, conf_hosts)
<1> USE LimitsAssumption
<1>1. /\ ConfRing[conf_hosts] = 1 /\ conf_hosts \in 1..conf_hosts
      /\ \A h \in 1..conf_hosts : h # conf_hosts => ConfRing[h] = h + 1 /\ h + 1 \in 1..conf_hosts
  BY DEF ConfRing
<1> SUFFICES ASSUME NEW S, NotLeft(S, ConfRing, conf_hosts) PROVE S = 1..conf_hosts
  BY DEF OneCycle
<1>2. S \subseteq 1..conf_hosts /\ S # {} /\ \A h \in S : ConfRing[h] \in S
  BY DEF NotLeft
<1>3. conf_hosts \in S
  <2> DEFINE left == {conf_hosts - h : h \in S}
  <2>1. left \in SUBSET Nat /\ left # {}
    <3>1. \A h \in S : conf_hosts - h \in Nat
      BY <1>2
    <3> QED
      BY <1>2, <3>1
  <2>2. PICK m \in left : \A x \in left : m <= x
    BY <2>1, LeastExists
  <2>3. PICK h \in S : m = conf_hosts - h
    BY <2>2
  <2>4. \A i \in S : conf_hosts - i \in left
    OBVIOUS
  <2>5. \A i \in S : m <= conf_hosts - i
    BY <2>2, <2>4
  <2>6. h # conf_hosts => h + 1 \in S
    BY <1>1, <1>2
  <2>7. h \in 1..conf_hosts
    BY <1>2
  <2>8. h + 1 \in S => FALSE
    BY <2>3, <2>5, <2>7
  <2> QED
    BY <2>6, <2>8
<1>4. 1 \in S
  BY <1>1, <1>2, <1>3
<1>5. (1..conf_hosts) \ S = {}
  <2> SUFFICES ASSUME (1..conf_hosts) \ S # {} PROVE FALSE
    OBVIOUS
  <2>1. (1..conf_hosts) \ S \in SUBSET Nat
    OBVIOUS
  <2>2. PICK m \in (1..conf_hosts) \ S : \A x \in (1..conf_hosts) \ S : m <= x
    BY <2>1, LeastExists
  <2>3. m # 1 /\ m \in 1..conf_hosts
    BY <1>4
  <2>4. m - 1 \in 1..conf_hosts /\ m - 1 # conf_hosts /\ (m - 1) + 1 = m /\ ~(m <= m - 1)
    BY <2>3
  <2>5. m - 1 \in S
    BY <2>2, <2>4
  <2> QED
    BY <1>1, <1>2, <2>2, <2>4, <2>5
<1> QED
  BY <1>2, <1>5

-----------------------------------------------------------------------------
(* Type correctness, with the ring: host_current and target follow next, so   *)
(* that their types rest on its shape.                                        *)

\* host_current and target stay on the ring, and the ring a ring.
TInv == RingOK /\ Ring(next, host_num)

\* The ring of the configuration, with host_current on it.
LEMMA TInvInit == Init => TInv
<1> SUFFICES ASSUME Init PROVE TInv
  OBVIOUS
<1>1. Ring(next, host_num)
  BY ConfRingIsRing DEF Init
<1>2. next \in [1..host_num -> 1..host_num]
  BY <1>1 DEF Ring
<1> QED
  BY <1>1, <1>2, LimitsAssumption DEF Init, RingOK, TInv

\* Only !server changes the ring; the rest moves along it.
LEMMA TInvStep == TInv /\ [Next]_vars => TInv'
<1> SUFFICES ASSUME TInv, [Next]_vars PROVE TInv'
  OBVIOUS
<1> USE DEF TInv, RingOK, ring, history, asked, link, Same
<1>a. next[host_current] \in 1..host_num /\ 0 \in 0..host_num /\ host_current \in 0..host_num
        /\ next[host_current] \in 0..host_num
  BY LimitsAssumption
<1>1. CASE Tick
  BY <1>1 DEF Tick, Older
<1>2. ASSUME NEW j \in DateChanges, ChangeDate(j) PROVE TInv'
  BY <1>2 DEF ChangeDate, Older
<1>3. CASE WorkIdle
  BY <1>3, <1>a DEF WorkIdle, Connect
<1>4. CASE WorkConnecting
  BY <1>4, <1>a DEF WorkConnecting
<1>5. CASE Lose
  BY <1>5, <1>a DEF Lose
<1>6. CASE WorkStoned
  BY <1>6, <1>5 DEF WorkStoned
<1>7. CASE WorkQuiet
  BY <1>7 DEF WorkQuiet
<1>8. CASE reply_init
  BY <1>8 DEF reply_init
<1>9. CASE reply_nicknameinuse
  BY <1>9, <1>a DEF reply_nicknameinuse, Connect
<1>10. CASE event_error
  <2>1. next[next[host_current]] \in 1..host_num
    BY <1>a
  <2> QED
    BY <1>10, <1>a, <2>1 DEF event_error, Connect
<1>11. CASE scriptcmd_server_next
  BY <1>11 DEF scriptcmd_server_next
<1>12. CASE scriptcmd_server
  <2>1. /\ Ring(host_add(next, host_current, host_num + 1), host_num + 1)
        /\ IsLast(next, host_num, host_current, Last(next, host_current))
    BY HostAddKeepsRing, LastPrecedes
  <2>2. Ring(next', host_num')
    BY <1>12, <2>1 DEF scriptcmd_server
  <2>3. next' \in [1..host_num' -> 1..host_num']
    BY <2>2 DEF Ring
  <2>4. /\ Last(next, host_current) \in 1..(host_num + 1)
        /\ host_num + 1 \in conf_hosts..MaxHosts /\ host_num + 1 \in 0..(host_num + 1)
    BY <1>12, <2>1, LimitsAssumption DEF IsLast, scriptcmd_server
  <2>5. /\ host_num' = host_num + 1 /\ target' = host_num + 1
        /\ host_current' = Last(next, host_current)
    BY <1>12 DEF scriptcmd_server
  <2> QED
    BY <2>2, <2>3, <2>4, <2>5
<1>13. ASSUME NEW present \in BOOLEAN, Services(present) PROVE TInv'
  BY <1>13 DEF Services
<1>14. ASSUME NEW c \in Channels, OwnJoin(c) \/ OwnLeave(c) PROVE TInv'
  BY <1>14 DEF OwnJoin, OwnLeave
<1>15. ASSUME NEW u \in Users, NEW id \in BOOLEAN, SetId(u, id) PROVE TInv'
  BY <1>15 DEF SetId
<1>16. CASE UNCHANGED vars
  BY <1>16 DEF vars
<1> QED
  BY <1>1, <1>2, <1>3, <1>4, <1>5, <1>6, <1>7, <1>8, <1>9,
     <1>10, <1>11, <1>12, <1>13, <1>14, <1>15, <1>16 DEF Next, work, WorkReadError

\* The ages stay integers: time passes, jumps, or is read again.
LEMMA ClockStep == ClockOK /\ [Next]_vars => ClockOK'
<1> SUFFICES ASSUME ClockOK, [Next]_vars PROVE ClockOK'
  OBVIOUS
<1> USE DEF ClockOK, history, asked, Same, Line, NoLine
<1>1. CASE Tick
  BY <1>1, LimitsAssumption, AgeCapAssumption DEF Tick, Older
<1>2. ASSUME NEW j \in DateChanges, ChangeDate(j) PROVE ClockOK'
  BY <1>2, LimitsAssumption, AgeCapAssumption DEF ChangeDate, Older
<1>3. CASE WorkIdle
  BY <1>3 DEF WorkIdle, Connect
<1>4. CASE WorkConnecting
  BY <1>4 DEF WorkConnecting
<1>5. CASE Lose
  BY <1>5 DEF Lose
<1>6. CASE WorkStoned
  BY <1>6, LimitsAssumption, AgeCapAssumption, <1>5 DEF WorkStoned
<1>7. CASE WorkQuiet
  BY <1>7 DEF WorkQuiet
<1>8. CASE reply_init
  BY <1>8 DEF reply_init
<1>9. CASE reply_nicknameinuse
  BY <1>9, LimitsAssumption, AgeCapAssumption DEF reply_nicknameinuse, Connect
<1>10. CASE event_error
  BY <1>10, LimitsAssumption, AgeCapAssumption DEF event_error, Connect
<1>11. CASE scriptcmd_server_next
  BY <1>11 DEF scriptcmd_server_next
<1>12. CASE scriptcmd_server
  BY <1>12 DEF scriptcmd_server
<1>13. ASSUME NEW present \in BOOLEAN, Services(present) PROVE ClockOK'
  BY <1>13 DEF Services
<1>14. ASSUME NEW c \in Channels, OwnJoin(c) \/ OwnLeave(c) PROVE ClockOK'
  BY <1>14 DEF OwnJoin, OwnLeave
<1>15. ASSUME NEW u \in Users, NEW id \in BOOLEAN, SetId(u, id) PROVE ClockOK'
  BY <1>15 DEF SetId
<1>16. CASE UNCHANGED vars
  BY <1>16 DEF vars
<1> QED
  BY <1>1, <1>2, <1>3, <1>4, <1>5, <1>6, <1>7, <1>8, <1>9,
     <1>10, <1>11, <1>12, <1>13, <1>14, <1>15, <1>16 DEF Next, work, WorkReadError

\* The sets of the session stay sets of channels and users.
LEMMA SessionStep == SessionOK /\ [Next]_vars => SessionOK'
<1> SUFFICES ASSUME SessionOK, [Next]_vars PROVE SessionOK'
  OBVIOUS
<1> USE DEF SessionOK, link, session, Same, irc_restart
<1>1. CASE Tick
  BY <1>1 DEF Tick, Older
<1>2. ASSUME NEW j \in DateChanges, ChangeDate(j) PROVE SessionOK'
  BY <1>2 DEF ChangeDate, Older
<1>3. CASE WorkIdle
  BY <1>3 DEF WorkIdle, Connect
<1>4. CASE WorkConnecting
  BY <1>4 DEF WorkConnecting
<1>5. CASE Lose
  BY <1>5 DEF Lose
<1>6. CASE WorkStoned
  BY <1>6, <1>5 DEF WorkStoned
<1>7. CASE WorkQuiet
  BY <1>7 DEF WorkQuiet
<1>8. CASE reply_init
  BY <1>8 DEF reply_init
<1>9. CASE reply_nicknameinuse
  BY <1>9 DEF reply_nicknameinuse, Connect
<1>10. CASE event_error
  BY <1>10 DEF event_error, Connect
<1>11. CASE scriptcmd_server_next
  BY <1>11 DEF scriptcmd_server_next
<1>12. CASE scriptcmd_server
  BY <1>12 DEF scriptcmd_server
<1>13. ASSUME NEW present \in BOOLEAN, Services(present) PROVE SessionOK'
  BY <1>13 DEF Services
<1>14. ASSUME NEW c \in Channels, OwnJoin(c) \/ OwnLeave(c) PROVE SessionOK'
  BY <1>14 DEF OwnJoin, OwnLeave
<1>15. ASSUME NEW u \in Users, NEW id \in BOOLEAN, SetId(u, id) PROVE SessionOK'
  BY <1>15 DEF SetId
<1>16. CASE UNCHANGED vars
  BY <1>16 DEF vars
<1> QED
  BY <1>1, <1>2, <1>3, <1>4, <1>5, <1>6, <1>7, <1>8, <1>9,
     <1>10, <1>11, <1>12, <1>13, <1>14, <1>15, <1>16 DEF Next, work, WorkReadError

\* The flags stay flags.
LEMMA FlagsStep == FlagsOK /\ [Next]_vars => FlagsOK'
<1> SUFFICES ASSUME FlagsOK, [Next]_vars PROVE FlagsOK'
  OBVIOUS
<1> USE DEF FlagsOK, link, session, history, asked, Same, irc_restart
<1>1. CASE Tick
  BY <1>1, Zenon DEF Tick
<1>2. ASSUME NEW j \in DateChanges, ChangeDate(j) PROVE FlagsOK'
  BY <1>2, Zenon DEF ChangeDate
<1>3. CASE WorkIdle
  BY <1>3, Zenon DEF WorkIdle, Connect
<1>4. CASE WorkConnecting
  BY <1>4, Zenon DEF WorkConnecting
<1>5. CASE Lose
  BY <1>5, LimitsAssumption, Zenon DEF Lose
<1>6. CASE WorkStoned
  BY <1>5, <1>6, Zenon DEF WorkStoned
<1>7. CASE WorkQuiet
  BY <1>7, Zenon DEF WorkQuiet
<1>8. CASE reply_init
  BY <1>8, Zenon DEF reply_init
<1>9. CASE reply_nicknameinuse
  BY <1>9, LimitsAssumption, Zenon DEF reply_nicknameinuse, Connect
<1>10. CASE event_error
  BY <1>10, LimitsAssumption, Zenon DEF event_error, Connect
<1>11. CASE scriptcmd_server_next \/ scriptcmd_server
  BY <1>11, Zenon DEF scriptcmd_server_next, scriptcmd_server
<1>12. ASSUME NEW present \in BOOLEAN, Services(present) PROVE FlagsOK'
  BY <1>12, Zenon DEF Services
<1>13. ASSUME NEW c \in Channels, OwnJoin(c) \/ OwnLeave(c) PROVE FlagsOK'
  BY <1>13, Zenon DEF OwnJoin, OwnLeave
<1>14. ASSUME NEW u \in Users, NEW id \in BOOLEAN, SetId(u, id) PROVE FlagsOK'
  BY <1>14, Zenon DEF SetId
<1>15. CASE UNCHANGED vars
  BY <1>15, Zenon DEF vars
<1> QED
  BY <1>1, <1>2, <1>3, <1>4, <1>5, <1>6, <1>7, <1>8, <1>9, <1>10, <1>11, <1>12,
     <1>13, <1>14, <1>15, Zenon DEF Next, work, WorkReadError

\* The state keeps its types, and host_current stays on the ring, whatever is
\* heard or not heard from the server.
THEOREM TypeCorrect == Spec => []TypeOK
<1>1. Init => FlagsOK
  BY LimitsAssumption, Zenon DEF Init, FlagsOK
<1>2. Init => ClockOK /\ SessionOK
  BY LimitsAssumption, AgeCapAssumption DEF Init, ClockOK, SessionOK
<1>3. TInv /\ FlagsOK /\ ClockOK /\ SessionOK => TypeOK
  BY DEF TInv, TypeOK
<1> QED
  BY <1>1, <1>2, <1>3, TInvInit, TInvStep, FlagsStep, ClockStep, SessionStep, PTL
     DEF Spec

\* However many hosts !server adds, next to whichever the bot is at: the hosts are
\* one cycle, and the bot that goes to the next one comes to all of them.
THEOREM RingStaysWhole == Spec => []RingIsOneCycle
<1> DEFINE IInv == TInv /\ OneCycle(next, host_num)
<1>1. Init => IInv
  BY TInvInit, ConfRingIsCycle DEF Init
<1>2. IInv /\ [Next]_vars => IInv'
  <2> SUFFICES ASSUME TInv, OneCycle(next, host_num), [Next]_vars PROVE OneCycle(next, host_num)'
    BY TInvStep
  <2>1. CASE UNCHANGED ring
    BY <2>1 DEF ring
  <2>2. CASE scriptcmd_server
    <3>1. OneCycle(host_add(next, host_current, host_num + 1), host_num + 1)
      BY HostAddKeepsRing DEF TInv, RingOK
    <3> QED
      BY <2>2, <3>1 DEF scriptcmd_server
  <2>3. UNCHANGED ring \/ scriptcmd_server
    BY DEF Next, vars, work, WorkReadError, Tick, ChangeDate, WorkIdle, Connect, WorkConnecting, Lose,
           WorkStoned, WorkQuiet, reply_init, reply_nicknameinuse, event_error,
           scriptcmd_server_next, Services, OwnJoin, OwnLeave, SetId, ring, Same
  <2> QED
    BY <2>1, <2>2, <2>3
<1>3. IInv => RingIsOneCycle
  BY DEF OneCycle, NotLeft, RingIsOneCycle
<1> QED
  BY <1>1, <1>2, <1>3, PTL DEF Spec

-----------------------------------------------------------------------------
(* The descriptor and the session follow the connection. *)

SInv == SocketMatchesFlags /\ SessionEndsWithConnection

\* Whatever ends a connection closes the socket and clears the session.
LEMMA SInvStep == SInv /\ [Next]_vars => SInv'
<1> SUFFICES ASSUME SInv, [Next]_vars PROVE SInv'
  OBVIOUS
<1> USE DEF SInv, SocketMatchesFlags, SessionEndsWithConnection, link, session, Same, irc_restart
<1>1. CASE Tick
  BY <1>1 DEF Tick
<1>2. ASSUME NEW j \in DateChanges, ChangeDate(j) PROVE SInv'
  BY <1>2 DEF ChangeDate
<1>3. CASE WorkIdle
  BY <1>3 DEF WorkIdle, Connect
<1>4. CASE WorkConnecting
  <2>1. CASE UNCHANGED link
    BY <1>4, <2>1 DEF WorkConnecting
  <2>2. CASE sock' = "none" /\ connecting' = FALSE /\ UNCHANGED connected
    BY <1>4, <2>2 DEF WorkConnecting
  <2>3. CASE connecting' = FALSE /\ connected' = TRUE /\ UNCHANGED sock
    BY <1>4, <2>3 DEF WorkConnecting
  <2> QED
    BY <1>4, <2>1, <2>2, <2>3 DEF WorkConnecting
<1>5. CASE connected /\ Lose
  BY <1>5 DEF Lose
<1>6. CASE WorkStoned
  <2>1. CASE UNCHANGED <<link, session>>
    BY <2>1
  <2> QED
    BY <1>5, <1>6, <2>1 DEF WorkStoned
<1>7. CASE WorkQuiet
  BY <1>7 DEF WorkQuiet
<1>8. CASE reply_init
  BY <1>8 DEF reply_init
<1>9. CASE reply_nicknameinuse
  BY <1>9 DEF reply_nicknameinuse, Connect
<1>10. CASE event_error
  BY <1>10 DEF event_error, Connect
<1>11. CASE scriptcmd_server_next
  BY <1>11 DEF scriptcmd_server_next
<1>12. CASE scriptcmd_server
  BY <1>12 DEF scriptcmd_server
<1>13. ASSUME NEW present \in BOOLEAN, Services(present) PROVE SInv'
  BY <1>13 DEF Services
<1>14. ASSUME NEW c \in Channels, OwnJoin(c) \/ OwnLeave(c) PROVE SInv'
  BY <1>14 DEF OwnJoin, OwnLeave
<1>15. ASSUME NEW u \in Users, NEW id \in BOOLEAN, SetId(u, id) PROVE SInv'
  BY <1>15 DEF SetId
<1>16. CASE UNCHANGED vars
  BY <1>16 DEF vars
<1> QED
  BY <1>1, <1>2, <1>3, <1>4, <1>5, <1>6, <1>7, <1>8, <1>9,
     <1>10, <1>11, <1>12, <1>13, <1>14, <1>15, <1>16 DEF Next, work, WorkReadError

\* The descriptor is open exactly while the flags say so: none is leaked, and
\* create_tcp never overwrites one that is open.
THEOREM SocketFollowsFlags == Spec => []SocketMatchesFlags
<1>1. Init => SInv
  BY DEF Init, SInv, SocketMatchesFlags, SessionEndsWithConnection
<1>2. SInv => SocketMatchesFlags
  BY DEF SInv
<1> QED
  BY <1>1, <1>2, SInvStep, PTL DEF Spec

\* However a connection ends, irc_restart leaves nothing of its session.
THEOREM SessionEnds == Spec => []SessionEndsWithConnection
<1>1. Init => SInv
  BY DEF Init, SInv, SocketMatchesFlags, SessionEndsWithConnection
<1>2. SInv => SessionEndsWithConnection
  BY DEF SInv
<1> QED
  BY <1>1, <1>2, SInvStep, PTL DEF Spec

-----------------------------------------------------------------------------
(* Waiting before a connection is begun.  The history idle and the age of     *)
(* last_try agree in every state; the !server jump sets last_try back and      *)
(* spends it in the same step.                                                 *)

IdleIsTryAge == idle = try_age

\* last_try is set where an attempt or a loss sets idle.
LEMMA IdleStep == IdleIsTryAge /\ [Next]_vars => IdleIsTryAge'
<1> SUFFICES ASSUME IdleIsTryAge, [Next]_vars PROVE IdleIsTryAge'
  OBVIOUS
<1> USE DEF IdleIsTryAge, history, asked, Same
<1>1. CASE Tick
  BY <1>1 DEF Tick, Older
<1>2. ASSUME NEW j \in DateChanges, ChangeDate(j) PROVE IdleIsTryAge'
  BY <1>2 DEF ChangeDate, Older
<1>3. CASE WorkIdle
  BY <1>3 DEF WorkIdle, Connect
<1>4. CASE WorkConnecting
  BY <1>4 DEF WorkConnecting
<1>5. CASE connected /\ Lose
  BY <1>5 DEF Lose
<1>6. CASE WorkStoned
  BY <1>6, <1>5 DEF WorkStoned
<1>7. CASE WorkQuiet
  BY <1>7 DEF WorkQuiet
<1>8. CASE reply_init
  BY <1>8 DEF reply_init
<1>9. CASE reply_nicknameinuse
  BY <1>9 DEF reply_nicknameinuse, Connect
<1>10. CASE event_error
  BY <1>10, LimitsAssumption DEF event_error, Connect
<1>11. CASE scriptcmd_server_next
  BY <1>11 DEF scriptcmd_server_next
<1>12. CASE scriptcmd_server
  BY <1>12 DEF scriptcmd_server
<1>13. ASSUME NEW present \in BOOLEAN, Services(present) PROVE IdleIsTryAge'
  BY <1>13 DEF Services
<1>14. ASSUME NEW c \in Channels, OwnJoin(c) \/ OwnLeave(c) PROVE IdleIsTryAge'
  BY <1>14 DEF OwnJoin, OwnLeave
<1>15. ASSUME NEW u \in Users, NEW id \in BOOLEAN, SetId(u, id) PROVE IdleIsTryAge'
  BY <1>15 DEF SetId
<1>16. CASE UNCHANGED vars
  BY <1>16 DEF vars
<1> QED
  BY <1>1, <1>2, <1>3, <1>4, <1>5, <1>6, <1>7, <1>8, <1>9,
     <1>10, <1>11, <1>12, <1>13, <1>14, <1>15, <1>16 DEF Next, work, WorkReadError

\* A step that begins a connection found last_try old, or was told to jump.
LEMMA RetryStep == IdleIsTryAge /\ [Next]_vars => BeginsInTime
<1> SUFFICES ASSUME IdleIsTryAge, [Next]_vars PROVE BeginsInTime
  OBVIOUS
<1> USE DEF IdleIsTryAge, BeginsInTime, link, Same
<1>1. CASE Tick
  BY <1>1 DEF Tick
<1>2. ASSUME NEW j \in DateChanges, ChangeDate(j) PROVE BeginsInTime
  BY <1>2 DEF ChangeDate
<1>3. CASE WorkIdle
  BY <1>3 DEF WorkIdle, Connect
<1>4. CASE WorkConnecting
  BY <1>4 DEF WorkConnecting
<1>5. CASE connected /\ Lose
  BY <1>5 DEF Lose
<1>6. CASE WorkStoned
  BY <1>6, <1>5 DEF WorkStoned
<1>7. CASE WorkQuiet
  BY <1>7 DEF WorkQuiet
<1>8. CASE reply_init
  BY <1>8 DEF reply_init
<1>9. CASE reply_nicknameinuse
  BY <1>9 DEF reply_nicknameinuse, Connect
<1>10. CASE event_error
  BY <1>10, LimitsAssumption DEF event_error, Connect
<1>11. CASE scriptcmd_server_next
  BY <1>11 DEF scriptcmd_server_next
<1>12. CASE scriptcmd_server
  BY <1>12 DEF scriptcmd_server
<1>13. ASSUME NEW present \in BOOLEAN, Services(present) PROVE BeginsInTime
  BY <1>13 DEF Services
<1>14. ASSUME NEW c \in Channels, OwnJoin(c) \/ OwnLeave(c) PROVE BeginsInTime
  BY <1>14 DEF OwnJoin, OwnLeave
<1>15. ASSUME NEW u \in Users, NEW id \in BOOLEAN, SetId(u, id) PROVE BeginsInTime
  BY <1>15 DEF SetId
<1>16. CASE UNCHANGED vars
  BY <1>16 DEF vars
<1> QED
  BY <1>1, <1>2, <1>3, <1>4, <1>5, <1>6, <1>7, <1>8, <1>9,
     <1>10, <1>11, <1>12, <1>13, <1>14, <1>15, <1>16 DEF Next, work, WorkReadError

\* A connection is begun only TIME_RETRY after the last attempt or loss, or by
\* the ERROR that answers a !server.
THEOREM RetryWaits == Spec => WaitsToReconnect
<1>1. Init => IdleIsTryAge
  BY DEF Init, IdleIsTryAge
<1>2. IdleIsTryAge /\ [Next]_vars
        => [BeginsInTime]_vars
  BY RetryStep
<1> QED
  BY <1>1, <1>2, IdleStep, PTL DEF Spec, WaitsToReconnect

-----------------------------------------------------------------------------
(* !server <hostname>.  host_add keeps the new host right after the one the    *)
(* command leaves in host_current, so whatever ends the connection goes on to  *)
(* it, or to the one before it and then to it.                                 *)

\* Each way on from a !server <hostname> keeps the new host next, or tries it.
LEMMA JumpStep == TInv /\ JumpGoesThere /\ [Next]_vars => JumpGoesThere'
<1> SUFFICES ASSUME TInv, JumpGoesThere, [Next]_vars PROVE JumpGoesThere'
  OBVIOUS
<1> USE DEF TInv, RingOK, JumpGoesThere, link, ring, history, asked, Same
<1>1. CASE Tick
  BY <1>1 DEF Tick
<1>2. ASSUME NEW j \in DateChanges, ChangeDate(j) PROVE JumpGoesThere'
  BY <1>2 DEF ChangeDate
<1>3. CASE WorkIdle
  BY <1>3 DEF WorkIdle, Connect
<1>4. CASE WorkConnecting
  BY <1>4 DEF WorkConnecting
<1>5. CASE connected /\ Lose
  BY <1>5 DEF Lose
<1>6. CASE WorkStoned
  BY <1>6, <1>5 DEF WorkStoned
<1>7. CASE WorkQuiet
  BY <1>7 DEF WorkQuiet
<1>8. CASE reply_init
  BY <1>8 DEF reply_init
<1>9. CASE reply_nicknameinuse
  BY <1>9 DEF reply_nicknameinuse, Connect
<1>10. CASE event_error
  BY <1>10 DEF event_error, Connect
<1>11. CASE scriptcmd_server_next
  BY <1>11 DEF scriptcmd_server_next
<1>12. CASE scriptcmd_server
  <2>1. host_add(next, host_current, host_num + 1)[Last(next, host_current)] = host_num + 1
    BY HostAddKeepsRing
  <2> QED
    BY <1>12, <2>1 DEF scriptcmd_server
<1>13. ASSUME NEW present \in BOOLEAN, Services(present) PROVE JumpGoesThere'
  BY <1>13 DEF Services
<1>14. ASSUME NEW c \in Channels, OwnJoin(c) \/ OwnLeave(c) PROVE JumpGoesThere'
  BY <1>14 DEF OwnJoin, OwnLeave
<1>15. ASSUME NEW u \in Users, NEW id \in BOOLEAN, SetId(u, id) PROVE JumpGoesThere'
  BY <1>15 DEF SetId
<1>16. CASE UNCHANGED vars
  BY <1>16 DEF vars
<1> QED
  BY <1>1, <1>2, <1>3, <1>4, <1>5, <1>6, <1>7, <1>8, <1>9,
     <1>10, <1>11, <1>12, <1>13, <1>14, <1>15, <1>16 DEF Next, work, WorkReadError

\* Whatever ends the connection after a !server <hostname>, the bot goes to the host
\* asked for, and only a nick collision has it try the one before it first.
THEOREM JumpReaches == Spec => []JumpGoesThere
<1>1. Init => TInv /\ JumpGoesThere
  BY TInvInit DEF Init, JumpGoesThere
<1> QED
  BY <1>1, TInvStep, JumpStep, PTL DEF Spec

-----------------------------------------------------------------------------
(* The silence limit.  time_read is at most as old as the silence and what the *)
(* date was set ahead; quiet - gap is the age that work last saw, and a        *)
(* connection is established before that reaches the limit, but for the same.  *)

QuietInv ==
  /\ quiet \in Int /\ silence \in 0..AgeCap /\ ahead \in Nat
  /\ quiet <= silence + ahead \/ silence = AgeCap

\* time_read is no older than the silence, but for what the date was set ahead.
LEMMA QuietStep == QuietInv /\ [Next]_vars => QuietInv'
<1> SUFFICES ASSUME QuietInv, [Next]_vars PROVE QuietInv'
  OBVIOUS
<1> USE DEF QuietInv, Same, history, asked, Line, NoLine
<1> USE LimitsAssumption, AgeCapAssumption
<1>1. CASE Tick
  BY <1>1 DEF Tick, Older
<1>2. ASSUME NEW j \in DateChanges, ChangeDate(j) PROVE QuietInv'
  BY <1>2 DEF ChangeDate
<1>3. CASE WorkIdle
  BY <1>3 DEF WorkIdle, Connect
<1>4. CASE WorkConnecting
  BY <1>4 DEF WorkConnecting
<1>5. CASE connected /\ Lose
  BY <1>5 DEF Lose
<1>6. CASE WorkStoned
  BY <1>6, <1>5 DEF WorkStoned
<1>7. CASE WorkQuiet
  BY <1>7 DEF WorkQuiet
<1>8. CASE reply_init
  BY <1>8 DEF reply_init
<1>9. CASE reply_nicknameinuse
  BY <1>9 DEF reply_nicknameinuse, Connect
<1>10. CASE event_error
  BY <1>10 DEF event_error, Connect
<1>11. CASE scriptcmd_server_next
  BY <1>11 DEF scriptcmd_server_next
<1>12. CASE scriptcmd_server
  BY <1>12 DEF scriptcmd_server
<1>13. ASSUME NEW present \in BOOLEAN, Services(present) PROVE QuietInv'
  BY <1>13 DEF Services
<1>14. ASSUME NEW c \in Channels, OwnJoin(c) \/ OwnLeave(c) PROVE QuietInv'
  BY <1>14 DEF OwnJoin, OwnLeave
<1>15. ASSUME NEW u \in Users, NEW id \in BOOLEAN, SetId(u, id) PROVE QuietInv'
  BY <1>15 DEF SetId
<1>16. CASE UNCHANGED vars
  BY <1>16 DEF vars
<1> QED
  BY <1>1, <1>2, <1>3, <1>4, <1>5, <1>6, <1>7, <1>8, <1>9,
     <1>10, <1>11, <1>12, <1>13, <1>14, <1>15, <1>16 DEF Next, work, WorkReadError

\* No server is declared dead before a real silence of TIME_STONED, less what the
\* date was set ahead since time_read was set, whatever dates and "changetime" are.
THEOREM TimeoutIsReal == Spec => []TimeoutIsEarned
<1>1. Init => QuietInv
  BY LimitsAssumption, AgeCapAssumption DEF Init, QuietInv
<1>2. QuietInv /\ [Next]_vars => QuietInv'
  BY QuietStep
<1>3. QuietInv => TimeoutIsEarned
  BY LimitsAssumption, AgeCapAssumption DEF QuietInv, TimeoutIsEarned, DeclaredDead
<1> QED
  BY <1>1, <1>2, <1>3, PTL DEF Spec

\* The limits leave time to connect.
TimelyBounds == ConnectMax + MaxGap <= TIME_STONED

GapInv ==
  /\ quiet \in Int /\ gap \in Int /\ ahead \in Nat
  /\ gap <= MaxGap + ahead
  /\ connecting /\ ~connected => quiet - gap <= ConnectMax
  /\ connected => quiet - gap <= TIME_STONED + ahead

\* What work saw at its last call is within the limit of each phase.
LEMMA GapStep == TimelyBounds /\ GapInv /\ [Next]_vars => GapInv'
<1> SUFFICES ASSUME TimelyBounds, GapInv, [Next]_vars PROVE GapInv'
  OBVIOUS
<1> USE DEF TimelyBounds, GapInv, Same, link, history, Line, NoLine
<1> USE LimitsAssumption
<1>1. CASE Tick
  BY <1>1 DEF Tick
<1>2. ASSUME NEW j \in DateChanges, ChangeDate(j) PROVE GapInv'
  BY <1>2 DEF ChangeDate
<1>3. CASE WorkIdle
  BY <1>3 DEF WorkIdle, Connect
<1>4. CASE WorkConnecting
  <2>1. quiet - gap <= ConnectMax
    BY <1>4 DEF WorkConnecting
  <2>2. quiet' = quiet /\ gap' = 0 /\ ahead' = ahead
    BY <1>4 DEF WorkConnecting
  <2>3. quiet <= TIME_STONED + ahead
    BY <2>1
  <2>4. (connecting' /\ ~connected') => quiet <= ConnectMax
    BY <1>4 DEF WorkConnecting
  <2> QED
    BY <2>2, <2>3, <2>4
<1>5. CASE connected /\ Lose
  <2>1. ~connecting' /\ ~connected'
    BY <1>5 DEF Lose
  <2>2. quiet' = quiet /\ gap' = 0
    BY <1>5 DEF Lose
  <2>3. ahead' = ahead
    BY <1>5 DEF Lose
  <2> QED
    BY <2>1, <2>2, <2>3
<1>6. CASE WorkStoned
  <2>1. CASE gap <= TIME_WARP
    <3>1. ~(gap > TIME_WARP)
      BY <2>1
    <3>2. connected /\ Lose
      BY <1>6, <3>1, Zenon DEF WorkStoned
    <3> QED
      BY <1>5, <3>2
  <2>2. CASE ~(gap <= TIME_WARP)
    <3>1. /\ quiet' = 0 - change_time /\ gap' = 0 /\ connected' = connected /\ connected
          /\ ahead' = IF quiet' > 0 THEN quiet' ELSE 0
      BY <1>6, <2>2 DEF WorkStoned
    <3>2. ahead' \in Nat /\ quiet' \in Int /\ quiet' <= ahead'
      BY <3>1
    <3> QED
      BY <3>1, <3>2
  <2> QED
    BY <2>1, <2>2
<1>7. CASE WorkQuiet
  BY <1>7 DEF WorkQuiet
<1>8. CASE reply_init
  BY <1>8 DEF reply_init
<1>9. CASE reply_nicknameinuse
  BY <1>9 DEF reply_nicknameinuse, Connect
<1>10. CASE event_error
  BY <1>10 DEF event_error, Connect
<1>11. CASE scriptcmd_server_next
  BY <1>11 DEF scriptcmd_server_next
<1>12. CASE scriptcmd_server
  BY <1>12 DEF scriptcmd_server
<1>13. ASSUME NEW present \in BOOLEAN, Services(present) PROVE GapInv'
  BY <1>13 DEF Services
<1>14. ASSUME NEW c \in Channels, OwnJoin(c) \/ OwnLeave(c) PROVE GapInv'
  BY <1>14 DEF OwnJoin, OwnLeave
<1>15. ASSUME NEW u \in Users, NEW id \in BOOLEAN, SetId(u, id) PROVE GapInv'
  BY <1>15 DEF SetId
<1>16. CASE UNCHANGED vars
  BY <1>16 DEF vars
<1> QED
  BY <1>1, <1>2, <1>3, <1>4, <1>5, <1>6, <1>7, <1>8, <1>9,
     <1>10, <1>11, <1>12, <1>13, <1>14, <1>15, <1>16 DEF Next, work, WorkReadError

\* A connected bot does not stay on a server that it has not heard of.
THEOREM DeadServerLeft == TimelyBounds => (Spec => []DeadServerIsLeft)
<1> SUFFICES ASSUME TimelyBounds PROVE Spec => []DeadServerIsLeft
  OBVIOUS
<1>1. Init => GapInv
  BY LimitsAssumption DEF Init, GapInv
<1>2. GapInv /\ [Next]_vars => GapInv'
  BY GapStep
<1>3. GapInv => DeadServerIsLeft
  BY DEF GapInv, DeadServerIsLeft
<1> QED
  BY <1>1, <1>2, <1>3, PTL DEF Spec

=============================================================================
