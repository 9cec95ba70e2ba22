------------------------------ MODULE ServicesProofs ------------------------------
(***************************************************************************)
(* Proofs about five components of MCServices: FloodControl, for any       *)
(* masks, texts, limits, lines and uses of !set; LogFile, for any size of  *)
(* a file and any number of lines, days and crashes; ChatLog, for any      *)
(* nicks, channels and loggers; Seen, for any nicks, size of the table and *)
(* number of restarts and crashes; and Presence, for any nicks, requests   *)
(* and messages.                                                           *)
(***************************************************************************)
EXTENDS FloodControl, LogFile, ChatLog, Seen, Presence, SequenceLemmas, SequenceTheorems

------------------------------------------------------------------------------
(* The counters of flood.                                                     *)

\* Types, as far as the proofs use them.
Types ==
  /\ last_mask \in Masks \cup {NoMask} /\ last_msg \in Msgs
  /\ mask_num \in Nat /\ msg_num \in Nat /\ warn_num \in Nat
  /\ maxmsg \in Limits /\ maxmask \in Limits /\ maxwarn \in Limits
  /\ did \in {"none", "warn", "kick", "pardon"}
  /\ said \in Nat /\ sets \in Nat
  /\ row \in Nat /\ same \in Nat /\ rowFree \in Nat /\ sameFree \in Nat /\ passed \in BOOLEAN

\* No counter is ahead of the lines that were written.
Counted ==
  said <= MaxSaid /\ mask_num <= said /\ msg_num <= said /\ warn_num <= said

\* A line that was let through was counted.
FreeIsCounted == rowFree <= mask_num /\ sameFree <= msg_num

\* A counter passes its limit only when this is lowered below it.
WithinLimits ==
  ~passed =>
    /\ maxmask # 0 => mask_num <= maxmask
    /\ maxmsg # 0 => msg_num <= maxmsg

\* The counters belong to the mask that wrote last, and count no line twice.  A
\* line that reaches the limit of the mask is not compared with the last one, so
\* that the count of equal lines may be too high from then on.
CountsAreOwn ==
  /\ mask_num <= row
  /\ last_mask \in Masks => mask_num >= 1 /\ msg_num >= 1
  /\ sets = 0 => msg_num <= same \/ (maxmask # 0 /\ row > maxmask)

\* The inductive invariant.
FInv == Types /\ Counted /\ FreeIsCounted /\ WithinLimits /\ CountsAreOwn /\ KickIsEarned

\* The counters of a new channel.
LEMMA InitFInv == ASSUME FloodAssumption, FloodInit PROVE FInv
<1>1. passed \in BOOLEAN
  BY Zenon DEF FloodInit
<1>2. /\ last_mask = NoMask /\ last_msg \in Msgs /\ NoMask \notin Masks
      /\ mask_num = 0 /\ msg_num = 0 /\ warn_num = 0
      /\ maxmsg \in Limits /\ maxmask \in Limits /\ maxwarn \in Limits
      /\ said = 0 /\ sets = 0 /\ did = "none"
      /\ row = 0 /\ same = 0 /\ rowFree = 0 /\ sameFree = 0
  BY Zenon DEF FloodAssumption, FloodInit
<1>3. MaxSaid \in Nat /\ maxmask \in Nat /\ maxmsg \in Nat
  BY <1>2 DEF FloodAssumption
<1>4. Types
  BY <1>1, <1>2 DEF Types
<1>5. Counted /\ FreeIsCounted /\ CountsAreOwn /\ KickIsEarned
  BY <1>2, <1>3 DEF Counted, FreeIsCounted, CountsAreOwn, KickIsEarned
<1>6. (maxmask # 0 => mask_num <= maxmask) /\ (maxmsg # 0 => msg_num <= maxmsg)
  BY <1>2, <1>3
<1>7. WithinLimits
  BY <1>6, Zenon DEF WithinLimits
<1> QED BY <1>4, <1>5, <1>7, Zenon DEF FInv

\* What flood_event leaves alone whatever the line is.
Rest == said < MaxSaid /\ said' = said + 1 /\ UNCHANGED <<limitVars, sets>>

\* Another writes: both counts begin again.
LEMMA AnotherKeeps ==
  ASSUME FloodAssumption, FInv, NEW mask \in Masks, NEW msg \in Msgs,
         Another(mask, msg), Count(mask, msg), Rest
  PROVE  FInv'
  BY DEF FloodAssumption, FInv, Types, Counted, FreeIsCounted, WithinLimits, CountsAreOwn,
         KickIsEarned, Another, Count, Rest, limitVars

\* The same one writes something else.
LEMMA DiffersKeeps ==
  ASSUME FloodAssumption, FInv, NEW mask \in Masks, NEW msg \in Msgs,
         Differs(mask, msg), Count(mask, msg), Rest
  PROVE  FInv'
  BY DEF FloodAssumption, FInv, Types, Counted, FreeIsCounted, WithinLimits, CountsAreOwn,
         KickIsEarned, Differs, Count, Rest, limitVars

\* A line too many: a warning or a kick.
LEMMA TooManyKeeps ==
  ASSUME FloodAssumption, FInv, NEW mask \in Masks, NEW msg \in Msgs,
         TooMany(mask), Count(mask, msg), Rest
  PROVE  FInv'
<1>1. CASE Warns(mask)
  BY <1>1 DEF FloodAssumption, FInv, Types, Counted, FreeIsCounted, WithinLimits, CountsAreOwn,
              KickIsEarned, TooMany, Count, Rest, limitVars
<1>2. CASE ~Warns(mask)
  BY <1>2 DEF FloodAssumption, FInv, Types, Counted, FreeIsCounted, WithinLimits, CountsAreOwn,
              KickIsEarned, TooMany, Verdict, Count, Rest, limitVars
<1> QED BY <1>1, <1>2

\* The same line again.
LEMMA RepeatsKeeps ==
  ASSUME FloodAssumption, FInv, NEW mask \in Masks, NEW msg \in Msgs,
         Repeats(mask, msg), Count(mask, msg), Rest
  PROVE  FInv'
<1>1. CASE msg_num # maxmsg
  BY <1>1 DEF FloodAssumption, FInv, Types, Counted, FreeIsCounted, WithinLimits, CountsAreOwn,
              KickIsEarned, Repeats, Count, Rest, limitVars
<1>2. CASE msg_num = maxmsg /\ Warns(mask)
  BY <1>2 DEF FloodAssumption, FInv, Types, Counted, FreeIsCounted, WithinLimits, CountsAreOwn,
              KickIsEarned, Repeats, Count, Rest, limitVars
<1>3. CASE msg_num = maxmsg /\ ~Warns(mask)
  BY <1>3 DEF FloodAssumption, FInv, Types, Counted, FreeIsCounted, WithinLimits, CountsAreOwn,
              KickIsEarned, Repeats, Verdict, Count, Rest, limitVars
<1> QED BY <1>1, <1>2, <1>3

\* A changed limit is one that a counter has passed, or not.
LEMMA VarKeeps == ASSUME FloodAssumption, FInv, flood_var PROVE FInv'
<1>1. /\ UNCHANGED <<last_mask, last_msg, mask_num, msg_num, warn_num, said, did, row, same>>
      /\ sets' = sets + 1 /\ rowFree' = 0 /\ sameFree' = 0
      /\ maxmsg' \in Limits /\ maxmask' \in Limits /\ maxwarn' \in Limits
      /\ passed' = ((maxmask' # 0 /\ mask_num > maxmask') \/ (maxmsg' # 0 /\ msg_num > maxmsg'))
  BY DEF flood_var, FInv, Types
<1>2. mask_num \in Nat /\ msg_num \in Nat /\ maxmask' \in Nat /\ maxmsg' \in Nat
      /\ sets \in Nat /\ sets' # 0
  BY <1>1 DEF FloodAssumption, FInv, Types
<1>3. passed' \in BOOLEAN
  BY <1>1
<1>4. WithinLimits'
  <2>1. mask_num' = mask_num /\ msg_num' = msg_num
    BY <1>1
  <2>2. SUFFICES ASSUME ~passed'
                 PROVE  /\ maxmask' # 0 => mask_num' <= maxmask'
                        /\ maxmsg' # 0 => msg_num' <= maxmsg'
    BY Zenon DEF WithinLimits
  <2>3. ~(maxmask' # 0 /\ mask_num > maxmask') /\ ~(maxmsg' # 0 /\ msg_num > maxmsg')
    BY <1>1, <2>2, Zenon
  <2> QED BY <1>2, <2>1, <2>3
<1>5. Types' /\ Counted' /\ FreeIsCounted' /\ CountsAreOwn' /\ KickIsEarned'
  BY <1>1, <1>2, <1>3 DEF FInv, Types, Counted, FreeIsCounted, CountsAreOwn, KickIsEarned
<1> QED BY <1>4, <1>5 DEF FInv

\* Every step.
LEMMA StepKeeps == ASSUME FloodAssumption, FInv, [FloodNext]_floodVars PROVE FInv'
<1>1. CASE flood_event
  <2>1. Rest
    BY <1>1 DEF flood_event, Rest
  <2>2. PICK mask \in Masks, msg \in Msgs :
          /\ Another(mask, msg) \/ TooMany(mask) \/ Repeats(mask, msg) \/ Differs(mask, msg)
          /\ Count(mask, msg)
    BY <1>1 DEF flood_event
  <2> QED BY <2>1, <2>2, AnotherKeeps, TooManyKeeps, RepeatsKeeps, DiffersKeeps
<1>2. CASE flood_var
  BY <1>2, VarKeeps
<1>3. CASE UNCHANGED floodVars
  BY <1>3 DEF floodVars, FInv, Types, Counted, FreeIsCounted, WithinLimits, CountsAreOwn, KickIsEarned
<1> QED BY <1>1, <1>2, <1>3 DEF FloodNext

\* The invariant in every state.
LEMMA FInvHolds == ASSUME FloodAssumption PROVE FloodSpec => []FInv
<1>1. FloodInit => FInv
  BY InitFInv
<1>2. FInv /\ [FloodNext]_floodVars => FInv'
  BY StepKeeps
<1> QED BY <1>1, <1>2, PTL DEF FloodSpec

(* The counters and limits have values of their types, and no counter exceeds  *)
(* the number of lines (flood.cpp flood_event, flood_var).                     *)
THEOREM TypeCorrect == ASSUME FloodAssumption PROVE FloodSpec => []FloodTypeOK
<1>1. FInv => FloodTypeOK
  BY DEF FloodAssumption, FInv, Types, Counted, FloodTypeOK
<1> QED BY <1>1, FInvHolds, PTL

(* With any limits, nobody below level 4 gets more lines through than these    *)
(* allow, and nobody is warned or kicked for less, or for the lines of another *)
(* (flood.cpp flood_event).                                                    *)
THEOREM FloodFair == ASSUME FloodAssumption PROVE FloodSpec => []FloodIsFair
<1>1. FInv => FloodIsFair
  <2>1. FInv => FloodIsStopped
    BY DEF FloodAssumption, FInv, Types, FreeIsCounted, WithinLimits, FloodIsStopped, TooManyFree
  <2> QED BY <2>1 DEF FInv, FloodIsFair
<1> QED BY <1>1, FInvHolds, PTL

------------------------------------------------------------------------------
(* A log file.                                                                *)

Elements(s) == {s[i] : i \in DOMAIN s}

\* s has the lines from its first to w, in their order, but for those in L.
Chain(s, w, L) ==
  /\ \A i, j \in DOMAIN s : i < j => s[i] < s[j]
  /\ \A i \in DOMAIN s : s[i] <= w
  /\ s # << >> => Elements(s) = (s[1]..w) \ L

All == old \o file \o kept

\* The inductive invariant: a stream that is not open has no line on its way to the
\* file, and where there is no file it has no lines.
LInv ==
  /\ old \in Seq(Nat) /\ file \in Seq(Nat) /\ kept \in Seq(Nat)
  /\ written \in Nat /\ lost \in SUBSET (0..written)
  /\ stuck \in BOOLEAN /\ is_open \in BOOLEAN /\ there \in BOOLEAN
  /\ ~is_open => kept = << >>
  /\ ~there => ~is_open /\ file = << >>
  /\ (has_old /\ ~stuck) => Len(file) + Len(kept) <= LOG_SIZE
  /\ Chain(All, written, lost)

------------------------------------------------------------------------------
(* Chains.                                                                    *)

\* The next line is added.
LEMMA ChainAppend ==
  ASSUME NEW s \in Seq(Nat), NEW w \in Nat, NEW L \in SUBSET (0..w), Chain(s, w, L)
  PROVE  Chain(Append(s, w + 1), w + 1, L)
<1> DEFINE t == Append(s, w + 1)
<1>1. /\ DOMAIN s = 1..Len(s) /\ DOMAIN t = 1..(Len(s) + 1) /\ Len(s) \in Nat
      /\ \A i \in 1..Len(s) : t[i] = s[i] /\ s[i] \in Nat
      /\ t[Len(s) + 1] = w + 1
  OBVIOUS
<1> HIDE DEF t
<1>0. /\ \A i, j \in 1..Len(s) : i < j => s[i] < s[j]
      /\ \A i \in 1..Len(s) : s[i] <= w
  BY <1>1 DEF Chain
<1>2. \A i, j \in DOMAIN t : i < j => t[i] < t[j]
  <2> SUFFICES ASSUME NEW i \in DOMAIN t, NEW j \in DOMAIN t, i < j PROVE t[i] < t[j]
    OBVIOUS
  <2>1. i \in 1..Len(s) /\ t[i] = s[i] /\ s[i] <= w /\ s[i] \in Nat
    BY <1>0, <1>1
  <2>2. CASE j = Len(s) + 1
    BY <1>1, <2>1, <2>2
  <2>3. CASE j # Len(s) + 1
    <3>1. j \in 1..Len(s)
      BY <1>1, <2>3
    <3>2. s[i] < s[j]
      BY <1>0, <2>1, <3>1
    <3> QED
      BY <1>1, <2>1, <3>1, <3>2
  <2> QED
    BY <2>2, <2>3
<1>3. \A i \in DOMAIN t : t[i] <= w + 1
  BY <1>0, <1>1
<1>4. CASE s = << >>
  <2>1. Elements(t) = {w + 1} /\ t[1] = w + 1
    BY <1>1, <1>4 DEF Elements
  <2> QED BY <2>1, <1>2, <1>3 DEF Chain, t
<1>5. CASE s # << >>
  <2>1. Elements(t) = Elements(s) \cup {w + 1}
    BY <1>1 DEF Elements
  <2>2. t[1] = s[1] /\ s[1] \in Nat /\ s[1] <= w
    BY <1>1, <1>5 DEF Chain
  <2>3. Elements(s) = (s[1]..w) \ L
    BY <1>5 DEF Chain
  <2>4. Elements(t) = (t[1]..(w + 1)) \ L
    <3>1. s[1]..(w + 1) = (s[1]..w) \cup {w + 1} /\ w + 1 \notin L
      BY ONLY <2>2, w \in Nat, L \in SUBSET (0..w)
    <3> QED
      BY <2>1, <2>2, <2>3, <3>1
  <2> QED BY <2>4, <1>2, <1>3 DEF Chain, t
<1> QED BY <1>4, <1>5

\* A line that is written nowhere is lost.
LEMMA ChainLose ==
  ASSUME NEW s \in Seq(Nat), NEW w \in Nat, NEW L \in SUBSET (0..w), Chain(s, w, L)
  PROVE  Chain(s, w + 1, L \cup {w + 1})
<1>1. DOMAIN s = 1..Len(s) /\ Len(s) \in Nat /\ \A i \in DOMAIN s : s[i] \in Nat
  OBVIOUS
<1>2. s # << >> => 1 \in DOMAIN s
  BY <1>1
<1>3. ASSUME s # << >> PROVE Elements(s) = (s[1]..(w + 1)) \ (L \cup {w + 1})
  <2>1. Elements(s) = (s[1]..w) \ L /\ s[1] \in Nat
    BY <1>1, <1>2, <1>3 DEF Chain
  <2>2. (s[1]..w) \ L = (s[1]..(w + 1)) \ (L \cup {w + 1})
    BY <2>1
  <2> QED
    BY <2>1, <2>2
<1> QED BY <1>1, <1>2, <1>3 DEF Chain

\* What a sequence with another behind it has at its places.
LEMMA ConcatFacts ==
  ASSUME NEW p \in Seq(Nat), NEW q \in Seq(Nat)
  PROVE  /\ Len(p) \in Nat /\ Len(q) \in Nat /\ DOMAIN p = 1..Len(p) /\ DOMAIN q = 1..Len(q)
         /\ DOMAIN (p \o q) = 1..(Len(p) + Len(q))
         /\ \A i \in 1..Len(p) : (p \o q)[i] = p[i] /\ p[i] \in Nat
         /\ \A i \in 1..Len(q) : (p \o q)[Len(p) + i] = q[i] /\ q[i] \in Nat
  OBVIOUS

\* Three sequences.
Associates(p, q, r) == (p \o q) \o r = p \o (q \o r)

\* It does not matter which two of three queues are joined first.
LEMMA ConcatTwice == \A p, q, r \in Seq(Nat) : Associates(p, q, r)
<1>1. \A S : \A p, q, r \in Seq(S) : (p \o q) \o r = p \o (q \o r)
  BY ConcatAssociative
<1>2. \A S : \A p, q, r \in Seq(S) : Associates(p, q, r)
  BY <1>1 DEF Associates
<1> QED BY <1>2, Zenon

\* The old file is thrown away.
LEMMA ChainSuffix ==
  ASSUME NEW p \in Seq(Nat), NEW q \in Seq(Nat), NEW w \in Nat, NEW L, Chain(p \o q, w, L)
  PROVE  Chain(q, w, L)
<1> DEFINE s == p \o q
           m == Len(p)
           n == Len(q)
<1>1. /\ m \in Nat /\ n \in Nat /\ DOMAIN p = 1..m /\ DOMAIN q = 1..n /\ DOMAIN s = 1..(m + n)
      /\ \A i \in 1..m : s[i] = p[i] /\ p[i] \in Nat
      /\ \A i \in 1..n : s[m + i] = q[i] /\ q[i] \in Nat
  BY ConcatFacts
<1>0. Chain(s, w, L)
  OBVIOUS
<1> HIDE DEF s, m, n
<1>2. ASSUME NEW i \in DOMAIN q PROVE m + i \in DOMAIN s /\ s[m + i] = q[i]
  BY <1>1
<1>3. \A i, j \in DOMAIN q : i < j => q[i] < q[j]
  <2> SUFFICES ASSUME NEW i \in DOMAIN q, NEW j \in DOMAIN q, i < j PROVE q[i] < q[j]
    OBVIOUS
  <2>1. m + i < m + j
    BY <1>1
  <2> QED BY <2>1, <1>2, <1>0 DEF Chain
<1>4. \A i \in DOMAIN q : q[i] <= w
  BY <1>2, <1>0 DEF Chain
<1>5. ASSUME q # << >> PROVE Elements(q) = (q[1]..w) \ L
  <2>1. 1 \in DOMAIN q /\ 1 \in DOMAIN s /\ s # << >>
    BY <1>1, <1>5, m + 1 \in DOMAIN s
  <2>2. Elements(s) = (s[1]..w) \ L
    BY <2>1, <1>0 DEF Chain
  <2>3. s[1] \in Nat /\ q[1] \in Nat /\ s[1] <= q[1]
    <3>1. CASE m = 0
      BY <3>1, <1>1, <2>1
    <3>2. CASE m # 0
      <4>1. 1 \in DOMAIN s /\ m + 1 \in DOMAIN s /\ 1 < m + 1
        BY <3>2, <1>1, <2>1
      <4>2. s[1] < s[m + 1]
        BY <4>1, <1>0 DEF Chain
      <4>3. s[1] \in Nat /\ q[1] \in Nat /\ s[m + 1] = q[1]
        BY <3>2, <1>1, <2>1
      <4> QED BY <4>2, <4>3
    <3> QED BY <3>1, <3>2
  <2>4. ASSUME NEW x \in Elements(q) PROVE x \in (q[1]..w) \ L
    <3>1. PICK i \in DOMAIN q : x = q[i]
      BY DEF Elements
    <3>2. x \in Elements(s)
      BY <3>1, <1>2 DEF Elements
    <3>3. i = 1 \/ q[1] < q[i]
      <4>1. i \in 1..n
        BY <1>1
      <4>2. i = 1 \/ 1 < i
        BY <4>1, <1>1
      <4> QED BY <4>2, <1>3, <2>1
    <3> QED BY <3>1, <3>2, <3>3, <2>2, <2>3, <1>1
  <2>5. ASSUME NEW x \in (q[1]..w) \ L PROVE x \in Elements(q)
    <3>1. x \in Elements(s)
      BY <2>2, <2>3
    <3>2. PICK i \in DOMAIN s : x = s[i]
      BY <3>1 DEF Elements
    <3>3. i > m
      <4>1. SUFFICES ASSUME i <= m PROVE FALSE
        BY <1>1
      <4>2. i < m + 1 /\ m + 1 \in DOMAIN s /\ s[m + 1] = q[1]
        BY <4>1, <1>1, <1>2, <2>1
      <4>3. s[i] < q[1]
        BY <4>2, <1>0 DEF Chain
      <4> QED BY <4>3, <3>2, <2>3
    <3>4. i - m \in DOMAIN q /\ q[i - m] = x
      <4>1. i - m \in 1..n
        BY <3>3, <1>1
      <4> QED BY <4>1, <1>1, <3>2
    <3> QED BY <3>4 DEF Elements
  <2> QED BY <2>4, <2>5
<1> QED BY <1>3, <1>4, <1>5 DEF Chain

\* What the stream kept is lost.
LEMMA ChainPrefix ==
  ASSUME NEW p \in Seq(Nat), NEW q \in Seq(Nat), NEW w \in Nat, NEW L, Chain(p \o q, w, L)
  PROVE  Chain(p, w, L \cup Elements(q))
<1> DEFINE s == p \o q
           m == Len(p)
           n == Len(q)
<1>1. /\ m \in Nat /\ n \in Nat /\ DOMAIN p = 1..m /\ DOMAIN q = 1..n /\ DOMAIN s = 1..(m + n)
      /\ \A i \in 1..m : s[i] = p[i] /\ p[i] \in Nat
      /\ \A i \in 1..n : s[m + i] = q[i] /\ q[i] \in Nat
  BY ConcatFacts
<1>0. Chain(s, w, L)
  OBVIOUS
<1> HIDE DEF s, m, n
<1>2. ASSUME NEW i \in DOMAIN p PROVE i \in DOMAIN s /\ s[i] = p[i]
  BY <1>1
<1>3. \A i, j \in DOMAIN p : i < j => p[i] < p[j]
  BY <1>2, <1>0 DEF Chain
<1>4. \A i \in DOMAIN p : p[i] <= w
  BY <1>2, <1>0 DEF Chain
<1>5. ASSUME p # << >> PROVE Elements(p) = (p[1]..w) \ (L \cup Elements(q))
  <2>1. 1 \in DOMAIN p /\ s # << >>
    BY <1>1, <1>5, 1 \in DOMAIN s
  <2>2. Elements(s) = (p[1]..w) \ L
    BY <2>1, <1>2, <1>0 DEF Chain
  <2>3. Elements(s) = Elements(p) \cup Elements(q)
    <3>1. ASSUME NEW i \in DOMAIN s PROVE s[i] \in Elements(p) \cup Elements(q)
      <4>1. CASE i <= m
        BY <4>1, <1>1 DEF Elements
      <4>2. CASE i > m
        <5>1. i - m \in 1..n /\ s[m + (i - m)] = s[i]
          BY <4>2, <1>1
        <5> QED BY <5>1, <1>1 DEF Elements
      <4> QED BY <4>1, <4>2, <1>1
    <3>2. ASSUME NEW i \in DOMAIN q PROVE q[i] \in Elements(s)
      <4>1. m + i \in DOMAIN s
        BY <1>1
      <4> QED BY <4>1, <1>1 DEF Elements
    <3>3. ASSUME NEW i \in DOMAIN p PROVE p[i] \in Elements(s)
      BY <1>2 DEF Elements
    <3> QED BY <3>1, <3>2, <3>3 DEF Elements
  <2>4. Elements(p) \cap Elements(q) = {}
    <3> SUFFICES ASSUME NEW i \in DOMAIN p, NEW j \in DOMAIN q, p[i] = q[j] PROVE FALSE
      BY DEF Elements
    <3>1. i < m + j /\ m + j \in DOMAIN s /\ i \in DOMAIN s
      BY <1>1
    <3>2. s[i] < s[m + j]
      BY <3>1, <1>0 DEF Chain
    <3> QED BY <3>2, <1>1
  <2> QED BY <2>2, <2>3, <2>4
<1> QED BY <1>3, <1>4, <1>5 DEF Chain

------------------------------------------------------------------------------
(* The steps.                                                                 *)

\* A line is written after f and k, and follows on what was there.
LEMMA PutFollows ==
  ASSUME NEW o \in Seq(Nat), NEW f \in Seq(Nat), NEW k \in Seq(Nat), NEW opened, NEW flushes,
         written \in Nat, lost \in SUBSET (0..written), Chain((o \o f) \o k, written, lost),
         ~opened => k = << >>,
         Put(f, k, opened, flushes)
  PROVE  /\ file' \in Seq(Nat) /\ kept' \in Seq(Nat)
         /\ written' \in Nat /\ lost' \in SUBSET (0..written')
         /\ ~opened => file' = f /\ kept' = << >>
         /\ Len(file') + Len(kept') <= Len(f) + Len(k) + 1
         /\ Chain((o \o file') \o kept', written', lost')
<1>1. written' = written + 1
  BY DEF Put
<1>2. /\ o \o f \in Seq(Nat) /\ (o \o f) \o k \in Seq(Nat) /\ f \o k \in Seq(Nat)
      /\ <<written'>> \in Seq(Nat) /\ Len(<<written'>>) = 1
      /\ Append(k, written') \in Seq(Nat) /\ Len(Append(k, written')) = Len(k) + 1
      /\ Append((o \o f) \o k, written') = ((o \o f) \o k) \o <<written'>>
      /\ Append(k, written') = k \o <<written'>>
      /\ Len(f) \in Nat /\ Len(k) \in Nat /\ Len(f \o k) = Len(f) + Len(k)
  <2>1. written' \in Nat
    BY <1>1
  <2>2. o \o f \in Seq(Nat) /\ f \o k \in Seq(Nat) /\ <<written'>> \in Seq(Nat)
    BY <2>1
  <2>3. (o \o f) \o k \in Seq(Nat)
    BY <2>2
  <2>4. Append((o \o f) \o k, written') = ((o \o f) \o k) \o <<written'>>
    BY <2>1, <2>3
  <2>5. Append(k, written') \in Seq(Nat) /\ Append(k, written') = k \o <<written'>>
    BY <2>1
  <2>6. Len(<<written'>>) = 1 /\ Len(Append(k, written')) = Len(k) + 1
        /\ Len(f) \in Nat /\ Len(k) \in Nat /\ Len(f \o k) = Len(f) + Len(k)
    BY <2>1
  <2> QED BY <2>2, <2>3, <2>4, <2>5, <2>6
<1>3. CASE ~opened
  <2>1. file' = f /\ kept' = k /\ lost' = lost \cup {written + 1}
    BY <1>3, <1>1 DEF Put
  <2>2. Chain((o \o f) \o k, written + 1, lost \cup {written + 1})
    BY <1>2, ChainLose
  <2>3. lost' \in SUBSET (0..written') /\ written' \in Nat
    BY <2>1, <1>1
  <2>4. Len(f) + Len(k) <= Len(f) + Len(k) + 1
    BY <1>2
  <2> QED BY <2>1, <2>2, <2>3, <2>4, <1>1
<1>4. CASE opened
  <2>1. Chain(((o \o f) \o k) \o <<written'>>, written', lost)
    BY <1>1, <1>2, ChainAppend
  <2>2. lost' = lost
    BY <1>4 DEF Put
  <2>3. lost' \in SUBSET (0..written') /\ written' \in Nat
    BY <2>2, <1>1
  <2>4. CASE flushes
    <3>1. file' = (f \o k) \o <<written'>> /\ kept' = << >>
      BY <1>4, <2>4 DEF Put
    <3>2. file' \in Seq(Nat) /\ kept' \in Seq(Nat)
      BY <3>1, <1>2
    <3>3. Len(file') = Len(f) + Len(k) + 1 /\ Len(kept') = 0
      BY <3>1, <1>2
    <3>4. (o \o f) \o k = o \o (f \o k)
      <4>1. Associates(o, f, k)
        BY <1>2, ConcatTwice, Zenon
      <4> QED BY <4>1, Zenon DEF Associates
    <3>5. ((o \o f) \o k) \o <<written'>> = o \o file'
      <4>1. f \o k \in Seq(Nat) /\ <<written'>> \in Seq(Nat) /\ o \in Seq(Nat)
        BY <1>2
      <4>2. (o \o (f \o k)) \o <<written'>> = o \o ((f \o k) \o <<written'>>)
        <5>1. Associates(o, f \o k, <<written'>>)
          BY <4>1, ConcatTwice, Zenon
        <5> QED BY <5>1 DEF Associates
      <4> QED BY <4>2, <3>1, <3>4
    <3>6. (o \o file') \o kept' = o \o file'
      BY <3>1, <3>2
    <3>7. Len(file') + Len(kept') <= Len(f) + Len(k) + 1
      BY <3>3, <1>2
    <3> QED BY <1>4, <2>1, <2>2, <2>3, <3>2, <3>5, <3>6, <3>7
  <2>5. CASE ~flushes
    <3>1. file' = f /\ kept' = k \o <<written'>> /\ Len(kept') = Len(k) + 1
      BY <1>4, <2>5, <1>2 DEF Put
    <3>2. ((o \o f) \o k) \o <<written'>> = (o \o f) \o (k \o <<written'>>)
      <4>1. o \o f \in Seq(Nat) /\ <<written'>> \in Seq(Nat) /\ k \in Seq(Nat)
        BY <1>2
      <4>2. Associates(o \o f, k, <<written'>>)
        BY <4>1, ConcatTwice, Zenon
      <4> QED BY <4>2 DEF Associates
    <3>3. Len(file') + Len(kept') <= Len(f) + Len(k) + 1
      BY <3>1, <1>2
    <3> QED BY <1>4, <2>1, <2>2, <2>3, <3>1, <3>2, <3>3, <1>2
  <2> QED BY <2>4, <2>5
<1> QED BY <1>3, <1>4

\* A new file is a chain.
LEMMA InitChain == ASSUME LogAssumption PROVE LogInit => LInv
<1> SUFFICES ASSUME LogInit PROVE LInv
  OBVIOUS
<1>1. All = << >>
  BY DEF LogInit, All
<1>2. Chain(<< >>, 0, {})
  BY DEF Chain
<1>3. Len(file) + Len(kept) <= LOG_SIZE
  BY DEF LogInit, LogAssumption
<1>4. {stuck, is_open, there} \subseteq BOOLEAN /\ is_open /\ there
  BY Zenon DEF LogInit
<1>5. old \in Seq(Nat) /\ file \in Seq(Nat) /\ kept \in Seq(Nat)
      /\ written = 0 /\ lost = {}
  BY DEF LogInit
<1>6. written \in Nat /\ lost \in SUBSET (0..written) /\ Chain(All, written, lost)
  BY <1>1, <1>2, <1>5
<1> QED BY <1>3, <1>4, <1>5, <1>6 DEF LInv

\* Nothing is lost with the file that is exchanged but what was in the old one.
LEMMA ChangeFollows ==
  ASSUME LogAssumption, LInv, change_log, has_old' = has_old
  PROVE  LInv'
<1>1. /\ << >> \in Seq(Nat) /\ Len(<< >>) = 0 /\ LOG_SIZE \in Nat /\ 1 <= LOG_SIZE
      /\ written \in Nat /\ lost \in SUBSET (0..written)
      /\ old \in Seq(Nat) /\ file \in Seq(Nat) /\ kept \in Seq(Nat) /\ file \o kept \in Seq(Nat)
  BY DEF LogAssumption, LInv
<1>2. Chain(old \o (file \o kept), written, lost)
  <2>1. Associates(old, file, kept)
    BY <1>1, ConcatTwice, Zenon
  <2>2. Chain((old \o file) \o kept, written, lost)
    BY Zenon DEF LInv, All
  <2> QED BY <2>1, <2>2, Zenon DEF Associates
<1>3. CASE there /\ old' = file \o kept /\ stuck' = FALSE /\ Reopen(<< >>, FALSE)
  <2>1. Chain((old' \o << >>) \o << >>, written, lost)
    <3>1. Chain(file \o kept, written, lost)
      BY <1>1, <1>2, ChainSuffix
    <3>2. (old' \o << >>) \o << >> = file \o kept
      BY <1>1, <1>3
    <3> QED BY <3>1, <3>2, Zenon
  <2>2. PICK flushes : Put(<< >>, << >>, is_open', flushes)
    BY <1>3, Zenon DEF Reopen, conf
  <2>3. /\ file' \in Seq(Nat) /\ kept' \in Seq(Nat)
        /\ written' \in Nat /\ lost' \in SUBSET (0..written')
        /\ ~is_open' => file' = << >> /\ kept' = << >>
        /\ Len(file') + Len(kept') <= Len(<< >>) + Len(<< >>) + 1
        /\ Chain((old' \o file') \o kept', written', lost')
    <3>1. old' \in Seq(Nat)
      BY <1>1, <1>3
    <3> QED BY <1>1, <2>1, <2>2, <3>1, PutFollows
  <2>4. Len(file') + Len(kept') <= LOG_SIZE
    BY <1>1, <2>3
  <2>5. is_open' \in BOOLEAN /\ there' \in BOOLEAN /\ stuck' \in BOOLEAN
        /\ (~there' => ~is_open')
    BY <1>3, Zenon DEF Reopen, conf
  <2>6. old' \in Seq(Nat)
    BY <1>1, <1>3
  <2> QED BY <2>3, <2>4, <2>5, <2>6, Zenon DEF LInv, All
<1>4. CASE UNCHANGED old /\ stuck' = there /\ Reopen(file \o kept, there)
  <2>1. Chain((old' \o (file \o kept)) \o << >>, written, lost)
    <3>1. (old' \o (file \o kept)) \o << >> = old \o (file \o kept)
      BY <1>1, <1>4
    <3> QED BY <1>2, <3>1, Zenon
  <2>2. PICK flushes : Put(file \o kept, << >>, is_open', flushes)
    BY <1>4, Zenon DEF Reopen, conf
  <2>3. /\ file' \in Seq(Nat) /\ kept' \in Seq(Nat)
        /\ written' \in Nat /\ lost' \in SUBSET (0..written')
        /\ ~is_open' => file' = file \o kept /\ kept' = << >>
        /\ Len(file') + Len(kept') <= Len(file \o kept) + Len(<< >>) + 1
        /\ Chain((old' \o file') \o kept', written', lost')
    <3>1. old' \in Seq(Nat)
      BY <1>1, <1>4
    <3> QED BY <1>1, <2>1, <2>2, <3>1, PutFollows
  <2>4. ASSUME ~there PROVE file \o kept = << >>
    <3>1. file = << >> /\ kept = << >>
      BY <2>4, Zenon DEF LInv
    <3> QED BY <3>1
  <2>5. ASSUME ~stuck' PROVE Len(file') + Len(kept') <= LOG_SIZE
    <3>1. file \o kept = << >>
      BY <1>4, <2>4, <2>5, Zenon
    <3>2. Len(file') + Len(kept') <= Len(<< >>) + Len(<< >>) + 1
      BY <2>3, <3>1, Zenon
    <3>3. Len(file') \in Nat /\ Len(kept') \in Nat
      BY <2>3
    <3> QED BY <1>1, <3>2, <3>3
  <2>6. is_open' \in BOOLEAN /\ there' \in BOOLEAN /\ stuck' \in BOOLEAN
        /\ (~there' => ~is_open' /\ ~there)
    BY <1>4, Zenon DEF Reopen, conf, LInv
  <2>7. ~there' => file' = << >>
    BY <2>3, <2>4, <2>6, Zenon
  <2>8. old' \in Seq(Nat)
    BY <1>1, <1>4
  <2> QED BY <2>3, <2>5, <2>6, <2>7, <2>8, Zenon DEF LInv, All
<1> QED BY <1>3, <1>4, Zenon DEF change_log

\* A line is written, perhaps after a rotation.
LEMMA LineFollows == ASSUME LogAssumption, LInv, Line PROVE LInv'
<1>1. has_old' = has_old
  BY DEF Line, confVars
<1>2. CASE has_old /\ TooOld
  BY <1>1, <1>2, ChangeFollows DEF Line
<1>3. CASE ~(has_old /\ TooOld)
  <2>1. Put(file, kept, is_open, flushmode)
        /\ old' = old /\ is_open' = is_open /\ there' = there /\ stuck' = stuck
    BY <1>3, Zenon DEF Line
  <2>2. /\ old \in Seq(Nat) /\ file \in Seq(Nat) /\ kept \in Seq(Nat)
        /\ written \in Nat /\ lost \in SUBSET (0..written)
        /\ ~is_open => kept = << >>
        /\ Chain((old \o file) \o kept, written, lost)
    BY Zenon DEF LInv, All
  <2>3. /\ file' \in Seq(Nat) /\ kept' \in Seq(Nat)
        /\ written' \in Nat /\ lost' \in SUBSET (0..written')
        /\ ~is_open => file' = file /\ kept' = << >>
        /\ Len(file') + Len(kept') <= Len(file) + Len(kept) + 1
        /\ Chain((old \o file') \o kept', written', lost')
    BY <2>1, <2>2, PutFollows
  <2>4. ASSUME has_old, ~stuck PROVE Len(file') + Len(kept') <= LOG_SIZE
    <3>1. /\ Len(file) \in Nat /\ Len(kept) \in Nat /\ Len(file') \in Nat /\ Len(kept') \in Nat
          /\ LOG_SIZE \in Nat \ {0}
      BY <2>2, <2>3 DEF LogAssumption
    <3>2. Len(file) + Len(kept) <= LOG_SIZE
      BY <2>4, Zenon DEF LInv
    <3>3. CASE is_open
      <4>1. ~(Len(file) + Len(kept) >= LOG_SIZE)
        BY <2>4, <1>3, <3>3, Zenon DEF TooOld
      <4> QED BY <4>1, <3>1, <2>3
    <3>4. CASE ~is_open
      <4>1. Len(file') = Len(file) /\ Len(kept') = Len(kept)
        BY <2>2, <2>3, <3>4, Zenon
      <4> QED BY <4>1, <3>2
    <3> QED BY <3>3, <3>4
  <2>5. /\ stuck' \in BOOLEAN /\ is_open' \in BOOLEAN /\ there' \in BOOLEAN
        /\ ~is_open' => kept' = << >>
        /\ ~there' => ~is_open' /\ file' = << >>
    BY <2>1, <2>3, Zenon DEF LInv
  <2> QED BY <1>1, <2>1, <2>2, <2>3, <2>4, <2>5, Zenon DEF LInv, All
<1> QED BY <1>2, <1>3

\* The stream writes what it keeps.
LEMMA DrainFollows == ASSUME LInv, Drain PROVE LInv'
<1>1. file' = file \o kept /\ kept' = << >> /\ kept # << >>
      /\ UNCHANGED <<old, written, lost, stuck, is_open, there, has_old>>
  BY DEF Drain, confVars
<1>2. file' \in Seq(Nat) /\ kept' \in Seq(Nat) /\ Len(file') + Len(kept') = Len(file) + Len(kept)
  BY <1>1 DEF LInv
<1>3. (old \o (file \o kept)) \o << >> = old \o (file \o kept)
  BY DEF LInv
<1>4. (old \o file) \o kept = old \o (file \o kept)
  BY ConcatTwice DEF LInv, Associates
<1>5. All' = All
  BY <1>1, <1>3, <1>4 DEF All
<1>6. Chain(All', written', lost')
  BY <1>1, <1>5 DEF LInv
<1>7. (has_old' /\ ~stuck') => Len(file') + Len(kept') <= LOG_SIZE
  BY <1>1, <1>2 DEF LInv
<1>8. is_open' /\ there' /\ {stuck', is_open', there'} \subseteq BOOLEAN
  BY <1>1 DEF LInv
<1> QED BY <1>1, <1>2, <1>6, <1>7, <1>8 DEF LInv

\* A crash loses what the stream keeps.
LEMMA CrashFollows == ASSUME LogAssumption, LInv, Crash PROVE LInv'
<1>1. /\ lost' = lost \cup Elements(kept) /\ kept' = << >> /\ is_open' = TRUE /\ there' = TRUE
      /\ UNCHANGED <<has_old, file, old, written, stuck>>
  BY DEF Crash, Elements, conf, confVars
<1>2. /\ old \o file \in Seq(Nat) /\ (old \o file) \o << >> = old \o file
      /\ Len(file) \in Nat /\ Len(kept) \in Nat /\ Len(kept') = 0
      /\ kept \in Seq(Nat) /\ written \in Nat
  BY <1>1 DEF LInv
<1>3. Chain((old \o file) \o kept, written, lost)
  BY DEF LInv, All
<1>4. Chain(old \o file, written, lost \cup Elements(kept))
  BY <1>2, <1>3, ChainPrefix
<1>5. Elements(kept) \subseteq 0..written
  <2> SUFFICES ASSUME NEW j \in DOMAIN kept PROVE kept[j] \in 0..written
    BY DEF Elements
  <2> DEFINE p == old \o file
             m == Len(p)
  <2>typed. m \in Nat /\ DOMAIN kept = 1..Len(kept) /\ kept[j] \in Nat /\ j \in 1..Len(kept)
    BY <1>2
  <2>sums. /\ DOMAIN (p \o kept) = 1..(m + Len(kept))
           /\ \A i \in 1..Len(kept) : (p \o kept)[m + i] = kept[i]
    BY <1>2, ConcatFacts
  <2>1. m \in Nat /\ DOMAIN kept = 1..Len(kept) /\ DOMAIN (p \o kept) = 1..(m + Len(kept))
        /\ kept[j] \in Nat /\ (p \o kept)[m + j] = kept[j]
    BY <2>typed, <2>sums
  <2> HIDE DEF p, m
  <2>2. m + j \in DOMAIN (p \o kept)
    BY <2>1, <1>2
  <2>3. (p \o kept)[m + j] <= written
    BY <1>3, <2>2 DEF Chain, p
  <2> QED BY <2>1, <2>3, <1>2
<1>6. (has_old' /\ ~stuck') => Len(file') + Len(kept') <= LOG_SIZE
  <2> SUFFICES ASSUME has_old, ~stuck PROVE Len(file) + Len(kept') <= LOG_SIZE
    BY <1>1
  <2>1. Len(file) + Len(kept) <= LOG_SIZE
    BY DEF LInv
  <2> QED BY <2>1, <1>2 DEF LogAssumption
<1>7. lost' \in SUBSET (0..written')
  BY <1>1, <1>5 DEF LInv
<1>8. Chain(All', written', lost')
  BY <1>1, <1>2, <1>4 DEF All
<1>9. /\ old' \in Seq(Nat) /\ file' \in Seq(Nat) /\ kept' \in Seq(Nat) /\ written' \in Nat
  BY <1>1 DEF LInv
<1>10. {stuck', is_open', there'} \subseteq BOOLEAN
  BY <1>1 DEF LInv
<1> QED BY <1>1, <1>6, <1>7, <1>8, <1>9, <1>10 DEF LInv

\* Every step.
LEMMA StepFollows == ASSUME LogAssumption PROVE LInv /\ [LogNext]_logVars => LInv'
<1> SUFFICES ASSUME LInv, [LogNext]_logVars PROVE LInv'
  OBVIOUS
<1>1. CASE Line
  BY <1>1, LineFollows
<1>2. CASE Drain
  BY <1>2, DrainFollows
<1>3. CASE Crash
  BY <1>3, CrashFollows
<1>4. CASE Time \/ UNCHANGED logVars
  <2>1. UNCHANGED <<old, file, kept, written, lost, stuck, is_open, there, has_old>>
    BY <1>4 DEF Time, confVars, logVars
  <2> QED BY <2>1 DEF LInv, All, Chain, Elements
<1> QED BY <1>1, <1>2, <1>3, <1>4 DEF LogNext

\* The invariant has the property.
LEMMA LInvKept == LInv => Kept
  BY DEF LInv, Kept, All, Chain, Elements

(* No line is lost but with the old file, by a crash, or because no file could *)
(* be opened, in whatever order lines, rotations, flushes and crashes come;    *)
(* the lines stay in their order, and the file within its limit unless it      *)
(* cannot be renamed: Log::change_log closes the stream before it renames the  *)
(* file, and opens at its end what it could not rename.                        *)
THEOREM LinesKept == ASSUME LogAssumption PROVE LogSpec => []Kept
<1>1. LogInit => LInv
  BY InitChain
<1>2. LInv /\ [LogNext]_logVars => LInv'
  BY StepFollows
<1>3. LInv => Kept
  BY LInvKept
<1> QED BY <1>1, <1>2, <1>3, PTL DEF LogSpec

------------------------------------------------------------------------------
(* Which logs an event goes to.                                               *)

\* The list is complete where the answer to WHO has come and nobody was dropped.
Complete == \A c \in told \ dropped : present[c] \subseteq users[c]

\* The inductive invariant.
CInv ==
  /\ present \in [Channels -> SUBSET Nicks] /\ users \in [Channels -> SUBSET Nicks]
  /\ told \subseteq Channels
  /\ Complete
  /\ QuitIsLogged

\* Nothing has happened yet.
LEMMA InitLogged == ChatInit => CInv
  BY DEF ChatInit, None, QuitIsLogged, Complete, CInv

\* Events of one channel, and messages, are no QUIT.
LEMMA OthersKeep ==
  ASSUME NEW kind, NEW n, Event(kind, n), kind \notin {"QUIT", "NICK"}
  PROVE  QuitIsLogged'
  BY DEF Event, QuitIsLogged

\* What Log is told to log in a channel is in the first logger of the channel.
LEMMA LogsAll ==
  ASSUME NEW kind, NEW whats, NEW c \in whats, NEW i \in server_what2logger(c), Log(kind, whats)
  PROVE  <<kind, i>> \in lines'
  BY DEF Log

\* A QUIT or NICK that deletes the nick last wherever he is in the list is logged where
\* the list is complete.
LEMMA Followed ==
  ASSUME CInv, NEW kind, NEW n, Event(kind, n), Log(kind, LastOf(n)),
         \A c \in Channels : n \in users[c] => last_deleted_nick'[c] = n
  PROVE  QuitIsLogged'
<1> SUFFICES ASSUME NEW c \in surely', NEW i \in server_what2logger(c)
             PROVE  <<kind, i>> \in lines'
  BY DEF QuitIsLogged, Event, server_what2logger
<1>1. c \in Channels /\ n \in present[c] /\ c \in told \ dropped
  BY DEF Event, In
<1>2. n \in users[c]
  BY <1>1 DEF CInv, Complete
<1>3. c \in LastOf(n)
  BY <1>1, <1>2 DEF LastOf
<1> QED BY <1>3, LogsAll

\* Whom there is a place for is in the list then.
LEMMA AddCompletes ==
  ASSUME CInv, NEW c \in Channels, NEW ns \in SUBSET Nicks, NEW list \in SUBSET Nicks,
         user_add(c, ns, list)
  PROVE  /\ users' \in [Channels -> SUBSET Nicks] /\ dropped \subseteq dropped'
         /\ c \notin dropped' => users[c] \cup ns \subseteq users'[c]
         /\ \A d \in Channels \ {c} : users'[d] = users[d]
<1>1. users' = [users EXCEPT ![c] = list] /\ users \in [Channels -> SUBSET Nicks]
  BY DEF user_add, CInv
<1>2. dropped \subseteq dropped' /\ (c \notin dropped' => list = users[c] \cup ns)
  BY DEF user_add
<1> QED BY <1>1, <1>2

\* Somebody comes.
LEMMA JoinKeeps == ASSUME CInv, NEW n \in Nicks, NEW c \in Channels, Join(n, c) PROVE CInv'
<1>1. PICK list \in SUBSET Nicks : user_add(c, {n}, list)
  BY DEF Join
<1>2. /\ users' \in [Channels -> SUBSET Nicks] /\ dropped \subseteq dropped'
      /\ c \notin dropped' => users[c] \cup {n} \subseteq users'[c]
      /\ \A d \in Channels \ {c} : users'[d] = users[d]
  BY <1>1, AddCompletes
<1>3. present' = [present EXCEPT ![c] = @ \cup {n}] /\ told' = told
  BY DEF Join
<1>4. QuitIsLogged'
  BY OthersKeep DEF Join
<1> QED BY <1>2, <1>3, <1>4 DEF CInv, Complete

\* Somebody goes.
LEMMA LeaveKeeps ==
  ASSUME CInv, NEW kind \in {"PART", "KICK"}, NEW n \in Nicks, NEW c \in Channels, Leave(kind, n, c)
  PROVE  CInv'
<1>1. QuitIsLogged'
  BY OthersKeep DEF Leave
<1> QED BY <1>1 DEF Leave, user_del, CInv, Complete

\* A QUIT.
LEMMA QuitKeeps == ASSUME CInv, NEW n \in Nicks, Quit(n) PROVE CInv'
<1>1. \A c \in Channels : n \in users[c] => last_deleted_nick'[c] = n
  BY DEF Quit, user_del
<1>2. QuitIsLogged'
  BY <1>1, Followed DEF Quit
<1> QED BY <1>2 DEF Quit, user_del, CInv, Complete

\* A NICK.
LEMMA NickKeeps == ASSUME CInv, NEW n \in Nicks, NEW m \in Nicks, Nick(n, m) PROVE CInv'
<1>1. \A c \in Channels : n \in users[c] => last_deleted_nick'[c] = n
  BY DEF Nick, user_change_nick
<1>2. QuitIsLogged'
  BY <1>1, Followed DEF Nick
<1> QED BY <1>2 DEF Nick, user_change_nick, In, CInv, Complete

\* The answer to WHO has everybody who is there.
LEMMA WhoKeeps == ASSUME CInv, NEW c \in Channels, Who(c) PROVE CInv'
<1>1. PICK list \in SUBSET Nicks : user_add(c, present[c], list)
  BY DEF Who
<1>2. /\ users' \in [Channels -> SUBSET Nicks] /\ dropped \subseteq dropped'
      /\ c \notin dropped' => users[c] \cup present[c] \subseteq users'[c]
      /\ \A d \in Channels \ {c} : users'[d] = users[d]
  BY <1>1, AddCompletes DEF CInv
<1>3. /\ present' = present /\ told' = told \cup {c}
      /\ UNCHANGED <<EVENT, lines, surely>>
  BY DEF Who
<1>4. QuitIsLogged'
  BY <1>3 DEF CInv, QuitIsLogged, server_what2logger
<1> QED BY <1>2, <1>3, <1>4 DEF CInv, Complete

\* The bot joins again, and has asked WHO again.
LEMMA RejoinKeeps == ASSUME CInv, NEW c \in Channels, Rejoin(c) PROVE CInv'
<1>1. QuitIsLogged'
  BY DEF Rejoin, CInv, QuitIsLogged, server_what2logger
<1> QED BY <1>1 DEF Rejoin, CInv, Complete

\* An event that changes neither who is there nor the list.
LEMMA StillKeeps ==
  ASSUME CInv, QuitIsLogged', UNCHANGED <<present, users, told, dropped>>
  PROVE  CInv'
  BY DEF CInv, Complete

\* Every step.
LEMMA StepLogged == CInv /\ [ChatNext]_chatVars => CInv'
<1> SUFFICES ASSUME CInv, [ChatNext]_chatVars PROVE CInv'
  OBVIOUS
<1>1. CASE UNCHANGED chatVars
  BY <1>1 DEF chatVars, CInv, Complete, QuitIsLogged, server_what2logger
<1>2. CASE \E c \in Channels : Who(c) \/ Rejoin(c)
  BY <1>2, WhoKeeps, RejoinKeeps
<1>3. ASSUME NEW n \in Nicks,
             \/ Quit(n)
             \/ \E m \in Nicks \ {n} : Nick(n, m)
             \/ \E to \in Channels \cup {Private} : Message(n, to)
             \/ \E c \in Channels :
                  \/ Join(n, c)
                  \/ \E kind \in {"PART", "KICK"} : Leave(kind, n, c)
                  \/ \E kind \in {"TOPIC", "MODE"} : Told(kind, n, c)
      PROVE  CInv'
  <2>1. CASE Quit(n)
    BY <2>1, QuitKeeps
  <2>2. CASE \E m \in Nicks \ {n} : Nick(n, m)
    BY <2>2, NickKeeps
  <2>3. CASE \E to \in Channels \cup {Private} : Message(n, to)
    BY <2>3, OthersKeep, StillKeeps DEF Message
  <2>4. CASE \E c \in Channels : Join(n, c)
    BY <2>4, JoinKeeps
  <2>5. CASE \E c \in Channels : \E kind \in {"PART", "KICK"} : Leave(kind, n, c)
    BY <2>5, LeaveKeeps
  <2>6. CASE \E c \in Channels : \E kind \in {"TOPIC", "MODE"} : Told(kind, n, c)
    BY <2>6, OthersKeep, StillKeeps DEF Told
  <2> QED BY <1>3, <2>1, <2>2, <2>3, <2>4, <2>5, <2>6
<1> QED BY <1>1, <1>2, <1>3 DEF ChatNext

(* Whoever is in whatever channels, in whatever order they come and leave and  *)
(* the bot joins: one who quits or changes his nick is logged by the first     *)
(* logger of every channel he was in and where the bot's list was complete,    *)
(* although the module only knows who was deleted last (log.cpp log_event).    *)
THEOREM QuitLogged == ChatSpec => []QuitIsLogged
<1>1. CInv => QuitIsLogged
  BY DEF CInv
<1> QED BY <1>1, InitLogged, StepLogged, PTL DEF ChatSpec

------------------------------------------------------------------------------
(* The table of seen.  The argument: the records that will be in the file     *)
(* when the stream has written what it keeps are true, and so are those that  *)
(* are there now, of what was seen before the last change; the table has the  *)
(* first of them.                                                             *)

\* The records f are true when l has who was last seen when: what SeenIsTrue says
\* of the table, of any.
Good(f, l) ==
  /\ \A i, j \in DOMAIN f : f[i].nick = f[j].nick => i = j
  /\ \A i \in DOMAIN f : f[i].nick \notin Longest => f[i].time = l[f[i].nick]
  /\ date = "onward" =>
       \A n \in People \ Longest :
         (\A i \in DOMAIN f : f[i].nick # n) =>
           \A i \in DOMAIN f : f[i].nick \notin Longest => l[n] <= f[i].time

\* As setup_seen would read both.
Alike(s, f) ==
  /\ DOMAIN s = DOMAIN f
  /\ \A i \in DOMAIN f : /\ s[i].nick = f[i].nick
                         /\ f[i].nick \notin Longest => s[i].time = f[i].time

\* No record is of a time to come, unless the date was set back.
Timely(f) == date = "onward" => \A i \in DOMAIN f : f[i].time <= time_now
Passed(l) == date = "onward" => \A n \in People \ Longest : l[n] <= time_now

AtMostOne(r) == \A m, n \in r : m = n

\* last, if the program crashes now.
AfterCrash ==
  IF pending = Nothing THEN last
  ELSE [last EXCEPT ![pending[2].nick] = Forgotten(disk, pending[2].nick)]

\* The inductive invariant.
SInv ==
  /\ SeenTypeOK
  /\ Len(disk) <= SEEN_MAX /\ Timely(disk) /\ Good(disk, AfterCrash)
  /\ Flushed \in Seq(Records) /\ Timely(Flushed) /\ Good(Flushed, last) /\ Alike(seen, Flushed)
  /\ Passed(last)
  /\ second = due /\ AtMostOne(second)

-----------------------------------------------------------------------------
(* The oldest record.                                                         *)

\* What a record of a table is.
LEMMA InTable ==
  ASSUME NEW f \in Seq(Records), NEW j \in DOMAIN f, SeenAssumption
  PROVE  /\ f[j] \in Records /\ f[j].nick \in People
         /\ f[j].time \in 0..MaxTime /\ f[j].time \in Nat
<1>1. f[j] \in Records
  OBVIOUS
<1>2. f[j].nick \in People /\ f[j].time \in 0..MaxTime
  BY <1>1 DEF Records
<1> QED
  BY <1>1, <1>2 DEF SeenAssumption

\* What the loop of update_seen finds is there, and if any is older than now, none is
\* older than it.
LEMMA OldestFound ==
  ASSUME seen \in Seq(Records), SeenAssumption, Len(seen) = SEEN_MAX
  PROVE  /\ Oldest \in DOMAIN seen
         /\ \/ \A j \in DOMAIN seen : seen[j].time >= time_now
            \/ \A j \in DOMAIN seen : seen[Oldest].time <= seen[j].time
<1>1. /\ 1 \in DOMAIN seen /\ DOMAIN seen \in SUBSET Nat
      /\ \A i \in DOMAIN seen : seen[i].time \in Nat
  <2>1. \A i \in DOMAIN seen : seen[i].time \in Nat
    BY InTable
  <2>2. DOMAIN seen = 1..SEEN_MAX /\ SEEN_MAX \in Nat \ {0}
    BY DEF SeenAssumption
  <2> QED
    BY <2>1, <2>2
<1> DEFINE times == {seen[i].time : i \in DOMAIN seen}
<1>2. PICK t \in times : \A x \in times : t <= x
  <2>1. times \in SUBSET Nat /\ times # {}
    BY <1>1
  <2> QED
    BY <2>1, LeastExists
<1> DEFINE those == {i \in DOMAIN seen : seen[i].time = t}
<1>3. PICK k \in those : \A x \in those : k <= x
  <2>1. those \in SUBSET Nat /\ those # {}
    BY <1>1, <1>2
  <2> QED
    BY <2>1, LeastExists
<1>4. k \in DOMAIN seen /\ \A j \in DOMAIN seen : seen[k].time <= seen[j].time
  BY <1>2, <1>3
<1>5. ASSUME NEW j \in 1 .. k - 1 PROVE seen[k].time < seen[j].time
  <2>1. j \in DOMAIN seen /\ ~(k <= j)
    BY <1>1, <1>4
  <2>2. seen[j].time # t /\ seen[k].time = t
    BY <1>3, <2>1
  <2>3. seen[k].time <= seen[j].time /\ seen[k].time \in Nat /\ seen[j].time \in Nat
    BY <1>1, <1>4, <2>1
  <2> QED
    BY <2>2, <2>3
<1>6. \E i \in DOMAIN seen : /\ \A j \in DOMAIN seen : seen[i].time <= seen[j].time
                             /\ \A j \in 1 .. i - 1 : seen[i].time < seen[j].time
  BY <1>4, <1>5
<1> HIDE DEF times, those
<1>7. CASE \A j \in DOMAIN seen : seen[j].time >= time_now
  <2>1. Oldest = 1
    BY <1>7, Zenon DEF Oldest
  <2> QED
    BY <1>1, <1>7, <2>1
<1>8. CASE ~(\A j \in DOMAIN seen : seen[j].time >= time_now)
  BY <1>6, <1>8, Zenon DEF Oldest
<1> QED
  BY <1>7, <1>8, Zenon

-----------------------------------------------------------------------------
(* A record is put in its place.                                              *)

\* Where the record of n is put: over his own, at the end, or, if he has none,
\* over the oldest.
Place(f, n, i) ==
  \/ i \in DOMAIN f /\ f[i].nick = n
  \/ /\ \A j \in DOMAIN f : f[j].nick # n
     /\ \/ i = Len(f) + 1
        \/ /\ i \in DOMAIN f
           /\ (date = "onward" /\ f[i].nick \notin Longest) =>
                \A j \in DOMAIN f : f[j].nick \notin Longest => f[i].time <= f[j].time

\* g is f with r at i, which may be behind its end.
IsPut(g, f, i, r) ==
  /\ g \in Seq(Records) /\ DOMAIN g = DOMAIN f \cup {i} /\ g[i] = r
  /\ \A j \in DOMAIN f : j # i => g[j] = f[j]
  /\ Len(g) = IF i = Len(f) + 1 THEN Len(f) + 1 ELSE Len(f)

\* A record is put at a place of the table, or behind its last.
LEMMA RecordIsPut ==
  ASSUME NEW f \in Seq(Records), NEW i \in 1..(Len(f) + 1), NEW r \in Records
  PROVE  IsPut(At_i(f, i, r), f, i, r)
<1> USE DEF IsPut
<1>1. Len(f) \in Nat /\ DOMAIN f = 1..Len(f)
  OBVIOUS
<1>2. CASE i = Len(f) + 1
  <2>1. /\ Append(f, r) \in Seq(Records) /\ Len(Append(f, r)) = Len(f) + 1
        /\ DOMAIN Append(f, r) = 1..(Len(f) + 1)
        /\ Append(f, r)[Len(f) + 1] = r /\ \A j \in 1..Len(f) : Append(f, r)[j] = f[j]
    OBVIOUS
  <2>2. 1..(Len(f) + 1) = 1..Len(f) \cup {Len(f) + 1}
    BY <1>1
  <2> QED
    BY <1>1, <1>2, <2>1, <2>2 DEF At_i
<1>3. CASE i # Len(f) + 1
  <2>1. i \in 1..Len(f)
    BY <1>1, <1>3
  <2>2. /\ [f EXCEPT ![i] = r] \in Seq(Records) /\ Len([f EXCEPT ![i] = r]) = Len(f)
        /\ DOMAIN [f EXCEPT ![i] = r] = 1..Len(f)
    BY <1>1, <2>1
  <2> QED
    BY <1>1, <1>3, <2>1, <2>2 DEF At_i
<1> QED
  BY <1>2, <1>3

\* With his own time, the record of n leaves the records true.
LEMMA PutKeeps ==
  ASSUME NEW f \in Seq(Records), NEW l \in [People -> 0..MaxTime], Good(f, l),
         NEW n \in People, NEW i \in 1..(Len(f) + 1), Place(f, n, i),
         SeenAssumption, time_now \in Nat, Record(n, time_now) \in Records, Passed(l)
  PROVE  Good(At_i(f, i, Record(n, time_now)), [l EXCEPT ![n] = time_now])
<1> DEFINE g == At_i(f, i, Record(n, time_now))
           m == [l EXCEPT ![n] = time_now]
<1>1. /\ DOMAIN g = DOMAIN f \cup {i} /\ g[i].nick = n /\ g[i].time = time_now
      /\ \A j \in DOMAIN f : j # i => g[j] = f[j]
  <2>1. Record(n, time_now).nick = n /\ Record(n, time_now).time = time_now
    BY DEF Record
  <2>2. /\ DOMAIN g = DOMAIN f \cup {i} /\ g[i] = Record(n, time_now)
        /\ \A j \in DOMAIN f : j # i => g[j] = f[j]
    <3>1. IsPut(g, f, i, Record(n, time_now))
      BY RecordIsPut, Zenon
    <3> QED
      BY <3>1, Zenon DEF IsPut
  <2> QED
    BY <2>1, <2>2
<1>2. m[n] = time_now /\ \A k \in People : k # n => m[k] = l[k]
  OBVIOUS
<1>3. \A j \in DOMAIN f : f[j].nick \in People /\ f[j].time \in Nat
  BY InTable
<1>4. \A j \in DOMAIN f : j # i => f[j].nick # n
  BY DEF Good, Place
<1> HIDE DEF g, m
<1>5. \A j, k \in DOMAIN g : g[j].nick = g[k].nick => j = k
  BY <1>1, <1>4 DEF Good
<1>6. \A j \in DOMAIN g : g[j].nick \notin Longest => g[j].time = m[g[j].nick]
  BY <1>1, <1>2, <1>3, <1>4 DEF Good
<1>7. ASSUME date = "onward", NEW k \in People \ Longest, \A j \in DOMAIN g : g[j].nick # k,
             NEW j \in DOMAIN g, g[j].nick \notin Longest
      PROVE  m[k] <= g[j].time
  <2>1. k # n /\ m[k] = l[k] /\ l[k] <= time_now
    BY <1>1, <1>2, <1>7 DEF Passed
  <2>2. CASE j = i
    BY <1>1, <2>1, <2>2
  <2>3. CASE j # i
    <3>1. j \in DOMAIN f /\ g[j] = f[j]
      BY <1>1, <2>3
    <3>2. CASE \A h \in DOMAIN f : f[h].nick # k
      BY <1>7, <2>1, <3>1, <3>2 DEF Good
    <3>3. CASE \E h \in DOMAIN f : f[h].nick = k
      <4>1. i \in DOMAIN f /\ f[i].nick = k
        BY <1>1, <1>7, <3>3
      <4>2. f[i].time <= f[j].time
        BY <1>7, <2>1, <3>1, <4>1 DEF Place
      <4>3. f[i].time = l[k]
        BY <1>7, <4>1 DEF Good
      <4> QED
        BY <2>1, <3>1, <4>2, <4>3
    <3> QED
      BY <3>2, <3>3
  <2> QED
    BY <2>2, <2>3
<1>8. Good(g, m)
  BY <1>5, <1>6, <1>7 DEF Good
<1> QED
  BY <1>8 DEF g, m

\* What a file has of a nick that is in it, and of one that is not.
LEMMA ForgottenIs ==
  ASSUME NEW f \in Seq(Records), SeenAssumption, NEW n
  PROVE  /\ (\A j \in DOMAIN f : f[j].nick # n) => Forgotten(f, n) = 0
         /\ (\E j \in DOMAIN f : f[j].nick = n) =>
              \E j \in DOMAIN f : f[j].nick = n /\ Forgotten(f, n) = f[j].time
         /\ Forgotten(f, n) \in 0..MaxTime
<1> DEFINE is == {j \in DOMAIN f : f[j].nick = n}
<1>1. CASE is = {}
  <2>1. Forgotten(f, n) = 0
    BY <1>1, Zenon DEF Forgotten
  <2> QED
    BY <1>1, <2>1 DEF SeenAssumption
<1>2. CASE is # {}
  <2>1. Forgotten(f, n) = f[CHOOSE j \in is : TRUE].time
    BY <1>2, Zenon DEF Forgotten
  <2>2. (CHOOSE j \in is : TRUE) \in is
    BY <1>2, Zenon
  <2>3. \E j \in DOMAIN f : f[j].nick = n /\ Forgotten(f, n) = f[j].time
    BY <2>1, <2>2, Zenon
  <2>4. Forgotten(f, n) \in 0..MaxTime
    BY <2>3, InTable
  <2>5. is # {} => ~ (\A j \in DOMAIN f : f[j].nick # n)
    BY Zenon
  <2> QED
    BY <1>2, <2>3, <2>4, <2>5
<1> QED
  BY <1>1, <1>2

\* What is forgotten is what the records there are without it.
LEMMA ForgettingKeeps ==
  ASSUME NEW f \in Seq(Records), NEW l \in [People -> 0..MaxTime], Good(f, l),
         NEW n \in People, NEW t \in 0..MaxTime, SeenAssumption
  PROVE  Good(f, [[l EXCEPT ![n] = t] EXCEPT ![n] = Forgotten(f, n)])
<1> DEFINE m == [[l EXCEPT ![n] = t] EXCEPT ![n] = Forgotten(f, n)]
<1>1. m[n] = Forgotten(f, n) /\ \A k \in People : k # n => m[k] = l[k]
  OBVIOUS
<1>2. \A j \in DOMAIN f : f[j].nick \in People /\ f[j].time \in Nat
  BY InTable
<1> HIDE DEF m
<1>3. ASSUME NEW j \in DOMAIN f, f[j].nick \notin Longest PROVE f[j].time = m[f[j].nick]
  <2>1. CASE f[j].nick = n
    <3>1. PICK h \in DOMAIN f : f[h].nick = n /\ Forgotten(f, n) = f[h].time
      BY <2>1, ForgottenIs
    <3>2. h = j
      BY <2>1, <3>1 DEF Good
    <3> QED
      BY <1>1, <2>1, <3>1, <3>2
  <2>2. CASE f[j].nick # n
    BY <1>1, <1>2, <1>3, <2>2 DEF Good
  <2> QED
    BY <2>1, <2>2
<1>4. ASSUME date = "onward", NEW k \in People \ Longest, \A j \in DOMAIN f : f[j].nick # k,
             NEW j \in DOMAIN f, f[j].nick \notin Longest
      PROVE  m[k] <= f[j].time
  <2>1. CASE k = n
    <3>1. m[k] = 0
      BY <1>1, <1>4, <2>1, ForgottenIs
    <3> QED
      BY <1>2, <3>1
  <2>2. CASE k # n
    BY <1>1, <1>4, <2>2 DEF Good
  <2> QED
    BY <2>1, <2>2
<1>5. \A j, h \in DOMAIN f : f[j].nick = f[h].nick => j = h
  BY DEF Good
<1>6. Good(f, m)
  BY <1>3, <1>4, <1>5 DEF Good
<1> QED
  BY <1>6 DEF m

\* The table's index for n is a place for n in the file that will be.
LEMMA IndexIsPlace ==
  ASSUME SInv, SeenAssumption, NEW n \in People
  PROVE  \E i \in 1..(Len(Flushed) + 1) :
           i <= SEEN_MAX /\ Place(Flushed, n, i) /\ (update_seen(n) => write_seen(n, i))
<1>1. /\ seen \in Seq(Records) /\ Flushed \in Seq(Records)
      /\ DOMAIN seen = DOMAIN Flushed /\ Len(seen) <= SEEN_MAX /\ SEEN_MAX \in Nat \ {0}
      /\ \A j \in DOMAIN Flushed : seen[j].nick = Flushed[j].nick
      /\ \A j \in DOMAIN Flushed :
           Flushed[j].nick \notin Longest => seen[j].time = Flushed[j].time
  BY DEF SInv, SeenTypeOK, Alike, SeenAssumption
<1>2. /\ Len(seen) = Len(Flushed) /\ Len(seen) \in Nat
      /\ DOMAIN seen = 1..Len(seen) /\ DOMAIN Flushed = 1..Len(seen)
  BY <1>1
<1>3. CASE At(n) # {}
  <2> DEFINE i == CHOOSE j \in At(n) : TRUE
  <2>1. i \in At(n)
    BY <1>3, Zenon
  <2>2. update_seen(n) => write_seen(n, i)
    BY <1>3, Zenon DEF update_seen
  <2> HIDE DEF i
  <2>3. i \in DOMAIN Flushed /\ Flushed[i].nick = n
    BY <1>1, <2>1 DEF At
  <2>4. Place(Flushed, n, i)
    BY <2>3 DEF Place
  <2> QED
    BY <1>1, <1>2, <2>2, <2>3, <2>4
<1>4. CASE At(n) = {}
  <2>1. \A j \in DOMAIN Flushed : Flushed[j].nick # n
    BY <1>1, <1>4 DEF At
  <2>2. CASE Len(seen) = SEEN_MAX
    <3>1. /\ Oldest \in DOMAIN seen
          /\ \/ \A j \in DOMAIN seen : seen[j].time >= time_now
             \/ \A j \in DOMAIN seen : seen[Oldest].time <= seen[j].time
      BY <1>1, <2>2, OldestFound
    <3>2. update_seen(n) => write_seen(n, Oldest)
      BY <1>4, <2>2, Zenon DEF update_seen
    <3>3. Oldest \in DOMAIN Flushed
      BY <1>1, <3>1
    <3>4. ASSUME date = "onward", Flushed[Oldest].nick \notin Longest, NEW j \in DOMAIN Flushed,
                 Flushed[j].nick \notin Longest
          PROVE  Flushed[Oldest].time <= Flushed[j].time
      <4>1. /\ seen[j].time = Flushed[j].time /\ seen[Oldest].time = Flushed[Oldest].time
            /\ j \in DOMAIN seen
        BY <1>1, <3>3, <3>4
      <4>2. /\ Flushed[j].time \in Nat /\ Flushed[Oldest].time \in Nat /\ time_now \in Nat
            /\ Flushed[Oldest].time <= time_now
        <5>1. time_now \in Nat
          BY DEF SInv, SeenTypeOK, SeenAssumption
        <5>2. Timely(Flushed)
          BY Zenon DEF SInv
        <5> QED
          BY <1>1, <3>3, <3>4, <5>1, <5>2, InTable DEF Timely
      <4>3. CASE \A h \in DOMAIN seen : seen[h].time >= time_now
        BY <4>1, <4>2, <4>3
      <4>4. CASE \A h \in DOMAIN seen : seen[Oldest].time <= seen[h].time
        BY <4>1, <4>4
      <4> QED
        BY <3>1, <4>3, <4>4
    <3>5. Place(Flushed, n, Oldest)
      BY <2>1, <3>3, <3>4 DEF Place
    <3>6. Oldest \in 1..(Len(Flushed) + 1) /\ Oldest <= SEEN_MAX
      BY <1>1, <1>2, <3>3
    <3> QED
      BY <3>2, <3>5, <3>6
  <2>3. CASE Len(seen) # SEEN_MAX
    <3>1. update_seen(n) => write_seen(n, Len(seen) + 1)
      BY <1>4, <2>3, Zenon DEF update_seen
    <3>2. Place(Flushed, n, Len(seen) + 1)
      BY <1>2, <2>1 DEF Place
    <3>3. Len(seen) + 1 \in 1..(Len(Flushed) + 1) /\ Len(seen) + 1 <= SEEN_MAX
      <4>1. \A x \in Nat, y \in Nat \ {0} :
              x <= y /\ x # y => x + 1 \in 1..(x + 1) /\ x + 1 <= y
        OBVIOUS
      <4>2. Len(seen) + 1 \in 1..(Len(seen) + 1) /\ Len(seen) + 1 <= SEEN_MAX
        BY <1>1, <1>2, <2>3, <4>1, Zenon
      <4> QED
        BY <1>2, <4>2, Zenon
    <3> QED
      BY <3>1, <3>2, <3>3, Zenon
  <2> QED
    BY <2>2, <2>3
<1> QED
  BY <1>3, <1>4

-----------------------------------------------------------------------------
(* The initial states and the steps.                                          *)

\* What is in the file at the start is what setup_seen reads.
LEMMA SInvInit ==
  ASSUME SeenAssumption, SeenInit
  PROVE  SInv
<1>1. Flushed = disk /\ AfterCrash = last
  BY DEF SeenInit, Flushed, AfterCrash
<1>2. /\ disk \in Seq(Records) /\ Len(disk) = 0 /\ DOMAIN disk = {} /\ DOMAIN seen = {}
      /\ seen \in Seq(Records) /\ Len(seen) = 0
  BY DEF SeenInit
<1>3. /\ 0 <= SEEN_MAX /\ 1 \in 1..MaxTime /\ 0 \in 0..MaxTime /\ 0 \in 0..MaxRestarts
  BY DEF SeenAssumption
<1>4. last \in [People -> 0..MaxTime] /\ \A n \in People : last[n] = 0
  BY <1>3 DEF SeenInit
<1>5. SeenTypeOK
  <2>1. /\ second \subseteq People /\ due \subseteq People /\ kicked \subseteq People
        /\ date \in {"onward", "back"}
    BY Zenon DEF SeenInit
  <2> QED
    BY <1>2, <1>3, <1>4, <2>1 DEF SeenTypeOK, SeenInit
<1>6. Good(disk, last) /\ Timely(disk) /\ Alike(seen, disk)
  BY <1>2 DEF Good, Timely, Alike
<1>7. Passed(last) /\ second = due /\ AtMostOne(second)
  BY <1>4 DEF SeenInit, Passed, AtMostOne
<1> QED
  BY <1>1, <1>2, <1>3, <1>5, <1>6, <1>7 DEF SInv

\* One who did something is recorded.
LEMMA UpdateKeeps ==
  ASSUME SInv, SeenAssumption, NEW n \in People, update_seen(n),
         last' = [last EXCEPT ![n] = time_now], UNCHANGED <<time_now, restarts, date>>,
         second' = due', AtMostOne(second'), second' \subseteq People, kicked' \subseteq People
  PROVE  SInv'
<1> DEFINE R == Record(n, time_now)
<1>1. /\ SeenTypeOK /\ seen \in Seq(Records) /\ Flushed \in Seq(Records)
      /\ time_now \in 1..MaxTime /\ time_now \in Nat /\ last \in [People -> 0..MaxTime]
      /\ Timely(Flushed) /\ Good(Flushed, last) /\ Alike(seen, Flushed)
      /\ Passed(last)
  BY DEF SInv, SeenTypeOK
<1>2. R \in Records /\ R.nick = n /\ R.time = time_now
  BY <1>1 DEF Record, Records, SeenAssumption
<1>3. PICK i \in 1..(Len(Flushed) + 1) :
        i <= SEEN_MAX /\ Place(Flushed, n, i) /\ (update_seen(n) => write_seen(n, i))
  BY IndexIsPlace
<1>4. /\ seen' = At_i(seen, i, R) /\ disk' = Flushed /\ pending' = <<i, R>>
      /\ last' = [last EXCEPT ![n] = time_now]
      /\ time_now' = time_now /\ restarts' = restarts
  BY <1>3, Zenon DEF write_seen
<1>5. /\ DOMAIN seen = DOMAIN Flushed /\ Len(seen) = Len(Flushed) /\ Len(seen) \in Nat
      /\ Len(seen) <= SEEN_MAX /\ SEEN_MAX \in Nat
  BY <1>1 DEF Alike, SeenTypeOK, SeenAssumption
<1>6. i \in 1..SEEN_MAX /\ i \in 1..(Len(seen) + 1)
  BY <1>3, <1>5
<1>7. pending' # Nothing /\ pending'[1] = i /\ pending'[2] = R
  BY <1>4 DEF Nothing
<1>8. Flushed' = At_i(Flushed, i, R)
  BY <1>4, <1>7, Zenon DEF Flushed
<1> HIDE DEF R
<1>9. /\ seen' \in Seq(Records) /\ DOMAIN seen' = DOMAIN seen \cup {i} /\ seen'[i] = R
      /\ \A j \in DOMAIN seen : j # i => seen'[j] = seen[j]
      /\ Len(seen') = IF i = Len(seen) + 1 THEN Len(seen) + 1 ELSE Len(seen)
  <2>1. IsPut(At_i(seen, i, R), seen, i, R)
    BY <1>1, <1>2, <1>6, RecordIsPut, Zenon
  <2>2. IsPut(seen', seen, i, R)
    BY <1>4, <2>1, Zenon
  <2> QED
    BY <2>2, Zenon DEF IsPut
<1>10. /\ Flushed' \in Seq(Records) /\ DOMAIN Flushed' = DOMAIN Flushed \cup {i}
       /\ Flushed'[i] = R
       /\ \A j \in DOMAIN Flushed : j # i => Flushed'[j] = Flushed[j]
  <2>1. IsPut(At_i(Flushed, i, R), Flushed, i, R)
    BY <1>1, <1>2, RecordIsPut, Zenon
  <2>2. IsPut(Flushed', Flushed, i, R)
    BY <1>8, <2>1, Zenon
  <2> QED
    BY <2>2, Zenon DEF IsPut
<1>11. SeenTypeOK'
  <2>1. Len(seen') <= SEEN_MAX
    BY <1>5, <1>6, <1>9
  <2>2. pending' \in (1..SEEN_MAX) \X Records
    BY <1>2, <1>4, <1>6
  <2>3. last' \in [People -> 0..MaxTime]
    BY <1>1, <1>4 DEF SeenAssumption
  <2>4. time_now' \in 1..MaxTime /\ restarts' \in 0..MaxRestarts
    BY <1>1, <1>4 DEF SeenTypeOK
  <2>5. disk' \in Seq(Records)
    BY <1>1, <1>4
  <2>6. /\ second' \subseteq People /\ due' \subseteq People /\ kicked' \subseteq People
        /\ date' \in {"onward", "back"}
    <3>1. date' \in {"onward", "back"}
      BY Zenon DEF SInv, SeenTypeOK
    <3> QED
      BY <3>1
  <2> QED
    BY <1>9, <2>1, <2>2, <2>3, <2>4, <2>5, <2>6 DEF SeenTypeOK
<1>12. Len(disk') <= SEEN_MAX /\ Timely(disk)'
  BY <1>1, <1>4, <1>5 DEF Timely
<1>13. Good(disk', AfterCrash')
  <2>1. AfterCrash' = [last' EXCEPT ![n] = Forgotten(disk', n)]
    BY <1>2, <1>7, Zenon DEF AfterCrash
  <2>2. time_now \in 0..MaxTime
    BY <1>1 DEF SeenAssumption
  <2>3. Good(Flushed, [[last EXCEPT ![n] = time_now] EXCEPT ![n] = Forgotten(Flushed, n)])
    BY <1>1, <2>2, ForgettingKeeps
  <2> QED
    BY <1>4, <2>1, <2>3
<1>14. Timely(Flushed)'
  BY <1>1, <1>2, <1>4, <1>10 DEF Timely
<1>15. Good(Flushed', last')
  <2>1. /\ Place(Flushed, n, i) /\ i \in 1..(Len(Flushed) + 1)
        /\ Record(n, time_now) \in Records /\ Flushed \in Seq(Records)
    BY <1>1, <1>2, <1>3, Zenon DEF R
  <2>2. Good(At_i(Flushed, i, Record(n, time_now)), [last EXCEPT ![n] = time_now])
    BY <1>1, <2>1, PutKeeps
  <2> QED
    BY <1>4, <1>8, <2>2, Zenon DEF R
<1>16. Alike(seen', Flushed')
  BY <1>1, <1>9, <1>10 DEF Alike
<1>17. Passed(last)'
  <2> SUFFICES ASSUME date = "onward", NEW k \in People \ Longest PROVE last'[k] <= time_now'
    BY DEF Passed
  <2>1. last[k] <= time_now
    BY <1>1 DEF Passed
  <2> QED
    BY <1>1, <1>4, <2>1
<1>18. Good(disk, AfterCrash)' /\ Good(Flushed, last)' /\ Alike(seen, Flushed)'
  BY <1>13, <1>15, <1>16 DEF Good, Alike
<1>19. AtMostOne(second)'
  BY DEF AtMostOne
<1> QED
  BY <1>10, <1>11, <1>12, <1>14, <1>17, <1>18, <1>19, Zenon DEF SInv

\* An event, up to its second record.
LEMMA SeenEventKeeps ==
  ASSUME SInv, SeenAssumption, NEW kind, NEW n \in People, NEW m \in People,
         seen_event(kind, n, m)
  PROVE  SInv'
<1>1. update_seen(n) /\ UNCHANGED <<time_now, restarts, date>>
  BY DEF seen_event
<1>2. last' = [last EXCEPT ![n] = time_now]
  BY DEF seen_event, Recorded, Doers
<1>3. second' = due' /\ AtMostOne(second') /\ second' \subseteq People /\ kicked' \subseteq People
  BY DEF seen_event, Recorded, Doers, AtMostOne
<1> QED
  BY <1>1, <1>2, <1>3, UpdateKeeps

\* The second record of a NICK.
LEMMA SecondKeeps ==
  ASSUME SInv, SeenAssumption, NEW n \in People, seen_second(n)
  PROVE  SInv'
<1>1. update_seen(n) /\ UNCHANGED <<time_now, restarts, date, kicked>> /\ second' = {}
  BY DEF seen_second
<1>2. n \in due /\ due \ {n} = {} /\ kicked \subseteq People
  BY DEF seen_second, SInv, AtMostOne, SeenTypeOK
<1>3. last' = [last EXCEPT ![n] = time_now] /\ due' = {}
  BY <1>2 DEF seen_second, Recorded
<1>4. AtMostOne(second') /\ second' = due' /\ second' \subseteq People /\ kicked' \subseteq People
  BY <1>1, <1>2, <1>3 DEF AtMostOne
<1> QED
  BY <1>1, <1>3, <1>4, UpdateKeeps

\* Time passes.
LEMMA LaterKeeps ==
  ASSUME SInv, SeenAssumption, Later
  PROVE  SInv'
<1>1. /\ time_now' = time_now + 1 /\ time_now < MaxTime /\ time_now \in 1..MaxTime
      /\ MaxTime \in Nat /\ kicked' = {}
      /\ UNCHANGED <<seen, disk, pending, restarts, second, last, due, date>>
  BY DEF Later, SInv, SeenTypeOK, SeenAssumption
<1>2. Flushed' = Flushed /\ AfterCrash' = AfterCrash
  BY <1>1 DEF Flushed, AfterCrash, Forgotten
<1>3. SeenTypeOK'
  <2>1. time_now' \in 1..MaxTime
    BY <1>1
  <2>2. /\ second' \subseteq People /\ due' \subseteq People /\ kicked' \subseteq People
        /\ date' \in {"onward", "back"}
    BY <1>1 DEF SInv, SeenTypeOK
  <2> QED
    BY <1>1, <2>1, <2>2 DEF SInv, SeenTypeOK
<1>5. Timely(disk)' /\ Timely(Flushed)'
  <2>1. \A j \in DOMAIN disk : disk[j].time \in Nat
    BY InTable DEF SInv, SeenTypeOK
  <2>2. \A j \in DOMAIN Flushed : Flushed[j].time \in Nat
    BY InTable DEF SInv
  <2> QED
    BY <1>1, <1>2, <2>1, <2>2 DEF Timely, SInv
<1>6. Passed(last)'
  <2>1. \A k \in People \ Longest : last[k] \in 0..MaxTime
    BY DEF SInv, SeenTypeOK
  <2> QED
    BY <1>1, <2>1 DEF SInv, Passed
<1>7. Good(disk, AfterCrash)' /\ Good(Flushed, last)' /\ Alike(seen, Flushed)'
  BY <1>1, <1>2 DEF Good, Alike, SInv
<1>8. second' = due' /\ AtMostOne(second)'
  BY <1>1 DEF SInv, AtMostOne
<1> QED
  BY <1>1, <1>2, <1>3, <1>5, <1>6, <1>7, <1>8 DEF SInv

\* The date is set back.
LEMMA SetBackKeeps ==
  ASSUME SInv, SeenAssumption, SetBack
  PROVE  SInv'
<1>1. /\ UNCHANGED <<seen, disk, pending, restarts, second, last, due>>
      /\ kicked' = {} /\ date' = "back"
  BY DEF SetBack
<1>2. Flushed' = Flushed /\ AfterCrash' = AfterCrash
  BY <1>1 DEF Flushed, AfterCrash, Forgotten
<1>3. SeenTypeOK'
  <2>1. PICK t \in 1 .. time_now - 1 : time_now' = t
    BY DEF SetBack
  <2>2. time_now' \in 1..MaxTime
    BY <2>1 DEF SInv, SeenTypeOK, SeenAssumption
  <2>3. /\ second' \subseteq People /\ due' \subseteq People /\ kicked' \subseteq People
        /\ date' \in {"onward", "back"}
    BY <1>1 DEF SInv, SeenTypeOK
  <2> QED
    BY <1>1, <2>2, <2>3 DEF SInv, SeenTypeOK
<1>4. Timely(disk)' /\ Timely(Flushed)' /\ Passed(last)'
  BY <1>1, Zenon DEF Timely, Passed
<1>5. Good(disk, AfterCrash)' /\ Good(Flushed, last)' /\ Alike(seen, Flushed)'
  BY <1>1, <1>2 DEF Good, Alike, SInv
<1>6. second' = due' /\ AtMostOne(second)'
  BY <1>1 DEF SInv, AtMostOne
<1> QED
  BY <1>1, <1>2, <1>3, <1>4, <1>5, <1>6 DEF SInv

\* The program is started again on the records of f, of which l tells the truth.
LEMMA LoadKeeps ==
  ASSUME SInv, SeenAssumption,
         NEW f \in Seq(Records), Len(f) <= SEEN_MAX, Timely(f), Good(f, last'), Load(f),
         last' \in [People -> 0..MaxTime], Passed(last')
  PROVE  SInv'
<1>1. /\ second' = {} /\ due' = {} /\ kicked' = {} /\ date' = date
      /\ disk' = f /\ pending' = Nothing /\ time_now' = time_now
      /\ restarts' = restarts + 1 /\ restarts < MaxRestarts
      /\ seen' = [i \in DOMAIN f |-> Read(f[i])]
  BY DEF Load
<1>2. Flushed' = f /\ AfterCrash' = last'
  BY <1>1 DEF Flushed, AfterCrash
<1>3. /\ Len(f) \in Nat /\ DOMAIN f = 1..Len(f)
      /\ \A j \in DOMAIN f : f[j] \in Records /\ f[j].nick \in People
  BY InTable
<1>4. \A r \in Records : /\ Read(r) \in Records /\ Read(r).nick = r.nick
                         /\ r.nick \notin Longest => Read(r).time = r.time
  BY DEF Read, Record, Records, SeenAssumption
<1>5. seen' \in Seq(Records) /\ Len(seen') = Len(f) /\ DOMAIN seen' = DOMAIN f
  <2>1. seen' \in [1..Len(f) -> Records]
    BY <1>1, <1>3, <1>4
  <2> QED
    BY <1>3, <2>1, LenProperties, SeqDef
<1>6. Alike(seen', f)
  BY <1>1, <1>3, <1>4 DEF Alike
<1>7. SeenTypeOK'
  <2>1. time_now' \in 1..MaxTime
    BY <1>1 DEF SInv, SeenTypeOK
  <2>2. restarts' \in 0..MaxRestarts
    BY <1>1 DEF SInv, SeenTypeOK, SeenAssumption
  <2>3. /\ second' \subseteq People /\ due' \subseteq People /\ kicked' \subseteq People
        /\ date' \in {"onward", "back"}
    BY <1>1 DEF SInv, SeenTypeOK
  <2> QED
    BY <1>1, <1>5, <2>1, <2>2, <2>3 DEF SeenTypeOK
<1>8. Timely(disk)' /\ Timely(Flushed)'
  BY <1>1, <1>2 DEF Timely
<1>9. Good(disk, AfterCrash)' /\ Good(Flushed, last)' /\ Alike(seen, Flushed)'
  BY <1>1, <1>2, <1>6 DEF Good, Alike
<1>10. Passed(last)' /\ second' = due' /\ AtMostOne(second)'
  BY <1>1 DEF Passed, AtMostOne
<1> QED
  BY <1>1, <1>2, <1>7, <1>8, <1>9, <1>10 DEF SInv

\* The program is stopped and started: what the stream kept is in the file.
LEMMA RestartKeeps ==
  ASSUME SInv, SeenAssumption, Restart
  PROVE  SInv'
<1>1. /\ Flushed \in Seq(Records) /\ Timely(Flushed) /\ Good(Flushed, last)
      /\ seen \in Seq(Records) /\ Len(seen) <= SEEN_MAX /\ DOMAIN seen = DOMAIN Flushed
      /\ last \in [People -> 0..MaxTime] /\ Passed(last)
  BY DEF SInv, SeenTypeOK, Alike
<1>2. Len(Flushed) <= SEEN_MAX
  BY <1>1
<1>3. Load(Flushed) /\ last' = last
  BY DEF Restart
<1>4. Good(Flushed, last') /\ Passed(last') /\ last' \in [People -> 0..MaxTime]
  BY <1>1, <1>3
<1> QED
  BY <1>1, <1>2, <1>3, <1>4, LoadKeeps

\* The program is killed: what the stream kept is lost.
LEMMA KillKeeps ==
  ASSUME SInv, SeenAssumption, Kill
  PROVE  SInv'
<1>1. /\ disk \in Seq(Records) /\ Len(disk) <= SEEN_MAX /\ Timely(disk)
      /\ Good(disk, AfterCrash) /\ time_now \in 1..MaxTime
      /\ last \in [People -> 0..MaxTime] /\ Passed(last)
      /\ pending = Nothing \/ pending \in (1..SEEN_MAX) \X Records
  BY DEF SInv, SeenTypeOK
<1>2. last' = AfterCrash /\ Load(disk)
  BY DEF Kill, AfterCrash
<1>3. CASE pending = Nothing
  <2>1. last' = last
    BY <1>2, <1>3 DEF AfterCrash
  <2> QED
    BY <1>1, <1>2, <2>1, LoadKeeps
<1>4. CASE pending # Nothing
  <2> DEFINE n == pending[2].nick
  <2>1. n \in People
    BY <1>1, <1>4 DEF Records
  <2>2. last' = [last EXCEPT ![n] = Forgotten(disk, n)]
    BY <1>2, <1>4 DEF AfterCrash
  <2>3. Forgotten(disk, n) \in 0..MaxTime
    BY <1>1, ForgottenIs
  <2>4. ASSUME date = "onward" PROVE Forgotten(disk, n) <= time_now
    <3>1. CASE \A j \in DOMAIN disk : disk[j].nick # n
      BY <1>1, <3>1, ForgottenIs
    <3>2. CASE \E j \in DOMAIN disk : disk[j].nick = n
      <4>1. PICK j \in DOMAIN disk : Forgotten(disk, n) = disk[j].time
        BY <1>1, <3>2, ForgottenIs
      <4> QED
        BY <1>1, <2>4, <4>1 DEF Timely
    <3> QED
      BY <3>1, <3>2
  <2> HIDE DEF n
  <2>5. last' \in [People -> 0..MaxTime] /\ Passed(last')
    BY <1>1, <2>1, <2>2, <2>3, <2>4 DEF Passed
  <2> QED
    BY <1>1, <1>2, <2>5, LoadKeeps
<1> QED
  BY <1>3, <1>4

\* Every step.
LEMMA SInvStep ==
  ASSUME SeenAssumption
  PROVE  SInv /\ [SeenNext]_seenVars => SInv'
<1> SUFFICES ASSUME SInv, [SeenNext]_seenVars PROVE SInv'
  OBVIOUS
<1>1. CASE \E n, m \in People : \E kind \in {"JOIN", "KICK", "NICK"} : seen_event(kind, n, m)
  BY <1>1, SeenEventKeeps
<1>2. CASE \E n \in People : seen_second(n)
  BY <1>2, SecondKeeps
<1>3. CASE Later
  BY <1>3, LaterKeeps
<1>4. CASE SetBack
  BY <1>4, SetBackKeeps
<1>5. CASE Restart
  BY <1>5, RestartKeeps
<1>6. CASE Kill
  BY <1>6, KillKeeps
<1>7. CASE UNCHANGED seenVars
  <2>1. UNCHANGED <<seen, disk, pending, time_now, restarts, second, last, due, kicked, date>>
    BY <1>7 DEF seenVars
  <2>2. Flushed' = Flushed /\ AfterCrash' = AfterCrash
    BY <2>1 DEF Flushed, AfterCrash, Forgotten
  <2>3. Good(disk, AfterCrash)' /\ Good(Flushed, last)' /\ Alike(seen, Flushed)'
    BY <2>1, <2>2 DEF SInv, Good, Alike
  <2>4. Timely(disk)' /\ Timely(Flushed)' /\ Passed(last)' /\ AtMostOne(second)'
    BY <2>1, <2>2 DEF SInv, Timely, Passed, AtMostOne
  <2>5. SeenTypeOK'
    BY <2>1 DEF SInv, SeenTypeOK
  <2> QED
    BY <2>1, <2>2, <2>3, <2>4, <2>5 DEF SInv
<1> QED
  BY <1>1, <1>2, <1>3, <1>4, <1>5, <1>6, <1>7 DEF SeenNext

\* The invariant in every state.
LEMMA SInvHolds ==
  ASSUME SeenAssumption
  PROVE  SeenSpec => []SInv
<1>1. SeenInit => SInv
  BY SInvInit
<1>2. SInv /\ [SeenNext]_seenVars => SInv'
  BY SInvStep
<1> QED
  BY <1>1, <1>2, PTL DEF SeenSpec

\* The records true of the table: those of the file it is like.
LEMMA TableIsTrue ==
  ASSUME SInv, SeenAssumption
  PROVE  SeenIsTrue
<1>1. /\ DOMAIN seen = DOMAIN Flushed /\ Good(Flushed, last)
      /\ \A i \in DOMAIN seen : seen[i].nick = Flushed[i].nick
      /\ \A i \in DOMAIN seen : Flushed[i].nick \notin Longest => seen[i].time = Flushed[i].time
  BY DEF SInv, Alike
<1>2. \A i \in DOMAIN seen :
        /\ seen[i].nick \notin Longest => seen[i].time = last[seen[i].nick]
        /\ \A j \in DOMAIN seen : seen[i].nick = seen[j].nick => i = j
  BY <1>1 DEF Good
<1>3. ASSUME date = "onward", NEW n \in People \ Longest, At(n) = {},
             NEW i \in DOMAIN seen, seen[i].nick \notin Longest
      PROVE  last[n] <= seen[i].time
  <2>1. \A j \in DOMAIN Flushed : Flushed[j].nick # n
    BY <1>1, <1>3 DEF At
  <2> QED
    BY <1>1, <1>3, <2>1 DEF Good
<1>4. second = due
  BY DEF SInv
<1> QED
  BY <1>2, <1>3, <1>4 DEF SeenIsTrue

-----------------------------------------------------------------------------
(* The theorems.                                                              *)

\* The table never has more than SEEN_MAX records, nor does the stream seek behind
\* them: the table, the file and what the stream keeps are always what their
\* declarations say.
THEOREM SeenTypeCorrect ==
  ASSUME SeenAssumption
  PROVE  SeenSpec => []SeenTypeOK
<1>1. SInv => SeenTypeOK
  BY DEF SInv
<1> QED
  BY <1>1, SInvHolds, PTL

\* What !seen answers is true for any size of the table and any people, after any
\* number of stops and crashes.
THEOREM SeenTrue ==
  ASSUME SeenAssumption
  PROVE  SeenSpec => []SeenIsTrue
<1>1. SInv => SeenIsTrue
  BY TableIsTrue
<1> QED
  BY <1>1, SInvHolds, PTL

------------------------------------------------------------------------------
(* What the server tells the bot about nicks, for any nicks, configuration of  *)
(* watch, and number of requests and messages on their way.                    *)
(*                                                                             *)
(* The argument: what the server does not watch for the bot, but should, is    *)
(* still to come, as the last of the requests about it, or as a message that   *)
(* makes the bot ask for it; and the messages on their way make of the nick    *)
(* that the bot believes to have the one that it has, one after the other.     *)

\* The core asks twice for the same nick, and takes back what it asked for: whoever
\* is identified is watched for when all requests have come.
IdWatched(n) ==
  \/ Ends(requests, <<"WATCH+", n>>, {<<"WATCH-", n>>})
  \/ n \in watching /\ ~Has(requests, <<"WATCH-", n>>)

\* A nick of the configuration is not watched for only as long as something is on
\* its way that asks for it, or that the bot answers by asking for it.
ListWatched(n) ==
  \/ \E m \in AllNicks : Has(messages, <<"ISUPPORT", m>>)
  \/ Has(messages, <<"WATCHSTOP", n>>)
  \/ Has(requests, <<"WATCH+", n>>) \/ Has(requests, <<"WATCH-", n>>)
  \/ n \in watching
  \/ named = NoNick

\* The message x makes the nick b of a.
Gives(x, a, b) ==
  IF \E m \in AllNicks : x = <<"NICK", <<a, m>>>> THEN x = <<"NICK", <<a, b>>>> ELSE b = a

\* The messages q do, one after the other.
Leads(q, a, b, f) ==
  /\ f \in [1..(Len(q) + 1) -> AllNicks] /\ f[1] = a /\ f[Len(q) + 1] = b
  /\ \A i \in 1..Len(q) : Gives(q[i], f[i], f[i + 1])
Run(q, a, b) == \E f : Leads(q, a, b, f)

NickKnown == named # NoNick => Run(messages, nick, named)

\* The messages that would change the nick of the bot.
Given == {<<"NICK", <<named, m>>>> : m \in AllNicks}

\* Where the bot has been refused, it is still to be told.
RefusalComes == named = NoNick => \E m \in AllNicks : Has(messages, <<"NICKNAMEINUSE", m>>)

\* The inductive invariant.
WInv ==
  /\ WatchTypeOK
  /\ \A n \in ids \cap Found : IdWatched(n)
  /\ \A n \in Watched : ListWatched(n)
  /\ NickKnown
  /\ RefusalComes

-----------------------------------------------------------------------------
(* What the server tells, if at all.                                          *)

\* Messages that are sent or are not.
LEMMA IfIsSeq ==
  ASSUME NEW S, NEW c, NEW m \in S
  PROVE  /\ If(c, m) \in Seq(S) /\ (c => Has(If(c, m), m))
         /\ \A x : Has(If(c, m), x) => x = m
<1>1. << >> \in Seq(S) /\ <<m>> \in Seq(S)
  OBVIOUS
<1>2. If(c, m) = <<m>> \/ If(c, m) = << >>
  BY DEF If
<1>3. c => If(c, m) = <<m>>
  BY DEF If
<1>4. \A x : ~Has(<< >>, x) /\ (Has(<<m>>, x) <=> x = m)
  BY HasNone, HasOne
<1>5. CASE If(c, m) = <<m>>
  BY <1>1, <1>4, <1>5, Zenon
<1>6. CASE If(c, m) = << >>
  BY <1>1, <1>3, <1>4, <1>6, Zenon
<1> QED
  BY <1>2, <1>5, <1>6

-----------------------------------------------------------------------------
(* What the messages make of a nick.                                          *)

\* Messages q, and r after them.
LEMMA RunConcat ==
  ASSUME NEW S, NEW q \in Seq(S), NEW r \in Seq(S), NEW a, NEW b, NEW c, Run(q, a, b), Run(r, b, c)
  PROVE  Run(q \o r, a, c)
<1>1. PICK f : Leads(q, a, b, f)
  BY DEF Run
<1>2. PICK g : Leads(r, b, c, g)
  BY DEF Run
<1> DEFINE m == Len(q)
           k == Len(r)
           h == [i \in 1..(m + k + 1) |-> IF i <= m + 1 THEN f[i] ELSE g[i - m]]
<1>3. /\ m \in Nat /\ k \in Nat /\ Len(q \o r) = m + k
      /\ \A i \in 1..m : (q \o r)[i] = q[i]
      /\ \A i \in 1..(m + k) : i > m => (q \o r)[i] = r[i - m]
  OBVIOUS
<1>4. /\ f \in [1..(m + 1) -> AllNicks] /\ f[1] = a /\ f[m + 1] = b
      /\ \A i \in 1..m : Gives(q[i], f[i], f[i + 1])
  BY <1>1 DEF Leads
<1>5. /\ g \in [1..(k + 1) -> AllNicks] /\ g[1] = b /\ g[k + 1] = c
      /\ \A i \in 1..k : Gives(r[i], g[i], g[i + 1])
  BY <1>2 DEF Leads
<1> HIDE DEF m, k
<1>6. h \in [1..(m + k + 1) -> AllNicks]
  <2> SUFFICES ASSUME NEW i \in 1..(m + k + 1) PROVE h[i] \in AllNicks
    OBVIOUS
  <2>1. CASE i <= m + 1
    BY <1>3, <1>4, <2>1
  <2>2. CASE ~(i <= m + 1)
    <3>1. i - m \in 1..(k + 1)
      BY <1>3, <2>2
    <3> QED
      BY <1>5, <2>2, <3>1
  <2> QED
    BY <2>1, <2>2
<1>7. h[1] = a
  BY <1>3, <1>4
<1>8. h[m + k + 1] = c
  <2>1. CASE k = 0
    BY <1>3, <1>4, <1>5, <2>1
  <2>2. CASE k # 0
    <3>1. ~(m + k + 1 <= m + 1) /\ (m + k + 1) - m = k + 1 /\ m + k + 1 \in 1..(m + k + 1)
      BY <1>3, <2>2
    <3> QED
      BY <1>5, <3>1
  <2> QED
    BY <2>1, <2>2
<1>9. ASSUME NEW i \in 1..(m + k) PROVE Gives((q \o r)[i], h[i], h[i + 1])
  <2>1. i \in 1..(m + k + 1) /\ i + 1 \in 1..(m + k + 1)
    BY <1>3
  <2>2. CASE i <= m
    <3>1. i \in 1..m /\ h[i] = f[i] /\ h[i + 1] = f[i + 1] /\ (q \o r)[i] = q[i]
      BY <1>3, <2>1, <2>2
    <3> QED
      BY <1>4, <3>1
  <2>3. CASE i = m + 1
    <3>1. h[i] = g[1] /\ h[i + 1] = g[2] /\ (q \o r)[i] = r[1] /\ 1 \in 1..k
      BY <1>3, <1>4, <1>5, <2>1, <2>3
    <3>2. Gives(r[1], g[1], g[2])
      BY <1>5, <3>1
    <3> QED
      BY <3>1, <3>2
  <2>4. CASE i > m + 1
    <3>1. i - m \in 1..k /\ (i + 1) - m = (i - m) + 1 /\ ~(i <= m + 1) /\ ~(i + 1 <= m + 1) /\ i > m
      BY <1>3, <2>4
    <3>2. h[i] = g[i - m] /\ h[i + 1] = g[(i - m) + 1] /\ (q \o r)[i] = r[i - m]
      BY <1>3, <2>1, <3>1
    <3> QED
      BY <1>5, <3>1, <3>2
  <2> QED
    BY <1>3, <2>2, <2>3, <2>4
<1>10. Leads(q \o r, a, c, h)
  <2> HIDE DEF h
  <2> QED
    BY <1>3, <1>6, <1>7, <1>8, <1>9 DEF Leads
<1> QED
  BY <1>10 DEF Run

\* Messages that leave a as it is.
LEMMA RunStays ==
  ASSUME NEW S, NEW q \in Seq(S), NEW a \in AllNicks, \A i \in 1..Len(q) : Gives(q[i], a, a)
  PROVE  Run(q, a, a)
<1> DEFINE f == [i \in 1..(Len(q) + 1) |-> a]
<1>1. Len(q) \in Nat /\ f[1] = a /\ f[Len(q) + 1] = a /\ f \in [1..(Len(q) + 1) -> AllNicks]
  OBVIOUS
<1>2. \A i \in 1..Len(q) : f[i] = a /\ f[i + 1] = a
  OBVIOUS
<1>3. Leads(q, a, a, f)
  <2> HIDE DEF f
  <2> QED
    BY <1>1, <1>2 DEF Leads
<1> QED
  BY <1>3 DEF Run

\* One message.
LEMMA RunOne ==
  ASSUME NEW x, NEW a \in AllNicks, NEW b \in AllNicks, Gives(x, a, b)
  PROVE  Run(<<x>>, a, b)
<1> DEFINE f == [i \in 1..2 |-> IF i = 1 THEN a ELSE b]
<1>1. /\ Len(<<x>>) = 1 /\ f[1] = a /\ f[2] = b /\ f \in [1..2 -> AllNicks] /\ <<x>>[1] = x
      /\ 1..1 = {1} /\ 1 + 1 = 2
  OBVIOUS
<1>2. Leads(<<x>>, a, b, f)
  <2> HIDE DEF f
  <2> QED
    BY <1>1 DEF Leads
<1> QED
  BY <1>2 DEF Run

\* Without any, nothing changes.
LEMMA RunNone == ASSUME NEW a, NEW b, Run(<< >>, a, b) PROVE a = b
<1>1. PICK f : Leads(<< >>, a, b, f)
  BY DEF Run
<1>2. Len(<< >>) + 1 = 1
  OBVIOUS
<1> QED
  BY <1>1, <1>2 DEF Leads

\* The first of them, and the others.
LEMMA RunTail ==
  ASSUME NEW S, NEW q \in Seq(S), q # << >>, NEW a, NEW b, Run(q, a, b)
  PROVE  \E m \in AllNicks : Gives(Head(q), a, m) /\ Run(Tail(q), m, b)
<1>1. PICK f : Leads(q, a, b, f)
  BY DEF Run
<1> DEFINE k == Len(q)
           g == [i \in 1..k |-> f[i + 1]]
<1>2. /\ k \in Nat /\ k >= 1 /\ Len(Tail(q)) = k - 1 /\ (k - 1) + 1 = k
      /\ \A i \in 1..(k - 1) : Tail(q)[i] = q[i + 1]
  OBVIOUS
<1>3. Head(q) = q[1]
  OBVIOUS
<1>4. /\ f \in [1..(k + 1) -> AllNicks] /\ f[1] = a /\ f[k + 1] = b
      /\ \A i \in 1..k : Gives(q[i], f[i], f[i + 1])
  BY <1>1 DEF Leads
<1> HIDE DEF k
<1>5. Gives(Head(q), a, f[2]) /\ f[2] \in AllNicks
  <2>1. 1 \in 1..k /\ 1 + 1 = 2 /\ 2 \in 1..(k + 1)
    BY <1>2
  <2> QED
    BY <1>3, <1>4, <2>1
<1>6. g \in [1..k -> AllNicks] /\ g[1] = f[2] /\ g[k] = b
  <2>1. \A i \in 1..k : i + 1 \in 1..(k + 1)
    BY <1>2
  <2> QED
    BY <1>2, <1>4, <2>1
<1>7. ASSUME NEW i \in 1..(k - 1) PROVE Gives(Tail(q)[i], g[i], g[i + 1])
  <2>1. i \in 1..k /\ i + 1 \in 1..k
    BY <1>2
  <2>2. g[i] = f[i + 1] /\ g[i + 1] = f[(i + 1) + 1]
    BY <2>1
  <2>3. Gives(q[i + 1], f[i + 1], f[(i + 1) + 1])
    BY <1>4, <2>1
  <2> QED
    BY <1>2, <2>2, <2>3
<1>8. Leads(Tail(q), f[2], b, g)
  <2> HIDE DEF g
  <2> QED
    BY <1>2, <1>6, <1>7 DEF Leads
<1> QED
  BY <1>5, <1>8 DEF Run

\* What a message gives is one nick.
LEMMA GivesOne == ASSUME NEW x, NEW a, NEW b, NEW c, Gives(x, a, b), Gives(x, a, c) PROVE b = c
<1>1. \A i, j : <<"NICK", <<a, i>>>> = <<"NICK", <<a, j>>>> => i = j
  OBVIOUS
<1> QED
  BY <1>1 DEF Gives

-----------------------------------------------------------------------------
(* What the parts of the invariant need of a step.                            *)

\* Requests are added, none that takes n back.
LEMMA IdStays ==
  ASSUME NEW n, WatchTypeOK, IdWatched(n), NEW t \in Seq(Requests),
         requests' = requests \o t, ~Has(t, <<"WATCH-", n>>), watching' = watching
  PROVE  IdWatched(n)'
<1>1. requests \in Seq(Requests)
  BY DEF WatchTypeOK
<1>2. \A y \in {<<"WATCH-", n>>} : ~Has(t, y)
  OBVIOUS
<1>3. CASE Ends(requests, <<"WATCH+", n>>, {<<"WATCH-", n>>})
  <2>1. Ends(requests \o t, <<"WATCH+", n>>, {<<"WATCH-", n>>})
    BY <1>1, <1>2, <1>3, EndsConcat
  <2> QED
    BY <2>1 DEF IdWatched
<1>4. CASE n \in watching /\ ~Has(requests, <<"WATCH-", n>>)
  <2>1. ~Has(requests \o t, <<"WATCH-", n>>)
    BY <1>1, <1>4, HasConcat
  <2> QED
    BY <1>4, <2>1 DEF IdWatched
<1> QED
  BY <1>3, <1>4 DEF IdWatched

\* What asked for n is on its way still, or another request for n is.
LEMMA ListStays ==
  ASSUME NEW n, WatchTypeOK, ListWatched(n), NEW t \in Seq(Requests),
         requests' = requests \o t, watching' = watching,
         \A m \in AllNicks :
           Has(messages, <<"ISUPPORT", m>>) =>
             Has(messages', <<"ISUPPORT", m>>) \/ Has(t, <<"WATCH+", n>>),
         Has(messages, <<"WATCHSTOP", n>>) =>
           Has(messages', <<"WATCHSTOP", n>>) \/ Has(t, <<"WATCH+", n>>),
         named' = named
  PROVE  ListWatched(n)'
<1>1. requests \in Seq(Requests)
  BY DEF WatchTypeOK
<1>2. \A x : Has(requests \o t, x) <=> Has(requests, x) \/ Has(t, x)
  BY <1>1, HasConcat
<1>3. \A x : Has(requests', x) <=> Has(requests, x) \/ Has(t, x)
  BY <1>2
<1> QED
  BY <1>3, Zenon DEF ListWatched

\* Messages are added that give the bot no nick.
LEMMA NickStays ==
  ASSUME WatchTypeOK, NickKnown, NEW s \in Seq(Messages), messages' = messages \o s,
         \A x \in Given : ~Has(s, x), UNCHANGED <<named, nick>>
  PROVE  NickKnown'
<1> SUFFICES ASSUME named # NoNick PROVE Run(messages \o s, nick, named)
  BY DEF NickKnown
<1>1. messages \in Seq(Messages) /\ named \in AllNicks
  BY DEF WatchTypeOK
<1>2. ASSUME NEW i \in 1..Len(s) PROVE Gives(s[i], named, named)
  <2>1. i \in DOMAIN s
    OBVIOUS
  <2>2. Has(s, s[i])
    BY <2>1 DEF Has
  <2>3. s[i] \notin Given
    BY <2>2
  <2>4. ~ \E m \in AllNicks : s[i] = <<"NICK", <<named, m>>>>
    BY <2>3 DEF Given
  <2> QED
    BY <2>4 DEF Gives
<1>3. Run(s, named, named)
  BY <1>1, <1>2, RunStays
<1>4. Run(messages, nick, named)
  BY DEF NickKnown
<1> QED
  BY <1>1, <1>3, <1>4, RunConcat

-----------------------------------------------------------------------------
(* The steps.                                                                 *)

\* The others, and the server's word of them: nothing that changes what is asked.
Tells(s) ==
  /\ s \in Seq(Messages) /\ messages' = messages \o s
  /\ \A x \in Given : ~Has(s, x)
  /\ UNCHANGED <<requests, watching, named, bot, has_ircop, up>>
  /\ online' \subseteq AllNicks /\ named \notin online' /\ steps' \in 0..MaxSteps

\* What is told like that keeps the invariant.
LEMMA ToldKeeps == ASSUME WInv, NEW s, Tells(s) PROVE WInv'
<1> USE DEF Tells, WInv, bot
<1>1. requests \in Seq(Requests) /\ messages \in Seq(Messages)
  BY DEF WatchTypeOK
<1>2. messages \o s \in Seq(Messages)
  BY <1>1
<1>3. WatchTypeOK'
  BY <1>2, Zenon DEF WatchTypeOK, Requests, Messages
<1>4. << >> \in Seq(Requests) /\ requests = requests \o << >> /\ \A x : ~Has(<< >>, x)
  BY <1>1, SeqsClosed, HasNone, Zenon
<1>5. \A x : Has(messages, x) => Has(messages', x)
  BY <1>1, HasConcat
<1>6. \A n \in ids' \cap Found : IdWatched(n)'
  BY <1>4, IdStays, Zenon
<1>7. \A n \in Watched : ListWatched(n)'
  BY <1>4, <1>5, ListStays, Zenon
<1>8. NickKnown'
  BY NickStays, Zenon
<1>9. RefusalComes'
  BY <1>5 DEF RefusalComes, AllNicks
<1> QED
  BY <1>3, <1>6, <1>7, <1>8, <1>9 DEF Watched, Found, AllNicks

\* The others come, go, and change nicks.
LEMMA WatchStepKeeps ==
  ASSUME WInv, WatchAssumption, NEW n \in AllNicks, NEW m \in AllNicks, NEW near,
         SignOn(n) \/ SignOff(n, near) \/ Identify(n) \/ Rename(n, m, near)
  PROVE  WInv'
<1> USE DEF Step, Tell, server, bot
<1>1. /\ online \subseteq AllNicks /\ steps \in 0..MaxSteps /\ MaxSteps \in Nat
      /\ named \notin online
  BY DEF WInv, WatchTypeOK, WatchAssumption
<1>2. \A k \in {"WATCHONLINE", "WATCHOFFLINE", "QUIT", "pass"}, i \in AllNicks :
        <<k, i>> \in Messages /\ <<k, i>> \notin Given
  BY DEF Messages, Given
<1>3. steps < MaxSteps /\ steps' = steps + 1 => steps' \in 0..MaxSteps
  BY <1>1
<1>4. ASSUME NEW k \in {"WATCHONLINE", "WATCHOFFLINE", "QUIT"}, NEW i \in AllNicks, NEW c
      PROVE  If(c, <<k, i>>) \in Seq(Messages) /\ \A x \in Given : ~Has(If(c, <<k, i>>), x)
  <2>1. <<k, i>> \in Messages /\ <<k, i>> \notin Given
    BY <1>2
  <2>2. If(c, <<k, i>>) \in Seq(Messages) /\ \A x : Has(If(c, <<k, i>>), x) => x = <<k, i>>
    BY <2>1, IfIsSeq, Zenon
  <2> QED
    BY <2>1, <2>2, Zenon
<1>5. CASE SignOn(n)
  <2>1. Tells(If(n \in watching, <<"WATCHONLINE", n>>))
    <3>1. If(n \in watching, <<"WATCHONLINE", n>>) \in Seq(Messages)
          /\ \A x \in Given : ~Has(If(n \in watching, <<"WATCHONLINE", n>>), x)
      BY <1>4, Zenon
    <3>2. named \notin online \cup {n}
      BY <1>1, <1>5 DEF SignOn, Taken
    <3> QED
      BY <1>1, <1>3, <1>5, <3>1, <3>2 DEF SignOn, Tells
  <2> QED
    BY <2>1, ToldKeeps
<1>6. CASE SignOff(n, near)
  <2> DEFINE a == If(near, <<"QUIT", n>>)
             b == If(n \in watching, <<"WATCHOFFLINE", n>>)
  <2>1. a \in Seq(Messages) /\ b \in Seq(Messages) /\ \A x \in Given : ~Has(a, x) /\ ~Has(b, x)
    BY <1>4, Zenon
  <2>2. messages' = messages \o (a \o b)
    BY <1>6 DEF SignOff
  <2> HIDE DEF a, b
  <2>3. a \o b \in Seq(Messages) /\ \A x \in Given : ~Has(a \o b, x)
    BY <2>1, HasConcat, SeqsClosed, Zenon
  <2>4. Tells(a \o b)
    BY <1>1, <1>3, <1>6, <2>2, <2>3 DEF SignOff, Tells
  <2> QED
    BY <2>4, ToldKeeps
<1>7. CASE Identify(n)
  <2>1. <<<<"pass", n>>>> \in Seq(Messages) /\ \A x \in Given : ~Has(<<<<"pass", n>>>>, x)
    BY <1>1, <1>2, OneIsSeq
  <2>2. Tells(<<<<"pass", n>>>>)
    BY <1>1, <1>3, <1>7, <2>1 DEF Identify, Tells
  <2> QED
    BY <2>2, ToldKeeps
<1>8. CASE Rename(n, m, near)
  <2> DEFINE a == If(near, <<"NICK", <<n, m>>>>)
             b == If(n \in watching, <<"WATCHOFFLINE", n>>)
             c == If(m \in watching, <<"WATCHONLINE", m>>)
  <2>1. a \in Seq(Messages) /\ \A x \in Given : ~Has(a, x)
    <3>1. <<"NICK", <<n, m>>>> \in Messages
      BY DEF Messages
    <3>2. n # named
      <4>1. n \in online
        BY <1>8 DEF Rename
      <4> QED
        BY <1>1, <4>1
    <3>3. <<"NICK", <<n, m>>>> \notin Given
      BY <3>2 DEF Given
    <3>4. PICK p : p = <<"NICK", <<n, m>>>>
      OBVIOUS
    <3>5. a = If(near, p) /\ p \in Messages /\ p \notin Given
      BY <3>1, <3>3, <3>4
    <3> HIDE DEF a
    <3>6. If(near, p) \in Seq(Messages) /\ \A x : Has(If(near, p), x) => x = p
      BY <3>5, IfIsSeq, Zenon
    <3> QED
      BY <3>5, <3>6
  <2>2. b \in Seq(Messages) /\ \A x \in Given : ~Has(b, x)
    BY <1>1, <1>4
  <2>3. c \in Seq(Messages) /\ \A x \in Given : ~Has(c, x)
    BY <1>1, <1>4
  <2>4. messages' = messages \o (a \o b \o c)
    BY <1>8 DEF Rename
  <2> HIDE DEF a, b, c
  <2>5. a \o b \in Seq(Messages) /\ \A x \in Given : ~Has(a \o b, x)
    BY <2>1, <2>2, HasConcat, SeqsClosed, Zenon
  <2>6. a \o b \o c \in Seq(Messages) /\ \A x \in Given : ~Has(a \o b \o c, x)
    BY <2>3, <2>5, HasConcat, SeqsClosed, Zenon
  <2>7. Tells(a \o b \o c)
    <3>1. named \notin (online \ {n}) \cup {m}
      BY <1>1, <1>8 DEF Rename, Taken
    <3> QED
      BY <1>1, <1>3, <1>8, <2>4, <2>6, <3>1 DEF Rename, Tells
  <2> QED
    BY <2>7, ToldKeeps
<1> QED
  BY <1>5, <1>6, <1>7, <1>8

\* They use commands of the bot.
LEMMA CommandKeeps == ASSUME WInv, WatchAssumption, NEW m \in AllNicks, Command(m) PROVE WInv'
<1>1. online \subseteq AllNicks /\ named \notin online /\ steps \in 0..MaxSteps /\ MaxSteps \in Nat
  BY DEF WInv, WatchTypeOK, WatchAssumption
<1>2. <<"!nick", m>> \in Messages /\ <<"!nick", m>> \notin Given
  BY DEF Messages, Given
<1>3. <<<<"!nick", m>>>> \in Seq(Messages) /\ \A x \in Given : ~Has(<<<<"!nick", m>>>>, x)
  BY <1>2, OneIsSeq
<1>4. steps < MaxSteps /\ steps' = steps + 1 => steps' \in 0..MaxSteps
  BY <1>1
<1>5. Tells(<<<<"!nick", m>>>>)
  BY <1>1, <1>3, <1>4 DEF Command, Tells, Step, Tell, server, bot
<1> QED
  BY <1>5, ToldKeeps

\* A message is answered: nothing is given up but the identity it is about.
Answers(t) ==
  /\ t \in Seq(Requests) /\ requests' = requests \o t
  /\ messages # << >> /\ messages' = Tail(messages)
  /\ UNCHANGED <<online, watching, named, has_ircop, steps>>
  /\ supported' \in BOOLEAN /\ up' \in BOOLEAN

\* Answers keep the invariant when they leave what Answers says.
LEMMA AnswerKeeps ==
  ASSUME WInv, NEW t, Answers(t), ids' \subseteq AllNicks,
         \A n \in ids' \cap Found : \/ n \in ids /\ ~Has(t, <<"WATCH-", n>>)
                                  \/ Ends(t, <<"WATCH+", n>>, {<<"WATCH-", n>>}),
         \A n \in Watched : Head(messages) = <<"WATCHSTOP", n>> => Has(t, <<"WATCH+", n>>),
         \A n \in Watched, m \in AllNicks :
           Head(messages) = <<"ISUPPORT", m>> => Has(t, <<"WATCH+", n>>),
         \A m \in AllNicks : Head(messages) # <<"NICKNAMEINUSE", m>>,
         nick' \in AllNicks, Gives(Head(messages), nick, nick')
  PROVE  WInv'
<1> USE DEF Answers, WInv
<1>1. requests \in Seq(Requests) /\ messages \in Seq(Messages)
  BY DEF WatchTypeOK
<1>2. requests \o t \in Seq(Requests) /\ Tail(messages) \in Seq(Messages)
  BY <1>1, SeqsClosed, Zenon
<1>3. WatchTypeOK'
  BY <1>2, Zenon DEF WatchTypeOK, Requests, Messages, AllNicks
<1>4. \A x : Has(messages, x) => Head(messages) = x \/ Has(messages', x)
  BY <1>1, HasTail
<1>5. ASSUME NEW n \in ids' \cap Found PROVE IdWatched(n)'
  <2>1. CASE n \in ids /\ ~Has(t, <<"WATCH-", n>>)
    BY <2>1, IdStays
  <2>2. CASE Ends(t, <<"WATCH+", n>>, {<<"WATCH-", n>>})
    <3>1. Ends(requests \o t, <<"WATCH+", n>>, {<<"WATCH-", n>>})
      BY <1>1, <2>2, EndsConcat
    <3> QED
      BY <3>1 DEF IdWatched
  <2> QED
    BY <1>5, <2>1, <2>2
<1>6. ASSUME NEW n \in Watched PROVE ListWatched(n)'
  <2>1. \A m \in AllNicks : Has(messages, <<"ISUPPORT", m>>) =>
                          Has(messages', <<"ISUPPORT", m>>) \/ Has(t, <<"WATCH+", n>>)
    BY <1>4
  <2>2. Has(messages, <<"WATCHSTOP", n>>) =>
          Has(messages', <<"WATCHSTOP", n>>) \/ Has(t, <<"WATCH+", n>>)
    BY <1>4
  <2> QED
    BY <2>1, <2>2, ListStays DEF AllNicks
<1>7. NickKnown'
  <2> SUFFICES ASSUME named # NoNick PROVE Run(Tail(messages), nick', named)
    BY DEF NickKnown
  <2>1. Run(messages, nick, named)
    BY DEF NickKnown
  <2>2. PICK m \in AllNicks : Gives(Head(messages), nick, m) /\ Run(Tail(messages), m, named)
    BY <1>1, <2>1, RunTail
  <2>3. m = nick'
    BY <2>2, GivesOne
  <2> QED
    BY <2>2, <2>3
<1>8. RefusalComes'
  BY <1>4 DEF RefusalComes, AllNicks
<1> QED
  BY <1>3, <1>5, <1>6, <1>7, <1>8 DEF Watched, Found, AllNicks

\* A message is a pair.
LEMMA Pairs ==
  ASSUME NEW A, NEW B, NEW p \in A \X B
  PROVE  p[1] \in A /\ p[2] \in B /\ p = <<p[1], p[2]>>
  OBVIOUS

\* Pairs are equal when both parts are.
LEMMA SamePairs == \A k, l, m, n : <<k, m>> = <<l, n>> => k = l /\ m = n
  OBVIOUS

\* A message is there, of one of kinds, and goes; it is about a nick, or about two.
LEMMA Received ==
  ASSUME WInv, NEW kinds, Receive(kinds)
  PROVE  /\ messages # << >> /\ messages' = Tail(messages) /\ up
         /\ Head(messages)[1] \in kinds /\ Head(messages) = <<Head(messages)[1], It>>
         /\ ("NICK" \notin kinds => It \in AllNicks)
         /\ (kinds = {"NICK"} => It \in AllNicks \X AllNicks)
         /\ UNCHANGED <<online, watching, named, has_ircop, steps>>
<1>1. messages \in Seq(Messages) /\ messages # << >>
  BY DEF WInv, WatchTypeOK, Receive
<1>2. Head(messages) \in Messages
  BY <1>1, SeqsClosed, Zenon
<1>3. Head(messages)[1] \in kinds
  BY DEF Receive
<1> DEFINE K == {"INIT", "ISUPPORT", "pass", "!nick", "QUIT", "NICKNAMEINUSE", "WATCHONLINE",
                 "WATCHOFFLINE", "WATCHSTARTONLINE", "WATCHSTARTOFFLINE", "WATCHSTOP"}
<1>4. Head(messages) \in K \X AllNicks \/ Head(messages) \in {"NICK"} \X (AllNicks \X AllNicks)
  BY <1>2 DEF Messages
<1>5. "NICK" \notin K
  OBVIOUS
<1> HIDE DEF K
<1>6. CASE Head(messages) \in K \X AllNicks
  <2>1. Head(messages)[1] \in K /\ It \in AllNicks /\ Head(messages) = <<Head(messages)[1], It>>
    BY <1>6, Pairs, Zenon DEF It
  <2>2. kinds # {"NICK"}
    BY <1>3, <1>5, <2>1
  <2> QED
    BY <1>1, <1>3, <2>1, <2>2, Zenon DEF Receive, server
<1>7. CASE Head(messages) \in {"NICK"} \X (AllNicks \X AllNicks)
  <2>1. /\ Head(messages)[1] \in {"NICK"} /\ It \in AllNicks \X AllNicks
        /\ Head(messages) = <<Head(messages)[1], It>>
    <3>1. PICK B : B = AllNicks \X AllNicks
      OBVIOUS
    <3>2. Head(messages) \in {"NICK"} \X B
      BY <1>7, <3>1
    <3>3. Head(messages)[1] \in {"NICK"} /\ It \in B /\ Head(messages) = <<Head(messages)[1], It>>
      BY <3>2, Pairs, Zenon DEF It
    <3> QED
      BY <3>1, <3>3
  <2>2. "NICK" \in kinds
    BY <1>3, <2>1
  <2> QED
    BY <1>1, <1>3, <2>1, <2>2, Zenon DEF Receive, server
<1> QED
  BY <1>4, <1>6, <1>7

\* The nick in Watched is one of others.
LEMMA WatchedAreOthers ==
  ASSUME WatchAssumption
  PROVE  /\ Watched \subseteq AllNicks
         /\ \A n : n \in Watched <=> \E i \in DOMAIN watch_list : watch_list[i] = n
  BY DEF WatchAssumption, Watched, ToSet, AllNicks

\* An answer that asks for no watch, and takes none back.
LEMMA QuietAnswer ==
  ASSUME WInv, NEW t, Answers(t), \A n : ~Has(t, <<"WATCH-", n>>), ids' \subseteq ids,
         \A n : Head(messages) # <<"WATCHSTOP", n>> /\ Head(messages) # <<"ISUPPORT", n>>,
         \A m \in AllNicks : Head(messages) # <<"NICKNAMEINUSE", m>>,
         nick' \in AllNicks, Gives(Head(messages), nick, nick')
  PROVE  WInv'
<1>1. ids' \subseteq AllNicks
  BY DEF WInv, WatchTypeOK
<1> QED
  BY <1>1, AnswerKeeps, Zenon

\* What the bot keeps is of its type.
LEMMA TypesOfBot ==
  ASSUME WInv, WatchAssumption
  PROVE  /\ requests \in Seq(Requests) /\ ids \subseteq AllNicks /\ nick \in AllNicks /\ Others \subseteq AllNicks
         /\ supported \in BOOLEAN /\ up \in BOOLEAN /\ has_ircop \in BOOLEAN /\ Wanted \in AllNicks
         /\ \A k \in {"WATCH+", "WATCH-", "NICK"}, n \in AllNicks : <<k, n>> \in Requests
         /\ \A k, n, a : k # "NICK" => Gives(<<k, n>>, a, a)
<1>1. /\ requests \in Seq(Requests) /\ ids \subseteq AllNicks /\ nick \in AllNicks /\ Others \subseteq AllNicks
      /\ Wanted \in AllNicks
  BY DEF WInv, WatchTypeOK, AllNicks, WatchAssumption
<1>2. supported \in BOOLEAN /\ up \in BOOLEAN /\ has_ircop \in BOOLEAN
  BY Zenon DEF WInv, WatchTypeOK
<1>3. \A k \in {"WATCH+", "WATCH-", "NICK"}, n \in AllNicks : <<k, n>> \in Requests
  BY DEF Requests, AllNicks
<1>4. \A k, n, a : k # "NICK" => Gives(<<k, n>>, a, a)
  BY DEF Gives
<1> QED
  BY <1>1, <1>2, <1>3, <1>4

\* An empty answer asks for nothing.
LEMMA NoRequest ==
  ASSUME WInv, WatchAssumption
  PROVE  << >> \in Seq(Requests) /\ requests = requests \o << >> /\ \A x : ~Has(<< >>, x)
  BY TypesOfBot, SeqsClosed, HasNone, Zenon

\* ircop_reply, at the first messages of a connection.
LEMMA IrcopKeeps == ASSUME WInv, WatchAssumption, ircop_reply PROVE WInv'
<1>1. Receive({"INIT"}) /\ requests' = requests /\ ids' = ids /\ nick' = nick /\ supported' = supported
        /\ up' = ~has_ircop
  BY DEF ircop_reply, bot
<1>2. /\ messages # << >> /\ messages' = Tail(messages) /\ Head(messages) = <<"INIT", It>>
      /\ UNCHANGED <<online, watching, named, has_ircop, steps>>
  BY <1>1, Received
<1>3. Answers(<< >>)
  <2>1. supported' \in BOOLEAN /\ up' \in BOOLEAN
    BY <1>1, TypesOfBot, Zenon
  <2> QED
    BY <1>1, <1>2, <2>1, NoRequest, Zenon DEF Answers
<1>4. Gives(Head(messages), nick, nick') /\ nick' \in AllNicks
  BY <1>1, <1>2, TypesOfBot
<1>5. \A n : /\ Head(messages) # <<"WATCHSTOP", n>> /\ Head(messages) # <<"ISUPPORT", n>>
             /\ Head(messages) # <<"NICKNAMEINUSE", n>>
  <2>1. "INIT" # "WATCHSTOP" /\ "INIT" # "ISUPPORT" /\ "INIT" # "NICKNAMEINUSE"
    OBVIOUS
  <2> QED
    BY <1>2, <2>1, SamePairs, Zenon
<1> QED
  BY <1>1, <1>3, <1>4, <1>5, NoRequest, QuietAnswer, Zenon

\* Somebody watched for is there: core, watch and ircop.
LEMMA WatchonlineKeeps == ASSUME WInv, WatchAssumption, Watchonline PROVE WInv'
<1>1. /\ Receive({"WATCHONLINE", "WATCHSTARTONLINE", "WATCHSTARTOFFLINE"})
      /\ requests' = requests /\ ids' = ids /\ nick' = nick /\ supported' = supported /\ up' = up
  BY DEF Watchonline, bot
<1>2. /\ messages # << >> /\ messages' = Tail(messages) /\ Head(messages) = <<Head(messages)[1], It>>
      /\ Head(messages)[1] \in {"WATCHONLINE", "WATCHSTARTONLINE", "WATCHSTARTOFFLINE"}
      /\ UNCHANGED <<online, watching, named, has_ircop, steps>>
  BY <1>1, Received
<1>3. Answers(<< >>)
  <2>1. supported' \in BOOLEAN /\ up' \in BOOLEAN
    BY <1>1, TypesOfBot, Zenon
  <2> QED
    BY <1>1, <1>2, <2>1, NoRequest, Zenon DEF Answers
<1>4. Gives(Head(messages), nick, nick') /\ nick' \in AllNicks
  BY <1>1, <1>2, TypesOfBot
<1>5. PICK k \in {"WATCHONLINE", "WATCHSTARTONLINE", "WATCHSTARTOFFLINE"} :
             Head(messages) = <<k, It>>
  BY <1>2
<1>6. \A n : /\ Head(messages) # <<"WATCHSTOP", n>> /\ Head(messages) # <<"ISUPPORT", n>>
             /\ Head(messages) # <<"NICKNAMEINUSE", n>>
  <2>1. k # "WATCHSTOP" /\ k # "ISUPPORT" /\ k # "NICKNAMEINUSE"
    BY <1>5
  <2> QED
    BY <1>5, <2>1, SamePairs, Zenon
<1> QED
  BY <1>1, <1>3, <1>4, <1>6, NoRequest, QuietAnswer, Zenon

\* !nick, somebody who leaves, and the nick of others and of the bot: requests for a nick.
NickAnswer(k, t) ==
  /\ k \in {"!nick", "QUIT", "NICK"} /\ Receive({k})
  /\ t \in Seq(Requests) /\ requests' = requests \o t /\ \A n : ~Has(t, <<"WATCH-", n>>)
  /\ ids' \subseteq ids /\ supported' = supported /\ up' = up
  /\ nick' \in AllNicks /\ Gives(Head(messages), nick, nick')

\* Such an answer keeps the invariant.
LEMMA NickAsked ==
  ASSUME WInv, WatchAssumption, NEW k, NEW t, NickAnswer(k, t)
  PROVE  WInv'
<1> USE DEF NickAnswer
<1>1. /\ messages # << >> /\ messages' = Tail(messages) /\ Head(messages) = <<k, It>>
      /\ UNCHANGED <<online, watching, named, has_ircop, steps>>
  <2>1. Head(messages)[1] \in {k} /\ Head(messages) = <<Head(messages)[1], It>>
    BY Received, Zenon
  <2> QED
    BY <2>1, Received
<1>2. Answers(t)
  <2>1. supported' \in BOOLEAN /\ up' \in BOOLEAN
    BY TypesOfBot, Zenon
  <2> QED
    BY <1>1, <2>1, Zenon DEF Answers
<1>3. nick' \in AllNicks /\ Gives(Head(messages), nick, nick')
  OBVIOUS
<1>4. \A n : /\ Head(messages) # <<"WATCHSTOP", n>> /\ Head(messages) # <<"ISUPPORT", n>>
             /\ Head(messages) # <<"NICKNAMEINUSE", n>>
  <2>1. k # "WATCHSTOP" /\ k # "ISUPPORT" /\ k # "NICKNAMEINUSE"
    OBVIOUS
  <2> QED
    BY <1>1, <2>1, SamePairs, Zenon
<1> QED
  BY <1>2, <1>3, <1>4, QuietAnswer

\* A request for one nick takes no watch back.
LEMMA OneNick ==
  ASSUME WInv, WatchAssumption, NEW n \in AllNicks, NEW c
  PROVE  /\ <<<<"NICK", n>>>> \in Seq(Requests)
         /\ \A m : ~Has(<<<<"NICK", n>>>>, <<"WATCH-", m>>)
         /\ If(c, <<"NICK", n>>) \in Seq(Requests)
         /\ \A m : ~Has(If(c, <<"NICK", n>>), <<"WATCH-", m>>)
<1>1. <<"NICK", n>> \in Requests /\ \A m : <<"NICK", n>> # <<"WATCH-", m>>
  BY TypesOfBot
<1>2. /\ If(c, <<"NICK", n>>) \in Seq(Requests)
      /\ \A x : Has(If(c, <<"NICK", n>>), x) => x = <<"NICK", n>>
  BY <1>1, IfIsSeq, Zenon
<1>3. <<<<"NICK", n>>>> \in Seq(Requests)
  BY <1>1
<1>4. \A m : ~Has(<<<<"NICK", n>>>>, <<"WATCH-", m>>)
  BY <1>1, HasOne, Zenon
<1> QED
  BY <1>1, <1>2, <1>3, <1>4, Zenon

\* !nick
LEMMA NickCommandKeeps == ASSUME WInv, WatchAssumption, scriptcmd_nick PROVE WInv'
<1>1. /\ Receive({"!nick"}) /\ requests' = requests \o <<<<"NICK", It>>>> /\ ids' = ids /\ nick' = nick
      /\ supported' = supported /\ up' = up
  BY DEF scriptcmd_nick, bot, Ask
<1>2. It \in AllNicks /\ Head(messages) = <<"!nick", It>>
  BY <1>1, Received
<1>3. nick' \in AllNicks /\ Gives(Head(messages), nick, nick')
  BY <1>1, <1>2, TypesOfBot
<1>4. NickAnswer("!nick", <<<<"NICK", It>>>>)
  BY <1>1, <1>2, <1>3, OneNick DEF NickAnswer
<1> QED
  BY <1>4, NickAsked

\* Somebody in a channel of the bot leaves.
LEMMA EventQuitKeeps == ASSUME WInv, WatchAssumption, event_quit PROVE WInv'
<1>1. /\ Receive({"QUIT"}) /\ requests' = requests /\ ids' \subseteq ids /\ nick' = nick
      /\ supported' = supported /\ up' = up
  BY DEF event_quit
<1>2. Head(messages) = <<"QUIT", It>>
  BY <1>1, Received
<1>3. nick' \in AllNicks /\ Gives(Head(messages), nick, nick')
  BY <1>1, <1>2, TypesOfBot
<1>4. NickAnswer("QUIT", << >>)
  <2>1. << >> \in Seq(Requests) /\ requests' = requests \o << >> /\ \A x : ~Has(<< >>, x)
    BY <1>1, NoRequest, Zenon
  <2> QED
    BY <1>1, <1>3, <2>1 DEF NickAnswer
<1> QED
  BY <1>4, NickAsked

\* Somebody, or the bot, changes his nick.
LEMMA EventNickKeeps == ASSUME WInv, WatchAssumption, event_nick PROVE WInv'
<1>1. /\ Receive({"NICK"}) /\ requests' = requests \o If(It[1] = Wanted, <<"NICK", Wanted>>) /\ ids' \subseteq ids
      /\ nick' = (IF nick = It[1] THEN It[2] ELSE nick) /\ supported' = supported /\ up' = up
  BY DEF event_nick, Ask
<1>2. It \in AllNicks \X AllNicks /\ Head(messages) = <<"NICK", It>>
  BY <1>1, Received
<1>3. It[1] \in AllNicks /\ It[2] \in AllNicks /\ Head(messages) = <<"NICK", <<It[1], It[2]>>>>
  BY <1>2
<1> DEFINE from == It[1]
           to   == It[2]
<1> HIDE DEF from, to
<1>4. from \in AllNicks /\ to \in AllNicks /\ Head(messages) = <<"NICK", <<from, to>>>>
  BY <1>3 DEF from, to
<1>5. nick' = (IF nick = from THEN to ELSE nick)
  BY <1>1 DEF from, to
<1>6. nick' \in AllNicks
  BY <1>4, <1>5, TypesOfBot
<1>7. Gives(Head(messages), nick, nick')
  <2>1. CASE nick = from
    BY <1>4, <1>5, <2>1 DEF Gives
  <2>2. CASE nick # from
    <3>1. \A m : <<"NICK", <<from, to>>>> # <<"NICK", <<nick, m>>>>
      BY <2>2
    <3> QED
      BY <1>4, <1>5, <2>2, <3>1 DEF Gives
  <2> QED
    BY <2>1, <2>2
<1>8. Wanted \in AllNicks
  BY TypesOfBot
<1>9. /\ If(It[1] = Wanted, <<"NICK", Wanted>>) \in Seq(Requests)
      /\ \A m : ~Has(If(It[1] = Wanted, <<"NICK", Wanted>>), <<"WATCH-", m>>)
  BY <1>8, OneNick, Zenon
<1>10. NickAnswer("NICK", If(It[1] = Wanted, <<"NICK", Wanted>>))
  BY <1>1, <1>6, <1>7, <1>9 DEF NickAnswer
<1> QED
  BY <1>10, NickAsked

\* One request that watches for a nick, or no longer.
LEMMA OneWatch ==
  ASSUME WInv, WatchAssumption, NEW n \in AllNicks
  PROVE  /\ <<<<"WATCH+", n>>>> \in Seq(Requests) /\ <<<<"WATCH-", n>>>> \in Seq(Requests)
         /\ \A m : ~Has(<<<<"WATCH+", n>>>>, <<"WATCH-", m>>)
         /\ \A m : m # n => ~Has(<<<<"WATCH-", n>>>>, <<"WATCH-", m>>)
         /\ \A m, ys : m = n => Ends(<<<<"WATCH+", n>>>>, <<"WATCH+", m>>, ys)
         /\ Has(<<<<"WATCH+", n>>>>, <<"WATCH+", n>>)
<1>1. <<"WATCH+", n>> \in Requests /\ <<"WATCH-", n>> \in Requests
  BY TypesOfBot
<1>2. \A m : <<"WATCH+", n>> # <<"WATCH-", m>> /\ (m # n => <<"WATCH-", n>> # <<"WATCH-", m>>)
  OBVIOUS
<1>3. <<<<"WATCH+", n>>>> \in Seq(Requests) /\ <<<<"WATCH-", n>>>> \in Seq(Requests)
  BY <1>1
<1> QED
  BY <1>2, <1>3, HasOne, EndsOne, Zenon

\* !pass: who identifies himself is watched for.
LEMMA PassKeeps == ASSUME WInv, WatchAssumption, scriptcmd_pass PROVE WInv'
<1>1. /\ Receive({"pass"}) /\ requests' = requests \o <<<<"WATCH+", It>>>> /\ ids' = ids \cup {It}
      /\ nick' = nick /\ supported' = supported /\ up' = up
  BY DEF scriptcmd_pass, Ask
<1>2. /\ messages # << >> /\ messages' = Tail(messages) /\ Head(messages) = <<"pass", It>> /\ It \in AllNicks
      /\ UNCHANGED <<online, watching, named, has_ircop, steps>>
  BY <1>1, Received
<1>3. Answers(<<<<"WATCH+", It>>>>)
  <2>1. supported' \in BOOLEAN /\ up' \in BOOLEAN
    BY <1>1, TypesOfBot, Zenon
  <2> QED
    BY <1>1, <1>2, <2>1, OneWatch, Zenon DEF Answers
<1>4. Gives(Head(messages), nick, nick') /\ nick' \in AllNicks
  BY <1>1, <1>2, TypesOfBot
<1>5. \A n : /\ Head(messages) # <<"WATCHSTOP", n>> /\ Head(messages) # <<"ISUPPORT", n>>
             /\ Head(messages) # <<"NICKNAMEINUSE", n>>
  BY <1>2, SamePairs
<1>6. \A n \in ids' \cap Found : \/ n \in ids /\ ~Has(<<<<"WATCH+", It>>>>, <<"WATCH-", n>>)
                               \/ Ends(<<<<"WATCH+", It>>>>, <<"WATCH+", n>>, {<<"WATCH-", n>>})
  BY <1>1, <1>2, OneWatch
<1>7. ids' \subseteq AllNicks
  BY <1>1, <1>2, TypesOfBot
<1> QED
  BY <1>1, <1>3, <1>4, <1>5, <1>6, <1>7, AnswerKeeps, Zenon

\* Somebody watched for is gone: the core takes its request back.
LEMMA WatchofflineKeeps == ASSUME WInv, WatchAssumption, reply_watchoffline PROVE WInv'
<1>1. /\ Receive({"WATCHOFFLINE"}) /\ requests' = requests \o <<<<"WATCH-", It>>>> /\ ids' = ids \ Finds[It]
      /\ nick' = nick /\ supported' = supported /\ up' = up
  BY DEF reply_watchoffline, Ask
<1>2. /\ messages # << >> /\ messages' = Tail(messages) /\ Head(messages) = <<"WATCHOFFLINE", It>>
      /\ It \in AllNicks /\ UNCHANGED <<online, watching, named, has_ircop, steps>>
  BY <1>1, Received
<1>3. Answers(<<<<"WATCH-", It>>>>)
  <2>1. supported' \in BOOLEAN /\ up' \in BOOLEAN
    BY <1>1, TypesOfBot, Zenon
  <2> QED
    BY <1>1, <1>2, <2>1, OneWatch, Zenon DEF Answers
<1>4. Gives(Head(messages), nick, nick') /\ nick' \in AllNicks
  BY <1>1, <1>2, TypesOfBot
<1>5. \A n : /\ Head(messages) # <<"WATCHSTOP", n>> /\ Head(messages) # <<"ISUPPORT", n>>
             /\ Head(messages) # <<"NICKNAMEINUSE", n>>
  BY <1>2, SamePairs
<1>6. \A n \in ids' \cap Found : n \in ids /\ ~Has(<<<<"WATCH-", It>>>>, <<"WATCH-", n>>)
  <2>1. It \in Found => It \notin ids'
    BY <1>1 DEF Found
  <2> QED
    BY <1>1, <1>2, <2>1, OneWatch
<1>7. ids' \subseteq AllNicks
  BY <1>1, TypesOfBot
<1> QED
  BY <1>1, <1>3, <1>4, <1>5, <1>6, <1>7, AnswerKeeps, Zenon

\* The server no longer watches: watch asks again for its own.
LEMMA WatchstopKeeps == ASSUME WInv, WatchAssumption, Watchstop PROVE WInv'
<1> DEFINE t == If(It \in Watched, <<"WATCH+", It>>)
<1>1. /\ Receive({"WATCHSTOP"}) /\ requests' = requests \o t /\ ids' = ids
      /\ nick' = nick /\ supported' = supported /\ up' = up
  BY DEF Watchstop, Ask, bot
<1>2. /\ messages # << >> /\ messages' = Tail(messages) /\ Head(messages) = <<"WATCHSTOP", It>>
      /\ It \in AllNicks /\ UNCHANGED <<online, watching, named, has_ircop, steps>>
  BY <1>1, Received
<1>3. /\ t \in Seq(Requests) /\ (It \in Watched => Has(t, <<"WATCH+", It>>))
      /\ \A x : Has(t, x) => x = <<"WATCH+", It>>
  <2>1. <<"WATCH+", It>> \in Requests
    BY <1>2, TypesOfBot
  <2> QED
    BY <2>1, IfIsSeq, Zenon
<1> HIDE DEF t
<1>4. Answers(t)
  <2>1. supported' \in BOOLEAN /\ up' \in BOOLEAN
    BY <1>1, TypesOfBot, Zenon
  <2> QED
    BY <1>1, <1>2, <1>3, <2>1, Zenon DEF Answers
<1>5. Gives(Head(messages), nick, nick') /\ nick' \in AllNicks
  BY <1>1, <1>2, TypesOfBot
<1>6. \A n : /\ Head(messages) # <<"ISUPPORT", n>> /\ Head(messages) # <<"NICKNAMEINUSE", n>>
             /\ Head(messages) = <<"WATCHSTOP", n>> => n = It
  BY <1>2, SamePairs
<1>7. \A n \in ids' : n \in ids /\ ~Has(t, <<"WATCH-", n>>)
  <2>1. \A n : <<"WATCH+", It>> # <<"WATCH-", n>>
    OBVIOUS
  <2> QED
    BY <1>1, <1>3, <2>1
<1>8. ids' \subseteq AllNicks
  BY <1>1, TypesOfBot
<1>9. \A n \in Watched : Head(messages) = <<"WATCHSTOP", n>> => Has(t, <<"WATCH+", n>>)
  BY <1>3, <1>6
<1> QED
  BY <1>1, <1>4, <1>5, <1>6, <1>7, <1>8, <1>9, AnswerKeeps, Zenon

\* The server tells what it can do: watch asks for all of its list.
LEMMA IsupportKeeps == ASSUME WInv, WatchAssumption, Isupport PROVE WInv'
<1> DEFINE t == [i \in DOMAIN watch_list |-> <<"WATCH+", watch_list[i]>>]
<1>1. /\ Receive({"ISUPPORT"}) /\ requests' = requests \o t /\ ids' = ids
      /\ nick' = nick /\ supported' = TRUE /\ up' = up
  BY DEF Isupport, Ask
<1>2. /\ messages # << >> /\ messages' = Tail(messages) /\ Head(messages) = <<"ISUPPORT", It>>
      /\ It \in AllNicks /\ UNCHANGED <<online, watching, named, has_ircop, steps>>
  BY <1>1, Received
<1>3. t \in Seq(Requests)
  <2>1. DOMAIN watch_list = 1..Len(watch_list) /\ Len(watch_list) \in Nat
    BY DEF WatchAssumption
  <2>2. \A i \in DOMAIN watch_list : <<"WATCH+", watch_list[i]>> \in Requests
    BY TypesOfBot, WatchedAreOthers
  <2> QED
    BY <2>1, <2>2
<1>4. \A n \in Watched : Has(t, <<"WATCH+", n>>)
  BY WatchedAreOthers DEF Has
<1>5. \A n : ~Has(t, <<"WATCH-", n>>)
  BY DEF Has
<1> HIDE DEF t
<1>6. Answers(t)
  <2>1. supported' \in BOOLEAN /\ up' \in BOOLEAN
    BY <1>1, TypesOfBot, Zenon
  <2> QED
    BY <1>1, <1>2, <1>3, <2>1, Zenon DEF Answers
<1>7. Gives(Head(messages), nick, nick') /\ nick' \in AllNicks /\ ids' \subseteq AllNicks
  BY <1>1, <1>2, TypesOfBot
<1>8. \A m : Head(messages) # <<"WATCHSTOP", m>> /\ Head(messages) # <<"NICKNAMEINUSE", m>>
  BY <1>2, SamePairs
<1> QED
  BY <1>1, <1>4, <1>5, <1>6, <1>7, <1>8, AnswerKeeps, Zenon

\* What of a nick asked for is left when the server has come to a request.
LEMMA Served ==
  ASSUME WInv, requests # << >>, requests' = Tail(requests)
  PROVE  /\ requests' \in Seq(Requests) /\ Head(requests) \in Requests
         /\ \A x : Has(requests, x) <=> Head(requests) = x \/ Has(requests', x)
         /\ \A n \in ids \cap Found :
              \/ Ends(requests', <<"WATCH+", n>>, {<<"WATCH-", n>>})
              \/ /\ ~Has(requests', <<"WATCH-", n>>)
                 /\ \/ Head(requests) = <<"WATCH+", n>>
                    \/ n \in watching /\ Head(requests) # <<"WATCH-", n>>
<1>1. requests \in Seq(Requests) /\ \A n \in ids \cap Found : IdWatched(n)
  BY DEF WInv, WatchTypeOK
<1>2. requests' \in Seq(Requests) /\ Head(requests) \in Requests
  BY <1>1, SeqsClosed, Zenon
<1>3. \A x : Has(requests, x) <=> Head(requests) = x \/ Has(requests', x)
  BY <1>1, HasTail
<1>4. ASSUME NEW n \in ids \cap Found, Ends(requests, <<"WATCH+", n>>, {<<"WATCH-", n>>})
      PROVE  \/ Ends(requests', <<"WATCH+", n>>, {<<"WATCH-", n>>})
             \/ Head(requests) = <<"WATCH+", n>> /\ ~Has(requests', <<"WATCH-", n>>)
  BY <1>1, <1>4, EndsTail
<1>5. ASSUME NEW n \in ids \cap Found, n \in watching, ~Has(requests, <<"WATCH-", n>>)
      PROVE  ~Has(requests', <<"WATCH-", n>>) /\ Head(requests) # <<"WATCH-", n>>
  BY <1>3, <1>5
<1> QED
  BY <1>1, <1>2, <1>3, <1>4, <1>5 DEF IdWatched

\* A message alone is a queue.
LEMMA MessageAlone == \A x \in Messages : <<x>> \in Seq(Messages)
  OBVIOUS

\* The server comes to a request.
LEMMA ServeKeeps == ASSUME WInv, WatchAssumption, Serve PROVE WInv'
<1> DEFINE kind == Head(requests)[1]
           n    == Head(requests)[2]
<1>1. /\ requests # << >> /\ requests' = Tail(requests) /\ UNCHANGED <<bot, rest>>
      /\ requests \in Seq(Requests) /\ messages \in Seq(Messages) /\ named # NoNick
  BY DEF Serve, WInv, WatchTypeOK
<1>2. n \in AllNicks /\ Head(requests) = <<kind, n>> /\ kind \in {"WATCH+", "WATCH-", "NICK"}
  <2>1. PICK K : K \subseteq {"WATCH+", "WATCH-", "NICK"} /\ Head(requests) \in K \X AllNicks
    BY <1>1, Served DEF Requests
  <2>2. Head(requests) \in K \X AllNicks
    BY <2>1
  <2>3. n \in AllNicks /\ Head(requests) = <<kind, n>> /\ kind \in K
    BY <2>2, Pairs, Zenon
  <2> QED
    BY <2>1, <2>3
<1>3. /\ UNCHANGED <<nick, ids, supported, has_ircop, up, steps>>
      /\ requests' \in Seq(Requests)
      /\ \A x : Has(requests, x) <=> Head(requests) = x \/ Has(requests', x)
  BY <1>1, Served DEF bot, rest
<1>4. /\ online \subseteq AllNicks /\ watching \subseteq AllNicks /\ ids \subseteq AllNicks /\ named \in AllNicks
      /\ nick \in AllNicks /\ steps \in 0..MaxSteps /\ named \notin online /\ NoNick \notin AllNicks
  BY <1>1 DEF WInv, WatchTypeOK, WatchAssumption
<1>5. supported' \in BOOLEAN /\ has_ircop' \in BOOLEAN /\ up' \in BOOLEAN
  BY <1>3, TypesOfBot, Zenon
<1>6. \/ /\ kind = "WATCH+" /\ watching' = watching \cup {n} /\ UNCHANGED <<online, named>>
         /\ \E k \in {"WATCHSTARTONLINE", "WATCHSTARTOFFLINE"} : messages' = messages \o <<<<k, n>>>>
      \/ /\ kind = "WATCH-" /\ watching' = watching \ {n} /\ UNCHANGED <<online, named>>
         /\ messages' = messages \o <<<<"WATCHSTOP", n>>>>
      \/ kind = "NICK" /\ UNCHANGED <<online, named, watching, messages>>
      \/ /\ kind = "NICK" /\ UNCHANGED <<online, named, watching>>
         /\ messages' = messages \o <<<<"NICKNAMEINUSE", n>>>>
      \/ /\ kind = "NICK" /\ UNCHANGED <<online, watching>> /\ named' = n /\ n \notin online
         /\ messages' = messages \o <<<<"NICK", <<named, n>>>>>>
  BY DEF Serve, Tell, server, Taken
<1> HIDE DEF kind, n
<1>7. /\ \A k \in {"WATCHSTARTONLINE", "WATCHSTARTOFFLINE", "WATCHSTOP", "NICKNAMEINUSE"} :
           <<<<k, n>>>> \in Seq(Messages)
      /\ <<<<"NICK", <<named, n>>>>>> \in Seq(Messages)
  <2>1. \A k \in {"WATCHSTARTONLINE", "WATCHSTARTOFFLINE", "WATCHSTOP", "NICKNAMEINUSE"} :
          <<k, n>> \in Messages
    BY <1>2 DEF Messages
  <2>2. <<"NICK", <<named, n>>>> \in Messages
    BY <1>2, <1>4 DEF Messages
  <2> QED
    BY <2>1, <2>2, MessageAlone, Zenon
<1>8. \/ messages' = messages
      \/ \E k \in {"WATCHSTARTONLINE", "WATCHSTARTOFFLINE", "WATCHSTOP", "NICKNAMEINUSE"} :
           messages' = messages \o <<<<k, n>>>>
      \/ messages' = messages \o <<<<"NICK", <<named, n>>>>>>
  BY <1>6
<1>9. messages' \in Seq(Messages) /\ \A x : Has(messages, x) => Has(messages', x)
  <2>1. CASE messages' = messages
    BY <1>1, <2>1
  <2>2. ASSUME NEW t \in Seq(Messages), messages' = messages \o t
        PROVE  messages' \in Seq(Messages) /\ \A x : Has(messages, x) => Has(messages', x)
    <3>1. messages \o t \in Seq(Messages)
      BY <1>1, SeqsClosed, Zenon
    <3>2. \A x : Has(messages, x) => Has(messages \o t, x)
      BY <1>1, HasConcat
    <3> QED
      BY <2>2, <3>1, <3>2
  <2> QED
    BY <1>7, <1>8, <2>1, <2>2
<1>10. WatchTypeOK'
  <2>1. watching' \subseteq AllNicks /\ online' \subseteq AllNicks /\ named' \in AllNicks \ online'
    BY <1>2, <1>4, <1>6
  <2>2. requests' \in Seq(Requests)' /\ messages' \in Seq(Messages)'
    BY <1>3, <1>9, Zenon DEF Requests, Messages, AllNicks
  <2> QED
    BY <1>3, <1>4, <1>5, <2>1, <2>2, Zenon DEF WatchTypeOK, AllNicks
<1>watches. ASSUME NEW m, Head(requests) = <<"WATCH+", m>> PROVE m \in watching'
  <2>1. kind = "WATCH+" /\ n = m
    <3>1. <<"WATCH+", m>>[1] = "WATCH+" /\ <<"WATCH+", m>>[2] = m
      OBVIOUS
    <3> QED
      BY <1>watches, <3>1, Zenon DEF kind, n
  <2>2. watching' = watching \cup {n}
    BY <1>6, <2>1
  <2> QED
    BY <2>1, <2>2
<1>11. ASSUME NEW m \in ids' \cap Found PROVE IdWatched(m)'
  <2>1. \/ Ends(requests', <<"WATCH+", m>>, {<<"WATCH-", m>>})
        \/ /\ ~Has(requests', <<"WATCH-", m>>)
           /\ \/ Head(requests) = <<"WATCH+", m>>
              \/ m \in watching /\ Head(requests) # <<"WATCH-", m>>
    BY <1>1, <1>3, Served
  <2>2. Head(requests) = <<"WATCH+", m>> => m \in watching'
    BY <1>watches
  <2>3. m \in watching /\ Head(requests) # <<"WATCH-", m>> => m \in watching'
    BY <1>2, <1>6
  <2> QED
    BY <2>1, <2>2, <2>3 DEF IdWatched
<1>12. ASSUME NEW m \in Watched PROVE ListWatched(m)'
  <2>1. ListWatched(m)
    BY <1>12 DEF WInv
  <2>2. Head(requests) = <<"WATCH+", m>> => m \in watching'
    BY <1>watches
  <2>3. Head(requests) = <<"WATCH-", m>> => Has(messages', <<"WATCHSTOP", m>>)
    <3> SUFFICES ASSUME Head(requests) = <<"WATCH-", m>> PROVE Has(messages', <<"WATCHSTOP", m>>)
      OBVIOUS
    <3>1. kind = "WATCH-" /\ n = m
      BY <1>2, SamePairs
    <3>2. messages' = messages \o <<<<"WATCHSTOP", m>>>> /\ <<<<"WATCHSTOP", m>>>> \in Seq(Messages)
      BY <1>6, <1>7, <3>1
    <3>3. Has(<<<<"WATCHSTOP", m>>>>, <<"WATCHSTOP", m>>)
      BY HasOne, Zenon
    <3>4. Has(messages \o <<<<"WATCHSTOP", m>>>>, <<"WATCHSTOP", m>>)
      BY <1>1, <3>2, <3>3, HasConcat
    <3> QED
      BY <3>2, <3>4
  <2>4. m \in watching => m \in watching' \/ Head(requests) = <<"WATCH-", m>>
    BY <1>2, <1>6
  <2> QED
    BY <1>1, <1>3, <1>9, <2>1, <2>2, <2>3, <2>4, Zenon DEF ListWatched
<1>13. NickKnown'
  <2>1. NickKnown /\ WatchTypeOK
    BY DEF WInv
  <2>2. CASE UNCHANGED <<messages, named, nick>>
    BY <2>1, <2>2 DEF NickKnown
  <2>3. ASSUME NEW k \in {"WATCHSTARTONLINE", "WATCHSTARTOFFLINE", "WATCHSTOP", "NICKNAMEINUSE"},
               messages' = messages \o <<<<k, n>>>>, UNCHANGED named
        PROVE  NickKnown'
    <3>1. <<<<k, n>>>> \in Seq(Messages)
      BY <1>7, <2>3
    <3>2. \A x \in Given : ~Has(<<<<k, n>>>>, x)
      <4>1. <<k, n>> \notin Given
        BY <2>3 DEF Given
      <4> QED
        BY <4>1, HasOne, Zenon
    <3> QED
      BY <1>3, <2>1, <2>3, <3>1, <3>2, NickStays, Zenon
  <2>4. CASE named' = n /\ messages' = messages \o <<<<"NICK", <<named, n>>>>>>
    <3>1. Run(messages, nick, named)
      BY <1>1, <2>1 DEF NickKnown
    <3>2. Gives(<<"NICK", <<named, n>>>>, named, n)
      BY <1>2 DEF Gives
    <3>3. Run(<<<<"NICK", <<named, n>>>>>>, named, n)
      BY <1>2, <1>4, <3>2, RunOne
    <3>4. Run(messages \o <<<<"NICK", <<named, n>>>>>>, nick, n)
      BY <1>1, <1>7, <3>1, <3>3, RunConcat
    <3> QED
      BY <1>3, <2>4, <3>4 DEF NickKnown
  <2> QED
    BY <1>3, <1>6, <2>2, <2>3, <2>4
<1>14. RefusalComes'
  <2>1. named' \in AllNicks
    BY <1>2, <1>4, <1>6
  <2> QED
    BY <1>4, <2>1 DEF RefusalComes
<1> QED
  BY <1>10, <1>11, <1>12, <1>13, <1>14 DEF WInv, Watched, Found, AllNicks

\* The first messages of a connection ask for all, or refuse the nick.
LEMMA Welcomed ==
  ASSUME WatchAssumption, NEW S \in SUBSET AllNicks
  PROVE  /\ Welcome(S) \in Seq(Messages) /\ << >> \in Seq(Requests)
         /\ NickAt(S) \in (AllNicks \cup {NoNick}) \ S /\ nick_orig \in AllNicks
         /\ NickAt(S) = NoNick => Has(Welcome(S), <<"NICKNAMEINUSE", nick_orig>>)
         /\ NickAt(S) # NoNick => Has(Welcome(S), <<"ISUPPORT", nick_orig>>)
         /\ NickAt(S) # NoNick => Run(Welcome(S), nick_orig, NickAt(S))
<1>1. Greeting \in Seq(Messages) /\ Refusal \in Seq(Messages) /\ nick_orig \in AllNicks
  <2>1. /\ <<"INIT", nick_orig>> \in Messages /\ <<"ISUPPORT", nick_orig>> \in Messages
        /\ <<"NICKNAMEINUSE", nick_orig>> \in Messages /\ nick_orig \in AllNicks
    BY DEF Messages, AllNicks
  <2> QED
    BY <2>1 DEF Greeting, Refusal
<1>2. NoNick \notin AllNicks
  BY DEF WatchAssumption
<1>3. /\ DOMAIN Greeting = 1..2 /\ Len(Greeting) = 2
      /\ Greeting[1] = <<"INIT", nick_orig>> /\ Greeting[2] = <<"ISUPPORT", nick_orig>>
  BY DEF Greeting
<1>4. Has(Greeting, <<"ISUPPORT", nick_orig>>) /\ Has(Refusal, <<"NICKNAMEINUSE", nick_orig>>)
  BY <1>3, HasOne DEF Has, Refusal
<1>5. \A i \in 1..Len(Greeting) : Gives(Greeting[i], nick_orig, nick_orig)
  BY <1>3 DEF Gives
<1>6. Run(Greeting, nick_orig, nick_orig)
  BY <1>1, <1>5, RunStays
<1>7. << >> \in Seq(Requests)
  OBVIOUS
<1>8. CASE nick_orig \in S
  BY <1>1, <1>2, <1>4, <1>7, <1>8 DEF Welcome, NickAt
<1>9. CASE nick_orig \notin S
  BY <1>1, <1>2, <1>4, <1>6, <1>7, <1>9 DEF Welcome, NickAt
<1> QED
  BY <1>8, <1>9

\* The state at the start.
LEMMA InitWatched == ASSUME WatchAssumption, WatchInit PROVE WInv
<1>1. /\ requests = << >> /\ messages = Welcome(online) /\ watching = {} /\ ids = {} /\ online \in SUBSET AllNicks
      /\ named = NickAt(online) /\ nick = nick_orig /\ steps \in 0..MaxSteps
  BY DEF WatchInit, WatchAssumption
<1>2. supported \in BOOLEAN /\ has_ircop \in BOOLEAN /\ up \in BOOLEAN
  BY Zenon DEF WatchInit
<1>3. WatchTypeOK
  BY <1>1, <1>2, Welcomed DEF WatchTypeOK
<1>4. NickKnown
  BY <1>1, Welcomed DEF NickKnown
<1>5. \A n \in Watched : ListWatched(n)
  BY <1>1, Welcomed DEF ListWatched
<1>6. RefusalComes
  BY <1>1, Welcomed DEF RefusalComes
<1> QED
  BY <1>1, <1>3, <1>4, <1>5, <1>6 DEF WInv

\* The connection is lost and begun again.
LEMMA WatchRestartKeeps == ASSUME WInv, WatchAssumption, reply_nicknameinuse PROVE WInv'
<1>1. /\ requests' = << >> /\ messages' = Welcome(online) /\ watching' = {} /\ ids' = {} /\ online \in SUBSET AllNicks
      /\ online' = online /\ named' = NickAt(online) /\ nick' = nick_orig /\ steps' \in 0..MaxSteps
  BY DEF reply_nicknameinuse, rest, WInv, WatchTypeOK
<1>2. supported' \in BOOLEAN /\ has_ircop' \in BOOLEAN /\ up' \in BOOLEAN
  BY TypesOfBot, Zenon DEF reply_nicknameinuse, rest
<1>3. WatchTypeOK'
  <2>1. messages' \in Seq(Messages)' /\ requests' \in Seq(Requests)'
    BY <1>1, Welcomed, Zenon DEF Requests, Messages, AllNicks
  <2>2. named' \in (AllNicks \cup {NoNick}) \ online' /\ nick' \in AllNicks /\ online' \subseteq AllNicks
    BY <1>1, Welcomed
  <2>3. watching' \subseteq AllNicks /\ ids' \subseteq AllNicks
    BY <1>1
  <2> QED
    BY <1>1, <1>2, <2>1, <2>2, <2>3, Zenon DEF WatchTypeOK, AllNicks
<1>4. NickKnown'
  BY <1>1, Welcomed DEF NickKnown
<1>5. \A n \in Watched : ListWatched(n)'
  BY <1>1, Welcomed DEF ListWatched, AllNicks
<1>6. RefusalComes'
  BY <1>1, Welcomed DEF RefusalComes, AllNicks
<1> QED
  BY <1>1, <1>3, <1>4, <1>5, <1>6 DEF WInv, Watched

\* Every step.
LEMMA StepWatched == ASSUME WatchAssumption, WInv, [WatchNext]_watchVars PROVE WInv'
<1>1. ASSUME NEW n \in AllNicks, NEW near,
             SignOn(n) \/ SignOff(n, near) \/ Identify(n) \/ \E m \in AllNicks : Rename(n, m, near)
      PROVE  WInv'
  BY <1>1, WatchStepKeeps
<1>2. ASSUME NEW n \in AllNicks, Command(n) PROVE WInv'
  BY <1>2, CommandKeeps
<1>3. CASE UNCHANGED watchVars
  <2>1. WatchTypeOK'
    BY <1>3, Zenon DEF watchVars, server, bot, rest, WInv, WatchTypeOK, Requests, Messages, AllNicks
  <2>2. UNCHANGED <<requests, messages, watching, ids, nick, named>>
    BY <1>3 DEF watchVars, server, bot
  <2>3. \A n \in ids \cap Found : IdWatched(n)'
    BY <2>2 DEF WInv, IdWatched
  <2>4. \A n \in Watched : ListWatched(n)'
    BY <2>2 DEF WInv, ListWatched, AllNicks
  <2>5. NickKnown'
    BY <2>2 DEF WInv, NickKnown
  <2>6. RefusalComes'
    BY <2>2 DEF WInv, RefusalComes, AllNicks
  <2> QED
    BY <2>1, <2>2, <2>3, <2>4, <2>5, <2>6 DEF WInv, Watched, Found, AllNicks
<1>4. Others \subseteq AllNicks
  BY DEF AllNicks
<1> QED
  BY <1>1, <1>2, <1>3, <1>4, ServeKeeps, IrcopKeeps, IsupportKeeps, PassKeeps, NickCommandKeeps, WatchofflineKeeps,
     WatchstopKeeps, WatchonlineKeeps, EventNickKeeps, EventQuitKeeps, WatchRestartKeeps DEF WatchNext

-----------------------------------------------------------------------------
(* The theorems.                                                              *)

\* Requests and messages are of their kinds, and about nicks.
THEOREM WatchTypeCorrect == ASSUME WatchAssumption PROVE WatchSpec => []WatchTypeOK
<1>1. WatchInit => WInv
  BY InitWatched
<1>2. WInv /\ [WatchNext]_watchVars => WInv'
  BY StepWatched
<1>3. WInv => WatchTypeOK
  BY DEF WInv
<1> QED
  BY <1>1, <1>2, <1>3, PTL DEF WatchSpec

\* Core and module ask for the same nicks, and the core takes its requests back: once
\* all is said, all of the configuration are watched for, and all identified who are found
\* by nick and user; and the bot knows its nick, whoever else changes his.
THEOREM WatchesStay == ASSUME WatchAssumption PROVE WatchSpec => []StaysWatched
<1>1. WatchInit => WInv
  BY InitWatched
<1>2. WInv /\ [WatchNext]_watchVars => WInv'
  BY StepWatched
<1>3. WInv => StaysWatched
  <2> SUFFICES ASSUME WInv, requests = << >>, messages = << >>
               PROVE  Watched \cup (ids \cap Found) \subseteq watching /\ nick = named
    BY DEF StaysWatched
  <2>1. \A x, ys : ~Has(<< >>, x) /\ ~Ends(<< >>, x, ys)
    BY DEF Has, Ends
  <2>2. \A n \in ids \cap Found : n \in watching
    BY <2>1 DEF WInv, IdWatched
  <2>3. named # NoNick
    BY <2>1 DEF WInv, RefusalComes
  <2>4. \A n \in Watched : n \in watching
    BY <2>1, <2>3 DEF WInv, ListWatched
  <2>5. nick = named
    BY <2>3, RunNone DEF WInv, NickKnown
  <2> QED
    BY <2>2, <2>4, <2>5
<1> QED
  BY <1>1, <1>2, <1>3, PTL DEF WatchSpec

==============================================================================
