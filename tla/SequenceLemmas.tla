------------------------------ MODULE SequenceLemmas ------------------------------
(***************************************************************************)
(* What the proofs about several components need of natural numbers and of *)
(* sequences that are queues: they grow at their end and shrink at their   *)
(* head.                                                                   *)
(***************************************************************************)
EXTENDS Naturals, SequenceTheorems, WellFoundedInduction, TLAPS

\* x is in s; and x is in s, with none of ys behind it.
Has(s, x)      == \E i \in DOMAIN s : s[i] = x
Ends(s, x, ys) == \E i \in DOMAIN s : s[i] = x /\ \A j \in DOMAIN s : j > i => s[j] \notin ys

-----------------------------------------------------------------------------
(* The least number.                                                          *)

Before == OpToRel(<, Nat)

\* A set of natural numbers has a least one.
LEMMA LeastExists ==
  ASSUME NEW S \in SUBSET Nat, S # {}
  PROVE  \E m \in S : \A x \in S : m <= x
<1>1. IsWellFoundedOn(Before, Nat)
  BY NatLessThanWellFounded, Zenon DEF Before
<1>2. PICK m \in S : \A x \in S : ~ (<<x, m>> \in Before)
  BY <1>1, WFMin, Zenon
<1>3. \A x, y \in Nat : x < y => <<x, y>> \in Before
  BY DEF OpToRel, Before
<1>4. \A x \in S : ~ (x < m)
  BY <1>2, <1>3, Zenon
<1> QED
  BY <1>4

\* What is true at first and kept by each step is true after all of them.
LEMMA StaysIn ==
  ASSUME NEW V, NEW n \in Nat, NEW g, g[0] \in V,
         \A i \in 1..n : g[i - 1] \in V => g[i] \in V
  PROVE  \A i \in 0..n : g[i] \in V
<1> DEFINE out == {i \in 0..n : g[i] \notin V}
<1>1. SUFFICES ASSUME out # {} PROVE FALSE
  OBVIOUS
<1> out \in SUBSET Nat
  OBVIOUS
<1>2. PICK j \in out : \A x \in out : j <= x
  BY <1>1, LeastExists
<1>3. j \in 1..n /\ j - 1 \in 0..n /\ ~(j <= j - 1)
  BY <1>2
<1> QED
  BY <1>2, <1>3

\* Steps can be made one after the other: what a function that is defined by recursion
\* over 0..n needs to exist.
Stepwise(g, V, v, n, step) ==
  g \in [0..n -> V] /\ g[0] = v /\ \A i \in 1..n : g[i] = step[i][g[i - 1]]

\* Steps from v on, each a function: what a recursive definition over 0..n comes to.
LEMMA StepsExist ==
  ASSUME NEW V, NEW v \in V, NEW n \in Nat, NEW step \in [1..n -> [V -> V]]
  PROVE  \E g : Stepwise(g, V, v, n, step)
<1> DEFINE Steps(g, k) == g \in [0..k -> V] /\ g[0] = v /\ \A i \in 1..k : g[i] = step[i][g[i - 1]]
           without == {k \in 0..n : ~ \E g : Steps(g, k)}
<1>1. SUFFICES ASSUME without # {} PROVE FALSE
  <2>1. n \in 0..n /\ (n \notin without => \E g : Steps(g, n))
    OBVIOUS
  <2> QED
    BY <2>1 DEF Stepwise
<1> without \in SUBSET Nat
  OBVIOUS
<1>2. PICK j \in without : \A x \in without : j <= x
  BY <1>1, LeastExists
<1>3. CASE j = 0
  <2>1. Steps([i \in 0..0 |-> v], 0)
    OBVIOUS
  <2> QED
    BY <1>2, <1>3, <2>1
<1>4. CASE j # 0
  <2>1. j \in 1..n /\ j - 1 \in 0..n /\ ~(j <= j - 1)
    BY <1>2, <1>4
  <2>2. PICK g : Steps(g, j - 1)
    BY <1>2, <2>1
  <2> DEFINE h == [i \in 0..j |-> IF i = j THEN step[j][g[j - 1]] ELSE g[i]]
  <2>3. g[j - 1] \in V /\ step[j] \in [V -> V]
    BY <2>1, <2>2
  <2>4. step[j][g[j - 1]] \in V
    BY <2>3
  <2>5. \A i \in 0..j : i # j => i \in 0..(j - 1) /\ h[i] = g[i]
    BY <2>1
  <2>6. h \in [0..j -> V] /\ h[j] = step[j][g[j - 1]] /\ h[0] = v
    BY <2>1, <2>2, <2>4, <2>5
  <2> HIDE DEF h
  <2>7. ASSUME NEW i \in 1..j PROVE h[i] = step[i][h[i - 1]]
    <3>1. i - 1 \in 0..j /\ i - 1 # j /\ i \in 0..j /\ (i # j => i \in 1..(j - 1))
      BY <2>1
    <3>2. h[i - 1] = g[i - 1]
      BY <2>5, <3>1
    <3>3. CASE i = j
      BY <2>6, <3>2, <3>3
    <3>4. CASE i # j
      BY <2>2, <2>5, <3>1, <3>2, <3>4
    <3> QED
      BY <3>3, <3>4
  <2> QED
    BY <1>2, <2>6, <2>7
<1> QED
  BY <1>3, <1>4

-----------------------------------------------------------------------------
(* What is in a sequence, and last in it, when it grows at its end and        *)
(* shrinks at its head.                                                       *)

\* What is in a queue with another behind it.
LEMMA HasConcat ==
  ASSUME NEW S, NEW s \in Seq(S), NEW t \in Seq(S), NEW x
  PROVE  Has(s \o t, x) <=> Has(s, x) \/ Has(t, x)
<1>1. /\ s \o t \in Seq(S) /\ DOMAIN s = 1..Len(s) /\ DOMAIN t = 1..Len(t)
      /\ DOMAIN (s \o t) = 1..(Len(s) + Len(t)) /\ Len(s) \in Nat /\ Len(t) \in Nat
  OBVIOUS
<1>2. \A i \in 1..Len(s) : (s \o t)[i] = s[i]
  OBVIOUS
<1>3. \A i \in 1..Len(t) : (s \o t)[Len(s) + i] = t[i]
  OBVIOUS
<1>4. \A i \in 1..(Len(s) + Len(t)) : i \in 1..Len(s) \/ (i - Len(s) \in 1..Len(t) /\ Len(s) + (i - Len(s)) = i)
  BY <1>1
<1>5. ASSUME NEW i \in 1..(Len(s) + Len(t)), (s \o t)[i] = x PROVE Has(s, x) \/ Has(t, x)
  BY <1>1, <1>2, <1>3, <1>4, <1>5 DEF Has
<1>6. ASSUME NEW i \in 1..Len(s), s[i] = x PROVE Has(s \o t, x)
  BY <1>1, <1>2, <1>6 DEF Has
<1>7. ASSUME NEW i \in 1..Len(t), t[i] = x PROVE Has(s \o t, x)
  <2>1. Len(s) + i \in 1..(Len(s) + Len(t))
    BY <1>1
  <2> QED
    BY <1>1, <1>3, <1>7, <2>1 DEF Has
<1> QED
  BY <1>1, <1>5, <1>6, <1>7 DEF Has

\* What is in a queue is its head or behind it.
LEMMA HasTail ==
  ASSUME NEW S, NEW s \in Seq(S), s # << >>, NEW x
  PROVE  Has(s, x) <=> Head(s) = x \/ Has(Tail(s), x)
<1>1. /\ Len(s) \in Nat \ {0} /\ DOMAIN s = 1..Len(s) /\ DOMAIN Tail(s) = 1..(Len(s) - 1) /\ Head(s) = s[1]
      /\ \A i \in 1..(Len(s) - 1) : Tail(s)[i] = s[i + 1]
  OBVIOUS
<1>2. ASSUME NEW i \in 1..Len(s), s[i] = x, i # 1 PROVE Has(Tail(s), x)
  <2>1. i - 1 \in 1..(Len(s) - 1) /\ (i - 1) + 1 = i
    BY <1>1, <1>2
  <2> QED
    BY <1>1, <1>2, <2>1 DEF Has
<1>3. ASSUME NEW i \in 1..(Len(s) - 1), Tail(s)[i] = x PROVE Has(s, x)
  <2>1. i + 1 \in 1..Len(s)
    BY <1>1
  <2> QED
    BY <1>1, <1>3, <2>1 DEF Has
<1>4. 1 \in 1..Len(s)
  BY <1>1
<1> QED
  BY <1>1, <1>2, <1>3, <1>4 DEF Has

\* The last of its kind stays it when others come, or one comes.
LEMMA EndsConcat ==
  ASSUME NEW S, NEW s \in Seq(S), NEW t \in Seq(S), NEW x, NEW ys
  PROVE  /\ Ends(s, x, ys) /\ (\A y \in ys : ~Has(t, y)) => Ends(s \o t, x, ys)
         /\ Ends(t, x, ys) => Ends(s \o t, x, ys)
<1>1. /\ DOMAIN s = 1..Len(s) /\ DOMAIN t = 1..Len(t)
      /\ DOMAIN (s \o t) = 1..(Len(s) + Len(t)) /\ Len(s) \in Nat /\ Len(t) \in Nat
      /\ \A i \in 1..Len(s) : (s \o t)[i] = s[i]
      /\ \A i \in 1..Len(t) : (s \o t)[Len(s) + i] = t[i]
  OBVIOUS
<1>2. \A i \in 1..(Len(s) + Len(t)) :
        i \in 1..Len(s) \/ (i - Len(s) \in 1..Len(t) /\ (s \o t)[i] = t[i - Len(s)])
  <2> TAKE i \in 1..(Len(s) + Len(t))
  <2>1. i \in 1..Len(s) \/ (i - Len(s) \in 1..Len(t) /\ Len(s) + (i - Len(s)) = i)
    BY <1>1
  <2> QED
    BY <1>1, <2>1
<1>3. ASSUME Ends(s, x, ys), \A y \in ys : ~Has(t, y) PROVE Ends(s \o t, x, ys)
  <2>1. PICK i \in 1..Len(s) : s[i] = x /\ \A j \in 1..Len(s) : j > i => s[j] \notin ys
    BY <1>1, <1>3 DEF Ends
  <2>2. \A j \in 1..(Len(s) + Len(t)) : j > i => (s \o t)[j] \notin ys
    BY <1>1, <1>2, <1>3, <2>1 DEF Has
  <2>3. i \in 1..(Len(s) + Len(t)) /\ (s \o t)[i] = x
    BY <1>1, <2>1
  <2> QED
    BY <1>1, <2>2, <2>3 DEF Ends
<1>4. ASSUME Ends(t, x, ys) PROVE Ends(s \o t, x, ys)
  <2>1. PICK i \in 1..Len(t) : t[i] = x /\ \A j \in 1..Len(t) : j > i => t[j] \notin ys
    BY <1>1, <1>4 DEF Ends
  <2>2. Len(s) + i \in 1..(Len(s) + Len(t)) /\ (s \o t)[Len(s) + i] = x
    BY <1>1, <2>1
  <2>3. ASSUME NEW j \in 1..(Len(s) + Len(t)), j > Len(s) + i PROVE (s \o t)[j] \notin ys
    <3>1. j \notin 1..Len(s) /\ j - Len(s) > i
      BY <1>1, <2>3
    <3> QED
      BY <1>2, <2>1, <3>1
  <2> QED
    BY <1>1, <2>2, <2>3 DEF Ends
<1> QED
  BY <1>3, <1>4

\* The last of its kind stays it when the head goes, unless it is the head.
LEMMA EndsTail ==
  ASSUME NEW S, NEW s \in Seq(S), s # << >>, NEW x, NEW ys, Ends(s, x, ys)
  PROVE  \/ Ends(Tail(s), x, ys)
         \/ Head(s) = x /\ \A y \in ys : ~Has(Tail(s), y)
<1>1. /\ Len(s) \in Nat \ {0} /\ DOMAIN s = 1..Len(s) /\ DOMAIN Tail(s) = 1..(Len(s) - 1) /\ Head(s) = s[1]
      /\ \A i \in 1..(Len(s) - 1) : Tail(s)[i] = s[i + 1] /\ i + 1 \in 1..Len(s)
  OBVIOUS
<1>2. PICK i \in 1..Len(s) : s[i] = x /\ \A j \in 1..Len(s) : j > i => s[j] \notin ys
  BY <1>1 DEF Ends
<1>3. CASE i = 1
  <2>1. \A j \in 1..(Len(s) - 1) : j + 1 > 1
    BY <1>1
  <2>2. \A j \in 1..(Len(s) - 1) : Tail(s)[j] \notin ys
    BY <1>1, <1>2, <1>3, <2>1
  <2> QED
    BY <1>1, <1>2, <1>3, <2>2 DEF Has
<1>4. CASE i # 1
  <2>1. i - 1 \in 1..(Len(s) - 1) /\ (i - 1) + 1 = i
    BY <1>1, <1>4
  <2>2. \A j \in 1..(Len(s) - 1) : j > i - 1 => j + 1 > i
    BY <1>1
  <2>3. \A j \in 1..(Len(s) - 1) : j > i - 1 => Tail(s)[j] \notin ys
    BY <1>1, <1>2, <2>2
  <2>4. Tail(s)[i - 1] = x
    BY <1>1, <1>2, <2>1
  <2> QED
    BY <1>1, <2>1, <2>3, <2>4 DEF Ends
<1> QED
  BY <1>3, <1>4

\* Nothing is in the empty queue.
LEMMA HasNone == \A x : ~Has(<< >>, x)
  BY DEF Has

\* One thing is in a queue of one.
LEMMA HasOne == \A x, y : Has(<<y>>, x) <=> x = y
  BY DEF Has

\* The only one is the last.
LEMMA EndsOne == \A x, ys : Ends(<<x>>, x, ys)
  BY DEF Ends

\* What is a queue.
LEMMA SeqsClosed ==
  ASSUME NEW S, NEW s \in Seq(S), NEW t \in Seq(S)
  PROVE  /\ s \o t \in Seq(S) /\ << >> \in Seq(S) /\ s \o << >> = s
         /\ s # << >> => Tail(s) \in Seq(S) /\ Head(s) \in S
  OBVIOUS

\* A sequence of one, of which nothing is among xs.
LEMMA OneIsSeq ==
  ASSUME NEW S, NEW y \in S, NEW xs, y \notin xs
  PROVE  <<y>> \in Seq(S) /\ \A x \in xs : ~Has(<<y>>, x)
<1>1. <<y>> \in Seq(S)
  OBVIOUS
<1> QED
  BY <1>1, HasOne

===================================================================================
