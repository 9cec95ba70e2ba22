---------------------------- MODULE ModulesProofs ----------------------------
(***************************************************************************)
(* Proofs about Modules, for any modules of the table, configurations, and *)
(* number of modules loaded in one run.                                    *)
(*                                                                         *)
(* The argument: what a list of a server must hold of a loaded module is   *)
(* said by the entries of that module alone, and a load number is never    *)
(* given twice.  Reading a configuration, line by line and module by       *)
(* module, keeps the lists and the entries in step; a stop, entry by       *)
(* entry, takes away what the entries account for, and nothing of others.  *)
(***************************************************************************)
EXTENDS Modules, FiniteSetTheorems, SequenceLemmas

\* x is in the list at most once.
Alone(list, x) == \A i, j \in DOMAIN list : list[i] = x /\ list[j] = x => i = j

\* No two elements have the same name.
NamesApart(list) == \A i, j \in DOMAIN list : list[i].name = list[j].name => i = j

\* new is old with x, or one of several x, taken away.
Thinned(new, old, x) ==
  /\ \A y : Has(new, y) => Has(old, y)
  /\ \A y : Has(old, y) /\ y # x => Has(new, y)
  /\ Alone(old, x) => ~Has(new, x)
  /\ \A y : Alone(old, y) => Alone(new, y)
  /\ NamesApart(old) => NamesApart(new)

-----------------------------------------------------------------------------
(* Lists.                                                                     *)

\* The least of a set of natural numbers.
LEMMA MinIs ==
  ASSUME NEW I \in SUBSET Nat, I # {}
  PROVE  Min(I) \in I /\ \A j \in I : Min(I) <= j
<1>1. \E x \in I : \A y \in I : x <= y
  BY LeastExists
<1> QED
  BY <1>1 DEF Min

\* Two sequences, one after the other.
LEMMA BothIs ==
  ASSUME NEW S, NEW a \in Seq(S), NEW b \in Seq(S)
  PROVE  /\ a \o b \in Seq(S) /\ Len(a \o b) = Len(a) + Len(b)
         /\ \A k \in 1..(Len(a) + Len(b)) :
              (a \o b)[k] = IF k <= Len(a) THEN a[k] ELSE b[k - Len(a)]
  OBVIOUS

\* List::add.
LEMMA AddIs ==
  ASSUME NEW S, NEW list \in Seq(S), NEW e \in S
  PROVE  /\ Add(list, e) \in Seq(S) /\ Len(Add(list, e)) = Len(list) + 1 /\ Add(list, e)[1] = e
         /\ \A i \in 2..(Len(list) + 1) : Add(list, e)[i] = list[i - 1]
<1>1. <<e>> \in Seq(S) /\ Len(<<e>>) = 1 /\ <<e>>[1] = e
  OBVIOUS
<1>3. Len(list) \in Nat
  OBVIOUS
<1>4. Add(list, e) = <<e>> \o list
  BY DEF Add, Cons
<1> DEFINE one == <<e>>
<1> HIDE DEF one
<1>5. one \in Seq(S) /\ Len(one) = 1 /\ one[1] = e /\ Add(list, e) = one \o list
  BY <1>1, <1>4 DEF one
<1>6. /\ Add(list, e) \in Seq(S) /\ Len(Add(list, e)) = 1 + Len(list)
      /\ \A i \in 1..(1 + Len(list)) : Add(list, e)[i] = IF i <= 1 THEN one[i] ELSE list[i - 1]
  BY <1>5, BothIs
<1> QED
  BY <1>3, <1>5, <1>6

\* What is in the list then.
LEMMA AddHas ==
  ASSUME NEW S, NEW list \in Seq(S), NEW e \in S
  PROVE  \A x : Has(Add(list, e), x) <=> x = e \/ Has(list, x)
<1>1. TAKE x
<1> DEFINE one == <<e>>
<1>2. one \in Seq(S) /\ Add(list, e) = one \o list /\ (Has(one, x) <=> x = e)
  BY HasOne DEF Add, Cons
<1> HIDE DEF one
<1>3. Has(one \o list, x) <=> Has(one, x) \/ Has(list, x)
  BY <1>2, HasConcat
<1> QED
  BY <1>2, <1>3

\* What was not there is there once.
LEMMA AddAlone ==
  ASSUME NEW S, NEW list \in Seq(S), NEW e \in S
  PROVE  /\ \A x : Alone(list, x) /\ (x = e => ~Has(list, e)) => Alone(Add(list, e), x)
         /\ NamesApart(list) /\ (\A i \in DOMAIN list : list[i].name # e.name)
              => NamesApart(Add(list, e))
<1> DEFINE new == Add(list, e)
<1>0. /\ new \in Seq(S) /\ Len(new) = Len(list) + 1 /\ new[1] = e
      /\ \A i \in 2..(Len(list) + 1) : new[i] = list[i - 1]
  BY AddIs
<1> HIDE DEF new
<1>1. /\ DOMAIN new = 1..(Len(list) + 1) /\ DOMAIN list = 1..Len(list) /\ Len(list) \in Nat
      /\ new[1] = e /\ \A i \in 2..(Len(list) + 1) : new[i] = list[i - 1]
  BY <1>0
<1>2. \A i \in 1..(Len(list) + 1) : i = 1 \/ (i \in 2..(Len(list) + 1) /\ i - 1 \in 1..Len(list))
  BY <1>1
<1>3. ASSUME NEW x, Alone(list, x), x = e => ~Has(list, e),
             NEW i \in DOMAIN new, NEW j \in DOMAIN new, new[i] = x, new[j] = x
      PROVE  i = j
  <2>1. CASE i = 1 \/ j = 1
    <3>1. x = e
      BY <1>1, <1>3, <2>1
    <3>2. \A k \in 1..Len(list) : list[k] # e
      BY <1>1, <1>3, <3>1 DEF Has
    <3> QED
      BY <1>1, <1>2, <1>3, <2>1, <3>1, <3>2
  <2>2. CASE i # 1 /\ j # 1
    <3>1. /\ i - 1 \in 1..Len(list) /\ list[i - 1] = x
          /\ j - 1 \in 1..Len(list) /\ list[j - 1] = x
      BY <1>1, <1>2, <1>3, <2>2
    <3>2. i - 1 = j - 1
      BY <1>1, <1>3, <3>1 DEF Alone
    <3> QED
      BY <1>1, <1>3, <3>2
  <2> QED
    BY <2>1, <2>2
<1>4. ASSUME NamesApart(list), \A k \in DOMAIN list : list[k].name # e.name,
             NEW i \in DOMAIN new, NEW j \in DOMAIN new, new[i].name = new[j].name
      PROVE  i = j
  <2>1. CASE i = 1 \/ j = 1
    BY <1>1, <1>2, <1>4, <2>1
  <2>2. CASE i # 1 /\ j # 1
    <3>1. i - 1 \in 1..Len(list) /\ j - 1 \in 1..Len(list) /\ list[i - 1].name = list[j - 1].name
      BY <1>1, <1>2, <1>4, <2>2
    <3>2. i - 1 = j - 1
      BY <1>1, <1>4, <3>1 DEF NamesApart
    <3> QED
      BY <1>1, <1>4, <3>2
  <2> QED
    BY <2>1, <2>2
<1>5. \A x : Alone(list, x) /\ (x = e => ~Has(list, e)) => Alone(new, x)
  BY <1>3 DEF Alone
<1>6. NamesApart(list) /\ (\A i \in DOMAIN list : list[i].name # e.name) => NamesApart(new)
  BY <1>4 DEF NamesApart
<1> QED
  BY <1>5, <1>6 DEF new

\* An element is taken out of its place.
LEMMA RemoveIs ==
  ASSUME NEW S, NEW list \in Seq(S), NEW i \in 1..Len(list)
  PROVE  /\ RemoveAt(list, i) \in Seq(S) /\ Len(RemoveAt(list, i)) = Len(list) - 1
         /\ \A k \in 1..(Len(list) - 1) :
              RemoveAt(list, i)[k] = IF k < i THEN list[k] ELSE list[k + 1]
<1> DEFINE a == SubSeq(list, 1, i - 1)
           b == SubSeq(list, i + 1, Len(list))
<1>1. Len(list) \in Nat \ {0} /\ i \in Nat
  OBVIOUS
<1>2. /\ a \in Seq(S) /\ Len(a) = i - 1 /\ \A k \in 1..(i - 1) : a[k] = list[k]
  BY <1>1
<1>3. /\ b \in Seq(S) /\ Len(b) = Len(list) - i /\ \A k \in 1..(Len(list) - i) : b[k] = list[i + k]
  BY <1>1
<1>4. RemoveAt(list, i) = a \o b
  BY DEF RemoveAt
<1> HIDE DEF a, b
<1>5. /\ a \o b \in Seq(S) /\ Len(a \o b) = Len(a) + Len(b)
      /\ \A k \in 1..(Len(a) + Len(b)) : (a \o b)[k] = IF k <= Len(a) THEN a[k] ELSE b[k - Len(a)]
  BY <1>2, <1>3, BothIs
<1>6. Len(a) + Len(b) = Len(list) - 1
  BY <1>1, <1>2, <1>3
<1>7. ASSUME NEW k \in 1..(Len(list) - 1)
      PROVE  (a \o b)[k] = IF k < i THEN list[k] ELSE list[k + 1]
  <2>1. CASE k < i
    <3>1. k \in 1..(i - 1) /\ k <= Len(a)
      BY <1>1, <1>2, <2>1
    <3> QED
      BY <1>2, <1>5, <1>6, <2>1, <3>1
  <2>2. CASE ~(k < i)
    <3>1. k - (i - 1) \in 1..(Len(list) - i) /\ i + (k - (i - 1)) = k + 1 /\ ~(k <= Len(a))
      BY <1>1, <1>2, <2>2
    <3>2. b[k - (i - 1)] = list[k + 1]
      BY <1>3, <3>1
    <3> QED
      BY <1>2, <1>5, <1>6, <2>2, <3>1, <3>2
  <2> QED
    BY <2>1, <2>2
<1> QED
  BY <1>4, <1>5, <1>6, <1>7

\* And the list is thinner then.
LEMMA RemoveThins ==
  ASSUME NEW S, NEW list \in Seq(S), NEW i \in 1..Len(list)
  PROVE  Thinned(RemoveAt(list, i), list, list[i])
<1> DEFINE new == RemoveAt(list, i)
           Old(k) == IF k < i THEN k ELSE k + 1
<1>0. /\ new \in Seq(S) /\ Len(new) = Len(list) - 1
      /\ \A k \in 1..(Len(list) - 1) : new[k] = IF k < i THEN list[k] ELSE list[k + 1]
  BY RemoveIs
<1> HIDE DEF new
<1>1. /\ DOMAIN new = 1..(Len(list) - 1) /\ DOMAIN list = 1..Len(list) /\ Len(list) \in Nat \ {0}
      /\ \A k \in 1..(Len(list) - 1) : new[k] = IF k < i THEN list[k] ELSE list[k + 1]
  BY <1>0
<1>2. \A k \in DOMAIN new : Old(k) \in DOMAIN list /\ Old(k) # i /\ new[k] = list[Old(k)]
  BY <1>1
<1>3. \A k, j \in DOMAIN new : Old(k) = Old(j) => k = j
  BY <1>1
<1>4. ASSUME NEW k \in DOMAIN list, k # i PROVE \E j \in DOMAIN new : new[j] = list[k]
  <2>1. CASE k < i
    BY <1>1, <2>1
  <2>2. CASE ~(k < i)
    <3>1. k - 1 \in 1..(Len(list) - 1) /\ ~(k - 1 < i) /\ (k - 1) + 1 = k
      BY <1>1, <1>4, <2>2
    <3> QED
      BY <1>1, <3>1
  <2> QED
    BY <2>1, <2>2
<1> HIDE DEF Old
<1>5. \A y : Has(new, y) => Has(list, y)
  BY <1>2 DEF Has
<1>6. \A y : Has(list, y) /\ y # list[i] => Has(new, y)
  BY <1>4 DEF Has
<1>7. Alone(list, list[i]) => ~Has(new, list[i])
  BY <1>1, <1>2 DEF Has, Alone
<1>8. ASSUME NEW y, Alone(list, y) PROVE Alone(new, y)
  BY <1>2, <1>3, <1>8 DEF Alone
<1>9. NamesApart(list) => NamesApart(new)
  BY <1>2, <1>3 DEF NamesApart
<1> QED
  BY <1>5, <1>6, <1>7, <1>8, <1>9 DEF Thinned, new

\* Where the first element is that is deleted.
Found(list, e) == SelectInSeq(list, LAMBDA x : x = e)

\* List::del.
LEMMA DelIs ==
  ASSUME NEW S, NEW list \in Seq(S), NEW e
  PROVE  \/ ~Has(list, e) /\ Del(list, e) = list
         \/ /\ Found(list, e) \in 1..Len(list) /\ list[Found(list, e)] = e
            /\ \A j \in 1..Len(list) : list[j] = e => Found(list, e) <= j
            /\ Del(list, e) = RemoveAt(list, Found(list, e))
<1> DEFINE I == {i \in 1..Len(list) : list[i] = e}
<1>1. I \in SUBSET Nat /\ DOMAIN list = 1..Len(list)
  OBVIOUS
<1>2. CASE ~Has(list, e)
  BY <1>1, <1>2 DEF Has, Del, RemoveFirst
<1>3. CASE Has(list, e)
  <2>1. I # {}
    BY <1>1, <1>3 DEF Has
  <2>2. Found(list, e) = Min(I) /\ Del(list, e) = RemoveAt(list, Found(list, e))
    BY <2>1 DEF Found, Del, RemoveFirst, SelectInSeq
  <2>3. Min(I) \in I /\ \A j \in I : Min(I) <= j
    BY <1>1, <2>1, MinIs
  <2> QED
    BY <2>2, <2>3
<1> QED
  BY <1>2, <1>3

\* ListVars::var_exist.
LEMMA NamedIs ==
  ASSUME NEW S, NEW list \in Seq(S), NEW name
  PROVE  \/ Named(list, name) = 0 /\ \A i \in 1..Len(list) : list[i].name # name
         \/ Named(list, name) \in 1..Len(list) /\ list[Named(list, name)].name = name
<1> DEFINE I == {i \in 1..Len(list) : list[i].name = name}
<1>1. I \in SUBSET Nat
  OBVIOUS
<1>2. Named(list, name) = IF I # {} THEN Min(I) ELSE 0
  BY DEF Named, SelectInSeq
<1>3. I # {} => Min(I) \in I
  BY <1>1, MinIs
<1> QED
  BY <1>2, <1>3

\* ListVars::var_del and Script::cmd_unbind.
LEMMA DelNamedIs ==
  ASSUME NEW S, NEW list \in Seq(S), NEW name
  PROVE  \/ DelNamed(list, name) = list /\ \A i \in 1..Len(list) : list[i].name # name
         \/ \E i \in 1..Len(list) : list[i].name = name /\ DelNamed(list, name) = RemoveAt(list, i)
<1> DEFINE I == {i \in 1..Len(list) : list[i].name = name}
<1>1. I \in SUBSET Nat
  OBVIOUS
<1>2. DelNamed(list, name) = IF \E i \in 1..Len(list) : list[i].name = name
                             THEN RemoveAt(list, IF I # {} THEN Min(I) ELSE 0) ELSE list
  BY DEF DelNamed, RemoveFirstMatch, SelectInSeq
<1>3. I # {} => Min(I) \in I
  BY <1>1, MinIs
<1> QED
  BY <1>2, <1>3

-----------------------------------------------------------------------------
(* What a list has of other modules.                                          *)

\* g is what is left of the list, place by place.
RestIs(g, list, mod) ==
  /\ g[0] = << >>
  /\ \A k \in 1..Len(list) :
       g[k] = IF Mine(list[k], mod) THEN g[k - 1] ELSE Append(g[k - 1], list[k])

\* A set of places that has the first and with each the next has all.
LEMMA AllPlaces ==
  ASSUME NEW n \in Nat, NEW I \in SUBSET (0..n), 0 \in I, \A i \in 1..n : i - 1 \in I => i \in I
  PROVE  n \in I
<1> DEFINE g == [i \in 0..n |-> i]
<1>1. g[0] = 0 /\ (\A i \in 1..n : i - 1 \in 0..n /\ i \in 0..n) /\ n \in 0..n
  OBVIOUS
<1>2. \A i \in 0..n : g[i] = i
  OBVIOUS
<1> HIDE DEF g
<1>3. g[0] \in I /\ \A i \in 1..n : g[i - 1] \in I => g[i] \in I
  BY <1>1, <1>2
<1>4. \A i \in 0..n : g[i] \in I
  BY <1>3, StaysIn
<1> QED
  BY <1>1, <1>2, <1>4

\* The places of a list.
LEMMA PlacesIs ==
  ASSUME NEW S, NEW list \in Seq(S)
  PROVE  DOMAIN list = 1..Len(list) /\ Len(list) \in Nat /\ \A i \in 1..Len(list) : list[i] \in S
  OBVIOUS

\* What is left exists, and is of the list and of others.
LEMMA OthersIs ==
  ASSUME NEW list \in Seq(Element), NEW mod
  PROVE  /\ \E g : RestIs(g, list, mod) /\ Others(list, mod) = g[Len(list)]
         /\ Others(list, mod) \in Seq(Element)
         /\ \A x : Has(Others(list, mod), x) => Has(list, x) /\ ~Mine(x, mod)
<1> DEFINE N == Len(list)
           V == {ls \in Seq(Element) : \A x : Has(ls, x) => Has(list, x) /\ ~Mine(x, mod)}
           One(ls, k) == IF Mine(list[k], mod) THEN ls ELSE Append(ls, list[k])
           Body(g, k) == IF k = 0 THEN <<>>
                         ELSE IF Mine(list[k], mod) THEN g[k - 1] ELSE Append(g[k - 1], list[k])
           Runs(g) == g = [k \in 0..N |-> Body(g, k)]
           rest == CHOOSE g : Runs(g)
<1>1. Others(list, mod) = rest[N]
  BY DEF Others
<1>2. N \in Nat /\ DOMAIN list = 1..N /\ \A k \in 1..N : list[k] \in Element
  BY PlacesIs
<1>3. << >> \in V
  BY HasNone
<1>4. ASSUME NEW k \in 1..N, NEW ls \in V PROVE One(ls, k) \in V
  <2>1. CASE Mine(list[k], mod)
    BY <2>1
  <2>2. CASE ~Mine(list[k], mod)
    <3> DEFINE y == list[k]
    <3>1. y \in Element /\ Has(list, y) /\ ~Mine(y, mod)
      BY <1>2, <2>2 DEF Has
    <3>2. ls \in Seq(Element) /\ \A x : Has(ls, x) => Has(list, x) /\ ~Mine(x, mod)
      OBVIOUS
    <3>3. One(ls, k) = Append(ls, y)
      BY <2>2
    <3> HIDE DEF y, One
    <3>4. Append(ls, y) = ls \o <<y>> /\ <<y>> \in Seq(Element)
      BY <3>1, <3>2
    <3>5. ls \o <<y>> \in Seq(Element)
      BY <3>2, <3>4, SeqsClosed
    <3>6. \A x : Has(ls \o <<y>>, x) <=> Has(ls, x) \/ Has(<<y>>, x)
      BY <3>2, <3>4, HasConcat
    <3>7. \A x : Has(ls \o <<y>>, x) => Has(list, x) /\ ~Mine(x, mod)
      BY <3>1, <3>2, <3>6, HasOne
    <3> QED
      BY <3>3, <3>4, <3>5, <3>7
  <2> QED
    BY <2>1, <2>2
<1>5. \A g, k : Body(g, k) = IF k = 0 THEN <<>> ELSE One(g[k - 1], k)
  OBVIOUS
<1> HIDE DEF V, One, N, Body
<1>6. \E g : Runs(g)
  <2> DEFINE step == [k \in 1..N |-> [x \in V |-> One(x, k)]]
  <2>1. step \in [1..N -> [V -> V]] /\ \A k \in 1..N : \A x \in V : step[k][x] = One(x, k)
    BY <1>4
  <2> HIDE DEF step
  <2>2. PICK g : Stepwise(g, V, << >>, N, step)
    BY <1>2, <1>3, <2>1, StepsExist
  <2>3. g[0] = << >> /\ g \in [0..N -> V] /\ \A k \in 1..N : g[k] = step[k][g[k - 1]]
    BY <2>2 DEF Stepwise
  <2>4. \A k \in 1..N : k - 1 \in 0..N
    BY <1>2
  <2>5. \A k \in 1..N : g[k] = One(g[k - 1], k)
    BY <2>1, <2>3, <2>4
  <2>6. ASSUME NEW k \in 0..N PROVE g[k] = Body(g, k)
    <3>1. k # 0 => k \in 1..N
      BY <1>2
    <3> QED
      BY <1>5, <2>3, <2>5, <3>1
  <2>7. g = [k \in 0..N |-> g[k]]
    BY <2>3
  <2> QED
    BY <2>6, <2>7
<1>7. Runs(rest)
  BY <1>6, Zenon
<1> HIDE DEF rest
<1>8. \A k \in 0..N : rest[k] = Body(rest, k)
  <2>1. \A g : Runs(g) => \A k \in 0..N : g[k] = Body(g, k)
    OBVIOUS
  <2> HIDE DEF Runs
  <2> QED
    BY <1>7, <2>1
<1>9. rest[0] = << >> /\ rest[0] \in V
  BY <1>2, <1>3, <1>5, <1>8
<1>10. \A k \in 1..N : rest[k] = One(rest[k - 1], k)
  <2> TAKE k \in 1..N
  <2>1. k \in 0..N /\ k # 0
    BY <1>2
  <2> QED
    BY <1>5, <1>8, <2>1
<1>11. rest[N] \in V
  <2>1. \A k \in 1..N : rest[k - 1] \in V => rest[k] \in V
    BY <1>4, <1>10
  <2>2. \A k \in 0..N : rest[k] \in V
    BY <1>2, <1>9, <2>1, StaysIn
  <2> QED
    BY <1>2, <2>2
<1>12. RestIs(rest, list, mod)
  BY <1>9, <1>10 DEF RestIs, One, N
<1> QED
  BY <1>1, <1>11, <1>12 DEF V, N

\* There is only one such function.
LEMMA OthersAre ==
  ASSUME NEW list \in Seq(Element), NEW mod, NEW g, RestIs(g, list, mod)
  PROVE  Others(list, mod) = g[Len(list)]
<1>1. PICK h : RestIs(h, list, mod) /\ Others(list, mod) = h[Len(list)]
  BY OthersIs
<1>2. Len(list) \in Nat
  BY PlacesIs
<1> DEFINE I == {k \in 0..Len(list) : g[k] = h[k]}
<1>3. I \in SUBSET (0..Len(list)) /\ 0 \in I
  BY <1>1, <1>2 DEF RestIs
<1>4. ASSUME NEW k \in 1..Len(list), k - 1 \in I PROVE k \in I
  <2>1. g[k - 1] = h[k - 1] /\ k \in 0..Len(list)
    BY <1>2, <1>4
  <2> QED
    BY <1>1, <2>1 DEF RestIs
<1> HIDE DEF I
<1>5. Len(list) \in I
  BY <1>2, <1>3, <1>4, AllPlaces
<1> QED
  BY <1>1, <1>5 DEF I

\* What mod adds is not of others.
LEMMA OthersAdd ==
  ASSUME NEW list \in Seq(Element), NEW mod, NEW e \in Element, Mine(e, mod)
  PROVE  Others(Add(list, e), mod) = Others(list, mod)
<1> DEFINE new == Add(list, e)
           n   == Len(list)
<1>1. PICK h : RestIs(h, list, mod) /\ Others(list, mod) = h[n]
  BY OthersIs
<1>2. new \in Seq(Element) /\ Len(new) = n + 1 /\ new[1] = e /\ \A i \in 2..(n + 1) : new[i] = list[i - 1]
  BY AddIs
<1>3. n \in Nat /\ h[0] = << >>
      /\ \A k \in 1..n : h[k] = IF Mine(list[k], mod) THEN h[k - 1] ELSE Append(h[k - 1], list[k])
  BY <1>1, PlacesIs DEF RestIs
<1> HIDE DEF new, n
<1> DEFINE g == [k \in 0..(n + 1) |-> IF k = 0 THEN << >> ELSE h[k - 1]]
<1>4. g[0] = << >> /\ \A k \in 1..(n + 1) : g[k] = h[k - 1]
  BY <1>3
<1> HIDE DEF g
<1>5. ASSUME NEW k \in 1..(n + 1)
      PROVE  g[k] = IF Mine(new[k], mod) THEN g[k - 1] ELSE Append(g[k - 1], new[k])
  <2>1. CASE k = 1
    <3>1. g[1] = h[0] /\ g[0] = h[0]
      BY <1>3, <1>4
    <3> QED
      BY <1>2, <2>1, <3>1
  <2>2. CASE k # 1
    <3>1. k \in 2..(n + 1) /\ k - 1 \in 1..n /\ k - 1 \in 1..(n + 1)
      BY <1>3, <2>2
    <3>2. g[k] = h[k - 1] /\ g[k - 1] = h[(k - 1) - 1] /\ new[k] = list[k - 1]
      BY <1>2, <1>4, <3>1
    <3> QED
      BY <1>3, <3>1, <3>2
  <2> QED
    BY <2>1, <2>2
<1>6. RestIs(g, new, mod)
  BY <1>2, <1>4, <1>5 DEF RestIs
<1>7. Others(new, mod) = g[n + 1] /\ n + 1 \in 1..(n + 1) /\ (n + 1) - 1 = n
  BY <1>2, <1>3, <1>6, OthersAre
<1>8. g[n + 1] = h[n]
  BY <1>4, <1>7
<1> QED
  BY <1>1, <1>7, <1>8 DEF new

\* Nor is what is taken out of it and is of mod.
LEMMA OthersRemove ==
  ASSUME NEW list \in Seq(Element), NEW mod, NEW i \in 1..Len(list), Mine(list[i], mod)
  PROVE  Others(RemoveAt(list, i), mod) = Others(list, mod)
<1> DEFINE new == RemoveAt(list, i)
           n   == Len(list)
<1>1. PICK h : RestIs(h, list, mod) /\ Others(list, mod) = h[n]
  BY OthersIs
<1>2. /\ new \in Seq(Element) /\ Len(new) = n - 1
      /\ \A k \in 1..(n - 1) : new[k] = IF k < i THEN list[k] ELSE list[k + 1]
  BY RemoveIs
<1>3. /\ n \in Nat \ {0} /\ i \in 1..n /\ h[0] = << >>
      /\ \A k \in 1..n : h[k] = IF Mine(list[k], mod) THEN h[k - 1] ELSE Append(h[k - 1], list[k])
  BY <1>1, PlacesIs DEF RestIs
<1> HIDE DEF new, n
<1>4. h[i] = h[i - 1]
  BY <1>3
<1> DEFINE g == [k \in 0..(n - 1) |-> IF k < i THEN h[k] ELSE h[k + 1]]
<1>5. \A k \in 0..(n - 1) : g[k] = IF k < i THEN h[k] ELSE h[k + 1]
  OBVIOUS
<1> HIDE DEF g
<1>6. ASSUME NEW k \in 1..(n - 1)
      PROVE  g[k] = IF Mine(new[k], mod) THEN g[k - 1] ELSE Append(g[k - 1], new[k])
  <2>1. k \in 0..(n - 1) /\ k - 1 \in 0..(n - 1) /\ k \in 1..n /\ k + 1 \in 1..n /\ (k + 1) - 1 = k
    BY <1>3
  <2>2. CASE k < i
    <3>1. g[k] = h[k] /\ g[k - 1] = h[k - 1] /\ new[k] = list[k]
      BY <1>2, <1>3, <1>5, <2>1, <2>2
    <3> QED
      BY <1>3, <2>1, <3>1
  <2>3. CASE ~(k < i)
    <3>1. g[k] = h[k + 1] /\ new[k] = list[k + 1]
      BY <1>2, <1>5, <2>1, <2>3
    <3>2. g[k - 1] = h[k]
      <4>1. CASE k = i
        <5>1. k - 1 < i
          BY <1>3, <4>1
        <5> QED
          BY <1>4, <1>5, <2>1, <4>1, <5>1
      <4>2. CASE k # i
        <5>1. ~(k - 1 < i) /\ (k - 1) + 1 = k
          BY <1>3, <2>3, <4>2
        <5> QED
          BY <1>5, <2>1, <5>1
      <4> QED
        BY <4>1, <4>2
    <3>3. h[k + 1] = IF Mine(list[k + 1], mod) THEN h[k] ELSE Append(h[k], list[k + 1])
      BY <1>3, <2>1
    <3> QED
      BY <3>1, <3>2, <3>3
  <2> QED
    BY <2>2, <2>3
<1>7. RestIs(g, new, mod)
  <2>1. 0 \in 0..(n - 1) /\ 0 < i
    BY <1>3
  <2>2. g[0] = << >>
    BY <1>3, <1>5, <2>1
  <2> QED
    BY <1>2, <1>6, <2>2 DEF RestIs
<1>8. Others(new, mod) = g[n - 1] /\ n - 1 \in 0..(n - 1)
  BY <1>2, <1>3, <1>7, OthersAre
<1>9. g[n - 1] = h[n]
  <2>1. CASE n - 1 < i
    <3>1. i = n
      BY <1>3, <2>1
    <3> QED
      BY <1>4, <1>5, <1>8, <2>1, <3>1
  <2>2. CASE ~(n - 1 < i)
    <3>1. (n - 1) + 1 = n
      BY <1>3
    <3> QED
      BY <1>5, <1>8, <2>2, <3>1
  <2> QED
    BY <2>1, <2>2
<1> QED
  BY <1>1, <1>8, <1>9 DEF new

\* What is left has nothing of mod to lose.
LEMMA OthersTwice ==
  ASSUME NEW list \in Seq(Element), NEW mod
  PROVE  Others(Others(list, mod), mod) = Others(list, mod)
<1> DEFINE new == Others(list, mod)
<1>1. new \in Seq(Element) /\ \A x : Has(new, x) => ~Mine(x, mod)
  BY OthersIs
<1> HIDE DEF new
<1>2. Len(new) \in Nat /\ DOMAIN new = 1..Len(new) /\ \A k \in 1..Len(new) : ~Mine(new[k], mod)
  <2>1. Len(new) \in Nat /\ DOMAIN new = 1..Len(new)
    BY <1>1, PlacesIs
  <2> QED
    BY <1>1, <2>1 DEF Has
<1> DEFINE g == [k \in 0..Len(new) |-> SubSeq(new, 1, k)]
<1>3. g[0] = << >> /\ g[Len(new)] = new
  <2>1. 0 \in 0..Len(new) /\ Len(new) \in 0..Len(new)
    BY <1>2
  <2> QED
    BY <1>1, <2>1
<1>4. ASSUME NEW k \in 1..Len(new) PROVE g[k] = Append(g[k - 1], new[k])
  <2>1. k \in 0..Len(new) /\ k - 1 \in 0..Len(new) /\ k \in Nat /\ k - 1 \in Nat
    BY <1>2
  <2>2. SubSeq(new, 1, k) = Append(SubSeq(new, 1, k - 1), new[k])
    <3> DEFINE a == SubSeq(new, 1, k)
               b == SubSeq(new, 1, k - 1)
    <3>1. a \in Seq(Element) /\ Len(a) = k /\ \A i \in 1..k : a[i] = new[i]
      BY <1>1, <1>2, <2>1
    <3>2. b \in Seq(Element) /\ Len(b) = k - 1 /\ \A i \in 1..(k - 1) : b[i] = new[i]
      BY <1>1, <1>2, <2>1
    <3> HIDE DEF a, b
    <3>3. new[k] \in Element
      BY <1>1, <1>2, PlacesIs
    <3>4. /\ Append(b, new[k]) \in Seq(Element) /\ Len(Append(b, new[k])) = k
          /\ \A i \in 1..k : Append(b, new[k])[i] = IF i = k THEN new[k] ELSE b[i]
      BY <2>1, <3>2, <3>3
    <3>5. \A i \in 1..k : i # k => i \in 1..(k - 1)
      BY <2>1
    <3>6. \A i \in 1..k : a[i] = Append(b, new[k])[i]
      BY <3>1, <3>2, <3>4, <3>5
    <3>7. a = Append(b, new[k])
      BY <3>1, <3>4, <3>6, SeqEqual
    <3> QED
      BY <3>7 DEF a, b
  <2> QED
    BY <2>1, <2>2
<1> HIDE DEF g
<1>5. RestIs(g, new, mod)
  BY <1>2, <1>3, <1>4 DEF RestIs
<1> QED
  BY <1>1, <1>3, <1>5, OthersAre DEF new

-----------------------------------------------------------------------------
(* The table.                                                                 *)

\* Whose a variable is.
Owner(name) ==
  CASE name = "chanstat_refresh" -> "chanstat" [] name = "extra_akickping" -> "extra"
    [] name = "flood_maxmsg"     -> "flood"    [] name = "getnick_nick"    -> "getnick"
    [] name = "invite_channel"   -> "invite"   [] name = "web_pvt"         -> "web"
    [] name = "whois_ripe"       -> "whois"    [] OTHER                    -> ""

\* What the proofs need to know of a line of the table: who adds functions adds them
\* with his first entry for a server; who is not careless takes back what he added, and
\* nobody a variable or command that is not his.
Orderly(m, d) ==
  /\ d.hooks \subseteq Hooks \ {"works"} /\ d.unhooks \subseteq Hooks
  /\ m # "joinmsg" => d.at \in {"entry", "first"}
  /\ d.at = "entry" /\ d.hooks # {} => d.again # "another"
  /\ m \notin Careless => d.hooks \subseteq d.unhooks /\ (d.var # "" => d.unvar)
  /\ d.unvar => m \notin Careless /\ d.var # ""
  /\ d.unbind => m \notin Careless /\ d.cmd = "invite"
  /\ d.cmd = "invite" => m = "invite"
  /\ d.var # "" => Owner(d.var) = m
  /\ m = "joinmsg" => ~d.works
  /\ d.again \in {"skip", "error", "another"}

\* All lines of the table are like that.
LEMMA TableIs == \A m \in DOMAIN Does : Orderly(m, Does[m])
<1>1. DOMAIN Does = {"alice", "calc", "chanstat", "extra", "flood", "getnick", "invite", "ircop",
                     "joinmsg", "log", "seen", "shell", "tcl", "urlsniffer", "watch", "web",
                     "whois", "word"}
  BY DEF Does
<1>2. /\ Does["alice"] = alice /\ Does["calc"] = calc /\ Does["chanstat"] = chanstat
      /\ Does["extra"] = extra /\ Does["flood"] = flood /\ Does["getnick"] = getnick
      /\ Does["invite"] = invite /\ Does["ircop"] = ircop /\ Does["joinmsg"] = joinmsg
      /\ Does["log"] = log /\ Does["seen"] = seen /\ Does["shell"] = shell
      /\ Does["tcl"] = tcl /\ Does["urlsniffer"] = urlsniffer /\ Does["watch"] = watch
      /\ Does["web"] = web /\ Does["whois"] = whois /\ Does["word"] = word
  BY DEF Does
<1>3. /\ Orderly("alice", alice) /\ Orderly("calc", calc) /\ Orderly("word", word)
      /\ Orderly("tcl", tcl) /\ Orderly("seen", seen) /\ Orderly("ircop", ircop)
      /\ Orderly("urlsniffer", urlsniffer)
  BY DEF Orderly, Careless, Hooks, Plain, alice, calc, word, tcl, seen, ircop, urlsniffer
<1>4. /\ Orderly("joinmsg", joinmsg) /\ Orderly("log", log) /\ Orderly("shell", shell)
      /\ Orderly("watch", watch)
  BY DEF Orderly, Careless, Hooks, Plain, joinmsg, log, shell, watch
<1>5. Orderly("chanstat", chanstat)
  BY DEF Orderly, Careless, Hooks, Plain, chanstat, Owner
<1>6. Orderly("extra", extra)
  BY DEF Orderly, Careless, Hooks, Plain, extra, Owner
<1>7. Orderly("flood", flood)
  BY DEF Orderly, Careless, Hooks, Plain, flood, Owner
<1>8. Orderly("getnick", getnick)
  BY DEF Orderly, Careless, Hooks, Plain, getnick, Owner
<1>9. Orderly("invite", invite)
  BY DEF Orderly, Careless, Hooks, Plain, invite, Owner
<1>10. Orderly("web", web)
  BY DEF Orderly, Careless, Hooks, Plain, web, Owner
<1>11. Orderly("whois", whois)
  BY DEF Orderly, Careless, Hooks, Plain, whois, Owner
<1> HIDE DEF Orderly
<1> QED
  BY <1>1, <1>2, <1>3, <1>4, <1>5, <1>6, <1>7, <1>8, <1>9, <1>10, <1>11

-----------------------------------------------------------------------------
(* What is kept.                                                              *)

\* A worker of a module with the entries es is at work for s.
Busy(es, s) == \E e \in ToSet(es) : e.s = s /\ e.in_use

\* mod, with the entries es, is to be called from list l of server s.
Asked(es, mod, s, l) ==
  IF l = "works" THEN Busy(es, s) ELSE Known(es, s) /\ l \in Does[mod.m].hooks

\* Module m has a variable.
HasVar(m) == Does[m].var # ""

\* Everything is of a loaded module or of a careless one, and none is of the next load.
Whose(list, ms, lo) ==
  \A x : Has(list, x) => (IsIn(x, ms) \/ x.m \in Careless) /\ x.load <= lo

\* The functions to be called: once, and those of who asked for it.
CallsOK(list, l, s, es, ms) ==
  /\ \A x : Has(list, x) => x.name = ""
  /\ \A x : x.m # "joinmsg" => Alone(list, x)
  /\ \A mod \in Loaded : Has(ms, mod) /\ mod.m # "joinmsg" =>
       (Has(list, Bare(mod)) <=> Asked(es[mod.m], mod, s, l))

\* The variables: each has its name, and is there for as long as its module is known.
VarsOK(list, s, es, ms) ==
  /\ \A x : Has(list, x) => x.name # "" /\ x.name = Does[x.m].var
  /\ NamesApart(list)
  /\ \A mod \in Loaded : Has(ms, mod) /\ mod.m \notin Careless /\ HasVar(mod.m) =>
       (Has(list, Of(mod, Does[mod.m].var)) <=> Known(es[mod.m], s))

\* The commands: each has its name.
CmdsOK(list) == \A x : Has(list, x) => x.name = Does[x.m].cmd

Fit(list, l, s, es, ms, lo) ==
  /\ Whose(list, ms, lo)
  /\ l \in Hooks => CallsOK(list, l, s, es, ms)
  /\ l = "vars" => VarsOK(list, s, es, ms)
  /\ l = "cmds" => CmdsOK(list)

\* No module is loaded twice, and no load is numbered higher than lo.
Distinct(ms, lo) ==
  /\ \A mod, mod2 \in Loaded : Has(ms, mod) /\ Has(ms, mod2) /\ mod.m = mod2.m => mod = mod2
  /\ \A mod \in Loaded : (Has(ms, mod) => mod.load <= lo) /\ Alone(ms, mod)

\* Only the newest entry for a server is in use.
NewestBusy(es) == \A i, j \in DOMAIN es : es[i].in_use /\ j < i => es[j].s # es[i].s

\* A module that is not loaded has no entries.
Tidy(es, ms) == \A m \in Mods : NewestBusy(es[m]) /\ ((\A mod \in Loaded : Has(ms, mod) => mod.m # m) => es[m] = <<>>)

Sound(ls, es, ms, lo, n) ==
  /\ Distinct(ms, lo) /\ Tidy(es, ms)
  /\ \A s \in 1..n, l \in Lists : Fit(ls[s][l], l, s, es, ms, lo)

EntryIn(n) == [s : 1..n, section : Nat, in_use : BOOLEAN]
ListsIn(n) == [1..n -> [Lists -> Seq(Element)]]
State(n)   == [lists : ListsIn(n), entries : [Mods -> Seq(EntryIn(n))], modules : Seq(Loaded),
               status : {"runs", "exited", "undefined"}]

\* The walk: what is before its place was called, what is behind it was not, and nothing twice.
Walking ==
  LET list == lists[walk.s][walk.list]
  IN walk # NULL =>
       /\ \A i \in DOMAIN list : i <= walk.current => Has(walk.called, list[i])
       /\ \A i \in DOMAIN list : i > walk.current /\ list[i].m # "joinmsg" => ~Has(walk.called, list[i])
       /\ \A x : x.m # "joinmsg" => Alone(walk.called, x)

\* The inductive invariant.
MInv ==
  /\ TypeOK /\ server_num # 0
  /\ Sound(lists, entries, modules, loads, server_num)
  /\ Walking

\* What is in a list has its type, and a list of functions is one.
LEMMA HasIn ==
  ASSUME NEW S, NEW list \in Seq(S), NEW x, Has(list, x)
  PROVE  x \in S
  BY DEF Has

\* The elements a module makes.
LEMMA OfIn ==
  ASSUME NEW mod \in Loaded
  PROVE  /\ Bare(mod) \in Element /\ Of(mod, Does[mod.m].var) \in Element
         /\ Of(mod, Does[mod.m].cmd) \in Element
         /\ Bare(mod).m = mod.m /\ Bare(mod).load = mod.load /\ Bare(mod).name = ""
         /\ \A name : /\ Of(mod, name).m = mod.m /\ Of(mod, name).load = mod.load
                      /\ Of(mod, name).name = name
         /\ mod.m \in Mods /\ mod.load \in Nat
<1>1. mod.m \in Mods /\ mod.load \in Nat
  BY DEF Loaded
<1>2. /\ "" \in Names /\ Does[mod.m].var \in Names /\ Does[mod.m].cmd \in Names
  BY <1>1 DEF Names
<1> QED
  BY <1>1, <1>2 DEF Bare, Of, Element

\* An element is what its fields say.
LEMMA ElementIs ==
  ASSUME NEW x \in Element, NEW mod \in Loaded, x.m = mod.m, x.load = mod.load
  PROVE  x = Of(mod, x.name) /\ (x.name = "" => x = Bare(mod))
  BY DEF Element, Loaded, Of, Bare

\* The code of x is there if its module is loaded, as that load.
LEMMA IsInIs ==
  ASSUME NEW ms \in Seq(Loaded), NEW x
  PROVE  IsIn(x, ms) <=> \E mod \in Loaded : Has(ms, mod) /\ mod.m = x.m /\ mod.load = x.load
<1>1. \A i \in DOMAIN ms : ms[i] \in Loaded
  OBVIOUS
<1> QED
  BY <1>1 DEF IsIn, Has

\* Two modules with the same variable are one.
LEMMA VarsDiffer ==
  ASSUME NEW m \in Mods, NEW m2 \in Mods, HasVar(m), Does[m].var = Does[m2].var
  PROVE  m = m2
<1>1. m \in DOMAIN Does /\ m2 \in DOMAIN Does
  BY ModulesAssumption
<1>2. Orderly(m, Does[m]) /\ Orderly(m2, Does[m2])
  BY <1>1, TableIs
<1> QED
  BY <1>2 DEF Orderly, HasVar

\* The entries for a server, by their places.
LEMMA KnownIs ==
  ASSUME NEW S, NEW es \in Seq(S), NEW s
  PROVE  /\ Known(es, s) <=> \E i \in DOMAIN es : es[i].s = s
         /\ Busy(es, s) <=> \E i \in DOMAIN es : es[i].s = s /\ es[i].in_use
         /\ Busy(es, s) => Known(es, s)
         /\ ~Known(<< >>, s) /\ ~Busy(<< >>, s)
  BY DEF Known, Busy, ToSet

-----------------------------------------------------------------------------
(* One list.                                                                  *)

\* The entries that matter to a list have not changed.
Alike(es, es2, s, m) == (Known(es2[m], s) <=> Known(es[m], s)) /\ (Busy(es2[m], s) <=> Busy(es[m], s))

\* Then the list is as it should be for the new ones.
LEMMA FitAlike ==
  ASSUME NEW list, NEW l, NEW s, NEW es, NEW es2, NEW ms, NEW lo, Fit(list, l, s, es, ms, lo),
         \A m \in Mods : Alike(es, es2, s, m)
  PROVE  Fit(list, l, s, es2, ms, lo)
<1>1. \A mod \in Loaded : mod.m \in Mods
  BY DEF Loaded
<1>2. \A mod \in Loaded : /\ Asked(es2[mod.m], mod, s, l) <=> Asked(es[mod.m], mod, s, l)
                          /\ Known(es2[mod.m], s) <=> Known(es[mod.m], s)
  BY <1>1 DEF Alike, Asked
<1>3. CallsOK(list, l, s, es, ms) => CallsOK(list, l, s, es2, ms)
  BY <1>2, Zenon DEF CallsOK
<1>4. VarsOK(list, s, es, ms) => VarsOK(list, s, es2, ms)
  BY <1>2, Zenon DEF VarsOK
<1> QED
  BY <1>3, <1>4 DEF Fit

\* One more module is loaded: it has nothing yet.
LEMMA FitLoads ==
  ASSUME NEW list \in Seq(Element), NEW l, NEW s, NEW es, NEW ms \in Seq(Loaded), NEW lo \in Nat,
         NEW mod \in Loaded, mod.load = lo + 1, es[mod.m] = << >>, Fit(list, l, s, es, ms, lo)
  PROVE  Fit(list, l, s, es, Add(ms, mod), lo + 1)
<1>1. \A mod2 : Has(Add(ms, mod), mod2) <=> mod2 = mod \/ Has(ms, mod2)
  BY AddHas
<1>2. Add(ms, mod) \in Seq(Loaded)
  BY AddIs
<1>3. \A x : IsIn(x, ms) => IsIn(x, Add(ms, mod))
  BY <1>1, <1>2, IsInIs
<1>4. \A x \in Element : x.load \in Nat
  BY DEF Element
<1>5. \A x : Has(list, x) => x \in Element /\ x.load <= lo /\ x.load # mod.load
  BY <1>4, HasIn DEF Fit, Whose
<1>6. Whose(list, Add(ms, mod), lo + 1)
  <2>1. \A x : Has(list, x) => x.load <= lo + 1
    BY <1>4, <1>5
  <2> QED
    BY <1>3, <2>1 DEF Fit, Whose
<1>7. \A name : ~Has(list, Of(mod, name)) /\ ~Has(list, Bare(mod))
  <2>1. Bare(mod).load = mod.load /\ \A name : Of(mod, name).load = mod.load
    BY DEF Of, Bare
  <2> QED
    BY <1>5, <2>1
<1>8. ~Known(es[mod.m], s) /\ ~Busy(es[mod.m], s) /\ ~Asked(es[mod.m], mod, s, l)
  <2>1. << >> \in Seq(Element)
    OBVIOUS
  <2> QED
    BY <2>1, KnownIs DEF Asked
<1>9. CallsOK(list, l, s, es, ms) => CallsOK(list, l, s, es, Add(ms, mod))
  BY <1>1, <1>7, <1>8 DEF CallsOK
<1>10. VarsOK(list, s, es, ms) => VarsOK(list, s, es, Add(ms, mod))
  BY <1>1, <1>7, <1>8 DEF VarsOK
<1> QED
  BY <1>6, <1>9, <1>10 DEF Fit

\* Something of a loaded module comes into the list.
LEMMA WhoseAdd ==
  ASSUME NEW list \in Seq(Element), NEW ms \in Seq(Loaded), NEW lo, NEW mod \in Loaded, Has(ms, mod),
         mod.load <= lo, NEW name, Of(mod, name) \in Element, Whose(list, ms, lo)
  PROVE  Whose(Add(list, Of(mod, name)), ms, lo)
<1>1. IsIn(Of(mod, name), ms) /\ Of(mod, name).load = mod.load
  <2>1. Of(mod, name).m = mod.m /\ Of(mod, name).load = mod.load
    BY DEF Of
  <2> QED
    BY <2>1, IsInIs
<1>2. \A x : Has(Add(list, Of(mod, name)), x) <=> x = Of(mod, name) \/ Has(list, x)
  BY AddHas
<1> QED
  BY <1>1, <1>2 DEF Whose

\* A function of mod is added, or not, to a list of functions.
LEMMA FitCall ==
  ASSUME NEW list \in Seq(Element), NEW l \in Hooks, NEW s, NEW es, NEW es2, NEW ms \in Seq(Loaded), NEW lo,
         NEW mod \in Loaded, Has(ms, mod), Distinct(ms, lo), Fit(list, l, s, es, ms, lo),
         NEW added \in BOOLEAN,
         \A m \in Mods : m # mod.m => Alike(es, es2, s, m),
         mod.m # "joinmsg" => /\ added => ~Asked(es[mod.m], mod, s, l)
                              /\ Asked(es2[mod.m], mod, s, l) <=> added \/ Asked(es[mod.m], mod, s, l)
  PROVE  Fit(IF added THEN Add(list, Bare(mod)) ELSE list, l, s, es2, ms, lo)
<1> DEFINE new == IF added THEN Add(list, Bare(mod)) ELSE list
<1>1. Bare(mod) \in Element /\ Bare(mod) = Of(mod, "") /\ Bare(mod).m = mod.m /\ Bare(mod).name = ""
  BY OfIn DEF Bare
<1>2. /\ Whose(list, ms, lo) /\ CallsOK(list, l, s, es, ms) /\ mod.load <= lo
      /\ l # "vars" /\ l # "cmds"
  BY DEF Fit, Hooks, Distinct
<1>3. Whose(new, ms, lo)
  BY <1>1, <1>2, WhoseAdd
<1>4. \A x : Has(new, x) <=> Has(list, x) \/ (added /\ x = Bare(mod))
  BY <1>1, AddHas
<1>5. mod.m # "joinmsg" => (Has(list, Bare(mod)) <=> Asked(es[mod.m], mod, s, l))
  BY <1>2 DEF CallsOK
<1>6. \A x : x.m # "joinmsg" => Alone(new, x)
  <2>1. \A x : x.m # "joinmsg" => Alone(list, x)
    BY <1>2 DEF CallsOK
  <2>2. \A x : Alone(list, x) /\ (x = Bare(mod) => ~Has(list, Bare(mod))) => Alone(Add(list, Bare(mod)), x)
    BY <1>1, AddAlone
  <2> QED
    BY <1>1, <1>5, <2>1, <2>2
<1>7. ASSUME NEW mod2 \in Loaded, Has(ms, mod2), mod2.m # "joinmsg"
      PROVE  Has(new, Bare(mod2)) <=> Asked(es2[mod2.m], mod2, s, l)
  <2>1. Has(list, Bare(mod2)) <=> Asked(es[mod2.m], mod2, s, l)
    BY <1>2, <1>7 DEF CallsOK
  <2>2. CASE mod2.m = mod.m
    <3>1. mod2 = mod
      BY <1>7, <2>2 DEF Distinct
    <3> QED
      BY <1>4, <1>7, <2>1, <3>1
  <2>3. CASE mod2.m # mod.m
    <3>1. Bare(mod2) # Bare(mod) /\ mod2.m \in Mods
      BY <1>1, <2>3, OfIn
    <3>2. Asked(es2[mod2.m], mod2, s, l) <=> Asked(es[mod2.m], mod2, s, l)
      BY <2>3, <3>1 DEF Alike, Asked
    <3> QED
      BY <1>4, <2>1, <3>1, <3>2
  <2> QED
    BY <2>2, <2>3
<1>8. \A x : Has(new, x) => x.name = ""
  BY <1>1, <1>2, <1>4 DEF CallsOK
<1> HIDE DEF new
<1>9. CallsOK(new, l, s, es2, ms)
  BY <1>6, <1>7, <1>8 DEF CallsOK
<1>10. Fit(new, l, s, es2, ms, lo)
  BY <1>2, <1>3, <1>9 DEF Fit
<1> QED
  BY <1>10 DEF new

\* The variable of mod, which is known now, is added if its name is free.
LEMMA FitVar ==
  ASSUME NEW list \in Seq(Element), NEW s, NEW es, NEW es2, NEW ms \in Seq(Loaded), NEW lo,
         NEW mod \in Loaded, Has(ms, mod), Distinct(ms, lo), Fit(list, "vars", s, es, ms, lo),
         \A m \in Mods : m # mod.m => Alike(es, es2, s, m),
         Known(es2[mod.m], s), HasVar(mod.m)
  PROVE  Fit(var_add(list, Of(mod, Does[mod.m].var)), "vars", s, es2, ms, lo)
<1>0. DOMAIN list = 1..Len(list) /\ Len(list) \in Nat /\ \A i \in 1..Len(list) : list[i] \in Element
  BY PlacesIs
<1> DEFINE e == Of(mod, Does[mod.m].var)
           new == var_add(list, e)
<1>1. e \in Element /\ e.m = mod.m /\ e.load = mod.load /\ e.name = Does[mod.m].var /\ mod.m \in Mods
  BY OfIn
<1>2. Whose(list, ms, lo) /\ VarsOK(list, s, es, ms) /\ mod.load <= lo
  BY DEF Fit, Distinct
<1>3. \/ new = list /\ \E x \in Element : Has(list, x) /\ x.name = e.name
      \/ new = Add(list, e) /\ \A i \in DOMAIN list : list[i].name # e.name
  <2> DEFINE k == Named(list, e.name)
  <2>1. \/ k = 0 /\ \A i \in 1..Len(list) : list[i].name # e.name
        \/ k \in 1..Len(list) /\ list[k].name = e.name
    BY NamedIs
  <2>3. new = IF k # 0 THEN list ELSE Add(list, e)
    BY DEF var_add
  <2> HIDE DEF new, e, k
  <2>4. CASE k = 0 /\ \A i \in 1..Len(list) : list[i].name # e.name
    BY <1>0, <2>3, <2>4
  <2>5. CASE k \in 1..Len(list) /\ list[k].name = e.name
    <3>1. list[k] \in Element /\ k \in DOMAIN list /\ k # 0
      BY <1>0, <2>5
    <3>2. Has(list, list[k])
      BY <3>1 DEF Has
    <3> QED
      BY <2>3, <2>5, <3>1, <3>2
  <2> QED
    BY <2>1, <2>4, <2>5
<1> HIDE DEF new, e
<1>13. \A x : Has(Add(list, e), x) <=> x = e \/ Has(list, x)
  BY <1>1, AddHas
<1>4. mod.m \notin Careless => Has(new, e)
  <2>1. CASE new = Add(list, e)
    BY <1>13, <2>1
  <2>2. ASSUME NEW x \in Element, Has(list, x), x.name = e.name, mod.m \notin Careless
        PROVE  x = e
    <3>1. x.m \in Mods /\ x.name = Does[x.m].var
      BY <1>2, <2>2 DEF Element, VarsOK
    <3>2. x.m = mod.m
      BY <1>1, <2>2, <3>1, VarsDiffer
    <3>3. IsIn(x, ms)
      BY <1>2, <2>2, <3>2 DEF Whose
    <3>4. PICK mod2 \in Loaded : Has(ms, mod2) /\ mod2.m = x.m /\ mod2.load = x.load
      BY <3>3, IsInIs
    <3>5. mod2 = mod
      BY <3>2, <3>4 DEF Distinct
    <3> QED
      BY <1>1, <2>2, <3>2, <3>4, <3>5, ElementIs DEF e
  <2> QED
    BY <1>3, <2>1, <2>2
<1>5. \A x : Has(new, x) => x = e \/ Has(list, x)
  BY <1>3, <1>13
<1>6. \A x : Has(list, x) => Has(new, x)
  BY <1>3, <1>13
<1>7. NamesApart(new)
  BY <1>1, <1>2, <1>3, AddAlone DEF VarsOK
<1>8. Whose(new, ms, lo)
  <2>1. Whose(Add(list, e), ms, lo)
    BY <1>1, <1>2, WhoseAdd DEF e
  <2> QED
    BY <1>2, <1>3, <2>1
<1>9. \A x : Has(new, x) => x.name # "" /\ x.name = Does[x.m].var
  BY <1>1, <1>2, <1>5 DEF VarsOK, HasVar
<1>10. ASSUME NEW mod2 \in Loaded, Has(ms, mod2), mod2.m \notin Careless, HasVar(mod2.m)
       PROVE  Has(new, Of(mod2, Does[mod2.m].var)) <=> Known(es2[mod2.m], s)
  <2>1. Has(list, Of(mod2, Does[mod2.m].var)) <=> Known(es[mod2.m], s)
    BY <1>2, <1>10 DEF VarsOK
  <2>2. CASE mod2.m = mod.m
    <3>1. mod2 = mod
      BY <1>10, <2>2 DEF Distinct
    <3> QED
      BY <1>4, <1>10, <3>1 DEF e
  <2>3. CASE mod2.m # mod.m
    <3>1. mod2.m \in Mods /\ Of(mod2, Does[mod2.m].var) # e
      <4>1. mod2.m \in Mods /\ Of(mod2, Does[mod2.m].var).m = mod2.m
        BY DEF Of, Loaded
      <4> QED
        BY <1>1, <2>3, <4>1
    <3>2. Known(es2[mod2.m], s) <=> Known(es[mod2.m], s)
      BY <2>3, <3>1 DEF Alike
    <3> QED
      BY <1>5, <1>6, <2>1, <3>1, <3>2
  <2> QED
    BY <2>2, <2>3
<1>11. VarsOK(new, s, es2, ms)
  BY <1>7, <1>9, <1>10 DEF VarsOK
<1>12. Fit(new, "vars", s, es2, ms, lo)
  BY <1>8, <1>11 DEF Fit, Hooks
<1> QED
  BY <1>12 DEF new, e

-----------------------------------------------------------------------------
(* Reading a configuration.                                                   *)

\* None of the entries is in use.
Quiet(es) == \A e : Has(es, e) => ~e.in_use

\* States of which the modules in U have no worker that is at work.
Good(n, lo, U) ==
  {st \in State(n) : /\ Sound(st.lists, st.entries, st.modules, lo, n)
                     /\ \A m \in U : Quiet(st.entries[m])}

\* The entries for a server, by what is in them.
LEMMA KnownHas ==
  ASSUME NEW S, NEW es \in Seq(S), NEW s
  PROVE  /\ Known(es, s) <=> \E e : Has(es, e) /\ e.s = s
         /\ Busy(es, s) <=> \E e : Has(es, e) /\ e.s = s /\ e.in_use
<1>1. \A e : e \in ToSet(es) <=> Has(es, e)
  BY DEF ToSet, Has
<1> QED
  BY <1>1 DEF Known, Busy

\* What becomes of the entries of a module that has none in use when it gets one more.
LEMMA EntryAdds ==
  ASSUME NEW n \in Nat, NEW es \in Seq(EntryIn(n)), Quiet(es),
         NEW e0 \in EntryIn(n), ~e0.in_use
  PROVE  LET es2 == Add(es, e0)
         IN /\ es2 \in Seq(EntryIn(n)) /\ Quiet(es2) /\ NewestBusy(es2)
            /\ \A t : Known(es2, t) <=> t = e0.s \/ Known(es, t)
            /\ \A t : ~Busy(es2, t) /\ ~Busy(es, t)
<1> DEFINE es2 == Add(es, e0)
<1>2. es2 \in Seq(EntryIn(n)) /\ \A e : Has(es2, e) <=> e = e0 \/ Has(es, e)
  <2>1. es2 \in Seq(EntryIn(n))
    BY AddIs
  <2>2. \A e : Has(es2, e) <=> e = e0 \/ Has(es, e)
    BY AddHas
  <2> QED
    BY <2>1, <2>2
<1> HIDE DEF es2
<1>3. Quiet(es2)
  BY <1>2 DEF Quiet
<1>4. \A t : Known(es2, t) <=> t = e0.s \/ Known(es, t)
  <2> TAKE t
  <2>1. /\ Known(es2, t) <=> \E e : Has(es2, e) /\ e.s = t
        /\ Known(es, t) <=> \E e : Has(es, e) /\ e.s = t
    BY <1>2, KnownHas
  <2> QED
    BY <1>2, <2>1
<1>5. \A t : ~Busy(es2, t) /\ ~Busy(es, t)
  <2> TAKE t
  <2>1. /\ Busy(es2, t) <=> \E e : Has(es2, e) /\ e.s = t /\ e.in_use
        /\ Busy(es, t) <=> \E e : Has(es, e) /\ e.s = t /\ e.in_use
    BY <1>2, KnownHas
  <2> QED
    BY <1>3, <2>1 DEF Quiet
<1>6. NewestBusy(es2)
  BY <1>3 DEF NewestBusy, Quiet, Has
<1> QED
  BY <1>2, <1>3, <1>4, <1>5, <1>6 DEF es2

\* What list l becomes when mod gets an entry and adds its function to some lists.
Grown(list, l, mod, hs) ==
  IF l \in hs THEN Add(list, Bare(mod))
  ELSE IF l = "cmds" /\ Does[mod.m].cmd # "" THEN Add(list, Of(mod, Does[mod.m].cmd))
  ELSE IF l = "vars" /\ HasVar(mod.m) THEN var_add(list, Of(mod, Does[mod.m].var))
  ELSE list

\* Bound and Hooked, list by list.
LEMMA GrownIs ==
  ASSUME NEW ls \in [Lists -> Seq(Element)], NEW mod \in Loaded, NEW hs \in SUBSET (Hooks \ {"works"})
  PROVE  /\ Bound(Hooked(ls, mod, hs), mod) \in [Lists -> Seq(Element)]
         /\ \A l \in Lists : Bound(Hooked(ls, mod, hs), mod)[l] = Grown(ls[l], l, mod, hs)
         /\ Hooked(ls, mod, hs) \in [Lists -> Seq(Element)]
         /\ \A l \in Lists : Hooked(ls, mod, hs)[l] = IF l \in hs THEN Add(ls[l], Bare(mod)) ELSE ls[l]
<1> DEFINE hooked == Hooked(ls, mod, hs)
           bound == Bound(hooked, mod)
<1>1. /\ Bare(mod) \in Element /\ Of(mod, Does[mod.m].var) \in Element
      /\ Of(mod, Does[mod.m].cmd) \in Element
  BY OfIn
<1>2. hooked = [l \in Lists |-> IF l \in hs THEN Add(ls[l], Bare(mod)) ELSE ls[l]]
  BY DEF Hooked
<1>3. bound = [l \in Lists |-> IF l = "cmds" /\ Does[mod.m].cmd # "" THEN Add(hooked[l], Of(mod, Does[mod.m].cmd))
                               ELSE IF l = "vars" /\ HasVar(mod.m) THEN var_add(hooked[l], Of(mod, Does[mod.m].var))
                               ELSE hooked[l]]
  BY DEF Bound, HasVar
<1> HIDE DEF hooked, bound
<1>4. \A l \in Lists : ls[l] \in Seq(Element)
  OBVIOUS
<1>5. \A list \in Seq(Element), e \in Element : Add(list, e) \in Seq(Element) /\ var_add(list, e) \in Seq(Element)
  BY AddIs DEF var_add
<1>6. \A l \in Lists : hooked[l] = (IF l \in hs THEN Add(ls[l], Bare(mod)) ELSE ls[l]) /\ hooked[l] \in Seq(Element)
  BY <1>1, <1>2, <1>4, <1>5
<1>7. hooked \in [Lists -> Seq(Element)]
  BY <1>2, <1>6
<1>8. "cmds" \notin hs /\ "vars" \notin hs
  BY DEF Hooks
<1>9. ASSUME NEW l \in Lists PROVE bound[l] = Grown(ls[l], l, mod, hs) /\ bound[l] \in Seq(Element)
  <2>1. bound[l] = IF l = "cmds" /\ Does[mod.m].cmd # "" THEN Add(hooked[l], Of(mod, Does[mod.m].cmd))
                   ELSE IF l = "vars" /\ HasVar(mod.m) THEN var_add(hooked[l], Of(mod, Does[mod.m].var))
                   ELSE hooked[l]
    BY <1>3
  <2>2. bound[l] \in Seq(Element)
    <3>1. \/ bound[l] = Add(hooked[l], Of(mod, Does[mod.m].cmd))
          \/ bound[l] = var_add(hooked[l], Of(mod, Does[mod.m].var))
          \/ bound[l] = hooked[l]
      BY <2>1
    <3>2. hooked[l] \in Seq(Element)
      BY <1>6
    <3> QED
      BY <1>1, <1>5, <3>1, <3>2
  <2>3. CASE l \in hs
    <3>1. l # "cmds" /\ l # "vars"
      BY <1>8, <2>3
    <3> QED
      BY <1>6, <2>1, <2>2, <2>3, <3>1 DEF Grown
  <2>4. CASE l \notin hs
    BY <1>6, <2>1, <2>2, <2>4 DEF Grown
  <2> QED
    BY <2>3, <2>4
<1>10. bound \in [Lists -> Seq(Element)]
  BY <1>3, <1>9
<1> QED
  BY <1>6, <1>7, <1>9, <1>10 DEF hooked, bound

\* What comes into it is of mod.
LEMMA GrownOthers ==
  ASSUME NEW list \in Seq(Element), NEW l, NEW mod \in Loaded, NEW hs
  PROVE  Others(Grown(list, l, mod, hs), mod) = Others(list, mod)
<1>1. \A e \in Element : Mine(e, mod) =>
        /\ Others(Add(list, e), mod) = Others(list, mod)
        /\ Others(var_add(list, e), mod) = Others(list, mod)
  BY OthersAdd DEF var_add
<1>2. /\ Bare(mod) \in Element /\ Mine(Bare(mod), mod)
      /\ Of(mod, Does[mod.m].cmd) \in Element /\ Mine(Of(mod, Does[mod.m].cmd), mod)
      /\ Of(mod, Does[mod.m].var) \in Element /\ Mine(Of(mod, Does[mod.m].var), mod)
  BY OfIn DEF Mine
<1> QED
  BY <1>1, <1>2 DEF Grown

\* Such a list is as it should be, for the entries with one more for s.
LEMMA FitGrown ==
  ASSUME NEW list \in Seq(Element), NEW l \in Lists, NEW s, NEW es, NEW es2, NEW ms \in Seq(Loaded), NEW lo,
         NEW mod \in Loaded, Has(ms, mod), Distinct(ms, lo), Fit(list, l, s, es, ms, lo),
         NEW hs,
         \A m \in Mods : m # mod.m => Alike(es, es2, s, m),
         Known(es2[mod.m], s), Busy(es2[mod.m], s) <=> Busy(es[mod.m], s),
         hs \subseteq Hooks \ {"works"},
         mod.m # "joinmsg" => \A k \in Hooks : k \in hs <=> k \in Does[mod.m].hooks /\ ~Known(es[mod.m], s)
  PROVE  Fit(Grown(list, l, mod, hs), l, s, es2, ms, lo)
<1>1. CASE l \in Hooks
  <2> DEFINE added == l \in hs
  <2>1. Grown(list, l, mod, hs) = IF added THEN Add(list, Bare(mod)) ELSE list
    <3>1. l # "cmds" /\ l # "vars"
      BY <1>1 DEF Hooks
    <3> QED
      BY <3>1 DEF Grown
  <2>2. mod.m # "joinmsg" => /\ added => ~Asked(es[mod.m], mod, s, l)
                             /\ Asked(es2[mod.m], mod, s, l) <=> added \/ Asked(es[mod.m], mod, s, l)
    BY <1>1 DEF Asked
  <2>3. added \in BOOLEAN
    OBVIOUS
  <2> HIDE DEF added
  <2>4. Fit(IF added THEN Add(list, Bare(mod)) ELSE list, l, s, es2, ms, lo)
    BY <1>1, <2>2, <2>3, FitCall
  <2> QED
    BY <2>1, <2>4
<1>2. CASE l = "cmds"
  <2>1. Of(mod, Does[mod.m].cmd) \in Element /\ mod.load <= lo /\ l \notin Hooks /\ l # "vars"
    BY <1>2, OfIn DEF Distinct, Hooks
  <2>2. Whose(list, ms, lo) /\ Whose(Add(list, Of(mod, Does[mod.m].cmd)), ms, lo)
    BY <2>1, WhoseAdd DEF Fit
  <2>3. Grown(list, l, mod, hs) = list \/ Grown(list, l, mod, hs) = Add(list, Of(mod, Does[mod.m].cmd))
    BY <1>2, <2>1 DEF Grown
  <2>4. \A x : Has(Add(list, Of(mod, Does[mod.m].cmd)), x) <=> x = Of(mod, Does[mod.m].cmd) \/ Has(list, x)
    BY <2>1, AddHas
  <2>5. Of(mod, Does[mod.m].cmd).name = Does[mod.m].cmd /\ Of(mod, Does[mod.m].cmd).m = mod.m
    BY DEF Of
  <2>6. CmdsOK(list) /\ CmdsOK(Add(list, Of(mod, Does[mod.m].cmd)))
    BY <1>2, <2>4, <2>5 DEF Fit, CmdsOK
  <2> QED
    BY <1>2, <2>1, <2>2, <2>3, <2>6 DEF Fit
<1>3. CASE l = "vars" /\ HasVar(mod.m)
  <2>1. Grown(list, l, mod, hs) = var_add(list, Of(mod, Does[mod.m].var))
    BY <1>3 DEF Grown, Hooks
  <2>2. Fit(list, "vars", s, es, ms, lo)
    BY <1>3
  <2>3. Fit(var_add(list, Of(mod, Does[mod.m].var)), "vars", s, es2, ms, lo)
    BY <1>3, <2>2, FitVar
  <2> QED
    BY <1>3, <2>1, <2>3
<1>4. CASE l = "vars" /\ ~HasVar(mod.m)
  <2>1. Grown(list, l, mod, hs) = list /\ l \notin Hooks
    BY <1>4 DEF Grown, Hooks
  <2>2. VarsOK(list, s, es, ms) /\ Whose(list, ms, lo)
    BY <1>4 DEF Fit
  <2>3. ASSUME NEW mod2 \in Loaded, Has(ms, mod2), mod2.m \notin Careless, HasVar(mod2.m)
        PROVE  Has(list, Of(mod2, Does[mod2.m].var)) <=> Known(es2[mod2.m], s)
    <3>1. mod2.m # mod.m /\ mod2.m \in Mods
      BY <1>4, <2>3 DEF Loaded
    <3>2. Known(es2[mod2.m], s) <=> Known(es[mod2.m], s)
      BY <3>1 DEF Alike
    <3> QED
      BY <2>2, <2>3, <3>2 DEF VarsOK
  <2>4. VarsOK(list, s, es2, ms)
    BY <2>2, <2>3 DEF VarsOK
  <2> QED
    BY <2>1, <2>2, <2>4 DEF Fit
<1> QED
  BY <1>1, <1>2, <1>3, <1>4 DEF Lists

\* The one that is not looked after.
Twice(m) == m = "joinmsg"

\* The function is added on the line of a bot, with no entry.
ByBot(m) == Does[m].at \notin {"entry", "first"}

\* Another entry is made for a server that has one.
Adds(m) == Does[m].again = "another"

\* The parts of a state.
LEMMA StateIs ==
  ASSUME NEW n, NEW st \in State(n)
  PROVE  /\ st.lists \in ListsIn(n) /\ st.entries \in [Mods -> Seq(EntryIn(n))]
         /\ st.modules \in Seq(Loaded) /\ st.status \in {"runs", "exited", "undefined"}
         /\ st = [lists |-> st.lists, entries |-> st.entries, modules |-> st.modules, status |-> st.status]
  BY DEF State

\* Its lists are changed.
LEMMA ListsChanged ==
  ASSUME NEW n, NEW st \in State(n), NEW ls
  PROVE  [st EXCEPT !.lists = ls]
           = [lists |-> ls, entries |-> st.entries, modules |-> st.modules, status |-> st.status]
  BY DEF State

\* Its entries are changed.
LEMMA EntriesChanged ==
  ASSUME NEW n, NEW st \in State(n), NEW es
  PROVE  [st EXCEPT !.entries = es]
           = [lists |-> st.lists, entries |-> es, modules |-> st.modules, status |-> st.status]
  BY DEF State

\* Both are.
Put(st, ls, es) == [st EXCEPT !.entries = es, !.lists = ls]

\* What is a state then.
LEMMA BothChanged ==
  ASSUME NEW n, NEW st \in State(n), NEW ls, NEW es \in [Mods -> Seq(EntryIn(n))]
  PROVE  Put(st, ls, es)
           = [lists |-> ls, entries |-> es, modules |-> st.modules, status |-> st.status]
<1> DEFINE st2 == [st EXCEPT !.entries = es]
<1>1. Put(st, ls, es) = [st2 EXCEPT !.lists = ls]
  BY DEF Put
<1>2. st2 = [lists |-> st.lists, entries |-> es, modules |-> st.modules, status |-> st.status]
  BY EntriesChanged, Zenon
<1>3. st2 \in State(n) /\ st2.entries = es /\ st2.modules = st.modules /\ st2.status = st.status
  <2>1. /\ st.lists \in ListsIn(n) /\ st.modules \in Seq(Loaded)
        /\ st.status \in {"runs", "exited", "undefined"}
    BY StateIs
  <2> HIDE DEF st2
  <2> QED
    BY <1>2, <2>1 DEF State
<1> HIDE DEF st2
<1> QED
  BY <1>1, <1>3, ListsChanged

\* What a state is made of.
LEMMA GoodIs ==
  ASSUME NEW n, NEW lo, NEW U, NEW ls \in ListsIn(n), NEW es \in [Mods -> Seq(EntryIn(n))],
         NEW ms \in Seq(Loaded), NEW up \in {"runs", "exited", "undefined"},
         Sound(ls, es, ms, lo, n), \A m \in U : Quiet(es[m])
  PROVE  [lists |-> ls, entries |-> es, modules |-> ms, status |-> up] \in Good(n, lo, U)
  BY DEF Good, State

\* In the lists of all servers, others than mod have the same as in the old ones.
OthersStay(new, old, mod, n) ==
  \A s \in 1..n, l \in Lists : Others(new[s][l], mod) = Others(old[s][l], mod)

\* A module's entry for a server: Good stays so.
LEMMA NewEntryKeeps ==
  ASSUME NEW n \in Nat, NEW lo, NEW U \in SUBSET Mods, NEW st \in Good(n, lo, U),
         NEW mod \in Loaded, Has(st.modules, mod), mod.m \in U, NEW s \in 1..n, NEW sec \in Nat,
         Known(st.entries[mod.m], s) => Adds(mod.m)
  PROVE  /\ NewEntry(st, mod, s, sec) \in Good(n, lo, U) /\ NewEntry(st, mod, s, sec).modules = st.modules
         /\ OthersStay(NewEntry(st, mod, s, sec).lists, st.lists, mod, n)
<1> DEFINE d   == Does[mod.m]
           ls  == st.lists
           es  == st.entries
           ms  == st.modules
           now == d.at = "entry" \/ (d.at = "first" /\ ~Known(es[mod.m], s))
           hs  == IF now THEN d.hooks ELSE {}
           e0  == [s |-> s, section |-> sec, in_use |-> FALSE]
           ls2 == [ls EXCEPT ![s] = Bound(Hooked(ls[s], mod, hs), mod)]
           es2 == [es EXCEPT ![mod.m] = Add(es[mod.m], e0)]
           new == NewEntry(st, mod, s, sec)
<1>1. /\ st \in State(n) /\ Sound(ls, es, ms, lo, n) /\ \A m \in U : Quiet(es[m])
  BY DEF Good
<1>2. /\ ls \in ListsIn(n) /\ es \in [Mods -> Seq(EntryIn(n))] /\ ms \in Seq(Loaded)
      /\ st.status \in {"runs", "exited", "undefined"}
      /\ st = [lists |-> ls, entries |-> es, modules |-> ms, status |-> st.status]
  BY <1>1, StateIs
<1>17. new = Put(st, ls2, es2)
  BY DEF NewEntry, Add, Put
<1>4. mod.m \in Mods /\ mod.m \in DOMAIN Does
  BY ModulesAssumption DEF Loaded
<1>5. Orderly(mod.m, d)
  BY <1>4, TableIs
<1>6. /\ hs \subseteq Hooks \ {"works"}
      /\ ~Twice(mod.m) => \A k \in Hooks : k \in hs <=> k \in d.hooks /\ ~Known(es[mod.m], s)
  BY <1>5 DEF Orderly, Adds, Twice
<1> HIDE DEF hs, now
<1>16. e0 \in EntryIn(n) /\ e0.s = s /\ ~e0.in_use
  BY DEF EntryIn
<1> HIDE DEF e0
<1>7. /\ es2 \in [Mods -> Seq(EntryIn(n))] /\ es2[mod.m] = Add(es[mod.m], e0)
      /\ \A m \in Mods : m # mod.m => es2[m] = es[m]
      /\ es[mod.m] \in Seq(EntryIn(n)) /\ Quiet(es[mod.m])
  <2>1. es[mod.m] \in Seq(EntryIn(n)) /\ Quiet(es[mod.m])
    BY <1>1, <1>2, <1>4
  <2>2. Add(es[mod.m], e0) \in Seq(EntryIn(n))
    BY <1>16, <2>1, EntryAdds
  <2> QED
    BY <1>2, <1>4, <2>1, <2>2
<1>8. /\ Quiet(es2[mod.m]) /\ NewestBusy(es2[mod.m])
      /\ \A t : Known(es2[mod.m], t) <=> t = s \/ Known(es[mod.m], t)
      /\ \A t : ~Busy(es2[mod.m], t) /\ ~Busy(es[mod.m], t)
  <2> DEFINE es3 == Add(es[mod.m], e0)
  <2>1. /\ es3 \in Seq(EntryIn(n)) /\ Quiet(es3) /\ NewestBusy(es3)
        /\ \A t : Known(es3, t) <=> t = e0.s \/ Known(es[mod.m], t)
        /\ \A t : ~Busy(es3, t) /\ ~Busy(es[mod.m], t)
    BY <1>7, <1>16, EntryAdds
  <2> HIDE DEF es3
  <2>2. es2[mod.m] = es3
    BY <1>7 DEF es3
  <2> QED
    BY <1>16, <2>1, <2>2
<1>9. /\ ls[s] \in [Lists -> Seq(Element)]
      /\ \A l \in Lists : Bound(Hooked(ls[s], mod, hs), mod)[l] = Grown(ls[s][l], l, mod, hs)
      /\ Bound(Hooked(ls[s], mod, hs), mod) \in [Lists -> Seq(Element)]
  <2> DEFINE row == ls[s]
  <2>1. row \in [Lists -> Seq(Element)]
    BY <1>2 DEF ListsIn
  <2>2. hs \in SUBSET (Hooks \ {"works"})
    BY <1>6
  <2> HIDE DEF row
  <2>3. /\ Bound(Hooked(row, mod, hs), mod) \in [Lists -> Seq(Element)]
        /\ \A l \in Lists : Bound(Hooked(row, mod, hs), mod)[l] = Grown(row[l], l, mod, hs)
    BY <2>1, <2>2, GrownIs
  <2> QED
    BY <2>1, <2>3 DEF row
<1>10. /\ ls2 \in ListsIn(n) /\ \A l \in Lists : ls2[s][l] = Grown(ls[s][l], l, mod, hs)
       /\ \A t \in 1..n : t # s => ls2[t] = ls[t]
  BY <1>2, <1>9 DEF ListsIn
<1> HIDE DEF ls2, es2, new, d
<1>3. new = [lists |-> ls2, entries |-> es2, modules |-> ms, status |-> st.status]
  BY <1>1, <1>7, <1>17, BothChanged
<1>11. Tidy(es2, ms)
  BY <1>1, <1>4, <1>7, <1>8 DEF Sound, Tidy
<1>12. ASSUME NEW t \in 1..n, NEW l \in Lists PROVE Fit(ls2[t][l], l, t, es2, ms, lo)
  <2>1. Fit(ls[t][l], l, t, es, ms, lo)
    BY <1>1 DEF Sound
  <2>2. \A m \in Mods : m # mod.m => Alike(es, es2, t, m)
    BY <1>7 DEF Alike
  <2>3. CASE t = s
    <3>1. /\ ls[s][l] \in Seq(Element) /\ Distinct(ms, lo) /\ Fit(ls[s][l], l, s, es, ms, lo)
          /\ \A m \in Mods : m # mod.m => Alike(es, es2, s, m)
      BY <1>1, <1>9, <2>1, <2>2, <2>3 DEF Sound
    <3>2. Fit(Grown(ls[s][l], l, mod, hs), l, s, es2, ms, lo)
      BY <1>2, <1>6, <1>8, <3>1, FitGrown DEF d, Twice
    <3> QED
      BY <1>10, <2>3, <3>2
  <2>4. CASE t # s
    <3>1. \A m \in Mods : Alike(es, es2, t, m)
      BY <1>8, <2>2, <2>4 DEF Alike
    <3>2. Fit(ls[t][l], l, t, es2, ms, lo)
      BY <2>1, <3>1, FitAlike
    <3> QED
      BY <1>10, <2>4, <3>2
  <2> QED
    BY <2>3, <2>4
<1>13. Sound(ls2, es2, ms, lo, n)
  BY <1>1, <1>11, <1>12 DEF Sound
<1>14. \A m \in U : Quiet(es2[m])
  BY <1>1, <1>7, <1>8
<1>15. [lists |-> ls2, entries |-> es2, modules |-> ms, status |-> st.status] \in Good(n, lo, U)
  BY <1>2, <1>7, <1>10, <1>13, <1>14, GoodIs
<1>18. OthersStay(ls2, ls, mod, n)
  <2>1. \A l \in Lists : Others(Grown(ls[s][l], l, mod, hs), mod) = Others(ls[s][l], mod)
    BY <1>9, GrownOthers
  <2> QED
    BY <1>10, <2>1 DEF OthersStay
<1> QED
  BY <1>3, <1>15, <1>18 DEF new

\* joinmsg's function, for a line of a bot.
LEMMA HookedKeeps ==
  ASSUME NEW n \in Nat, NEW lo, NEW U, NEW st \in Good(n, lo, U),
         NEW mod \in Loaded, Has(st.modules, mod), NEW s \in 1..n, ByBot(mod.m)
  PROVE  LET st1 == [st EXCEPT !.lists[s] = Hooked(@, mod, Does[mod.m].hooks)]
         IN /\ st1 \in Good(n, lo, U) /\ st1.modules = st.modules /\ st1.entries = st.entries
            /\ OthersStay(st1.lists, st.lists, mod, n)
<1> DEFINE d   == Does[mod.m]
           hs  == d.hooks
           ls  == st.lists
           es  == st.entries
           ms  == st.modules
           ls2 == [ls EXCEPT ![s] = Hooked(ls[s], mod, hs)]
           new == [st EXCEPT !.lists[s] = Hooked(@, mod, hs)]
<1>1. /\ st \in State(n) /\ Sound(ls, es, ms, lo, n) /\ \A m \in U : Quiet(es[m])
  BY DEF Good
<1>2. /\ ls \in ListsIn(n) /\ es \in [Mods -> Seq(EntryIn(n))] /\ ms \in Seq(Loaded)
      /\ st.status \in {"runs", "exited", "undefined"}
      /\ st = [lists |-> ls, entries |-> es, modules |-> ms, status |-> st.status]
  BY <1>1, StateIs
<1>3. new = [lists |-> ls2, entries |-> es, modules |-> ms, status |-> st.status]
  BY <1>1, ListsChanged
<1>4. Orderly(mod.m, d)
  BY ModulesAssumption, TableIs DEF Loaded
<1>5. mod.m = "joinmsg" /\ hs \subseteq Hooks \ {"works"}
  BY <1>4 DEF Orderly, ByBot
<1> HIDE DEF hs, new
<1>6. ls[s] \in [Lists -> Seq(Element)]
  BY <1>2 DEF ListsIn
<1>7. /\ Hooked(ls[s], mod, hs) \in [Lists -> Seq(Element)]
      /\ \A l \in Lists : Hooked(ls[s], mod, hs)[l] = IF l \in hs THEN Add(ls[s][l], Bare(mod)) ELSE ls[s][l]
  BY <1>5, <1>6, GrownIs
<1>8. /\ ls2 \in ListsIn(n)
      /\ \A l \in Lists : ls2[s][l] = IF l \in hs THEN Add(ls[s][l], Bare(mod)) ELSE ls[s][l]
      /\ \A t \in 1..n : t # s => ls2[t] = ls[t]
  BY <1>2, <1>7 DEF ListsIn
<1> HIDE DEF ls2
<1>9. ASSUME NEW t \in 1..n, NEW l \in Lists PROVE Fit(ls2[t][l], l, t, es, ms, lo)
  <2>1. Fit(ls[t][l], l, t, es, ms, lo)
    BY <1>1 DEF Sound
  <2>2. CASE t = s /\ l \in hs
    <3>1. /\ ls[s][l] \in Seq(Element) /\ Distinct(ms, lo) /\ Fit(ls[s][l], l, s, es, ms, lo)
          /\ \A m \in Mods : m # mod.m => Alike(es, es, s, m)
          /\ l \in Hooks /\ TRUE \in BOOLEAN
      BY <1>1, <1>5, <1>6, <2>1, <2>2 DEF Sound, Alike
    <3>2. Fit(IF TRUE THEN Add(ls[s][l], Bare(mod)) ELSE ls[s][l], l, s, es, ms, lo)
      BY <1>2, <1>5, <3>1, FitCall
    <3> QED
      BY <1>8, <2>2, <3>2
  <2>3. CASE ~(t = s /\ l \in hs)
    BY <1>8, <2>1, <2>3
  <2> QED
    BY <2>2, <2>3
<1>10. Sound(ls2, es, ms, lo, n)
  BY <1>1, <1>9 DEF Sound
<1>11. [lists |-> ls2, entries |-> es, modules |-> ms, status |-> st.status] \in Good(n, lo, U)
  BY <1>1, <1>2, <1>8, <1>10, GoodIs
<1>12. OthersStay(ls2, ls, mod, n)
  <2>1. Bare(mod) \in Element /\ Mine(Bare(mod), mod)
    BY OfIn DEF Mine
  <2>2. \A l \in Lists : Others(Add(ls[s][l], Bare(mod)), mod) = Others(ls[s][l], mod)
    BY <1>6, <2>1, OthersAdd
  <2> QED
    BY <1>8, <2>2 DEF OthersStay
<1> QED
  BY <1>3, <1>11, <1>12 DEF new, hs

\* new is a good state as st is, with the same modules.
StaysGood(new, st, n, lo, U) == new \in Good(n, lo, U) /\ new.modules = st.modules

\* Module::conf, for any line of the section of a bot.
LEMMA ConfKeeps ==
  ASSUME NEW n \in Nat, NEW lo, NEW U \in SUBSET Mods, NEW st \in Good(n, lo, U),
         NEW mod \in Loaded, Has(st.modules, mod), mod.m \in U, NEW line, NEW s \in 1..n, NEW sec \in Nat
  PROVE  /\ StaysGood(module_conf(st, mod, line, s, sec), st, n, lo, U)
         /\ OthersStay(module_conf(st, mod, line, s, sec).lists, st.lists, mod, n)
<1> DEFINE d   == Does[mod.m]
           st1 == IF d.at = "bot" /\ line.word = "bot"
                  THEN [st EXCEPT !.lists[s] = Hooked(@, mod, d.hooks)] ELSE st
           exits == [st1 EXCEPT !.status = "exited"]
           known == Known(st.entries[mod.m], s)
           new == module_conf(st, mod, line, s, sec)
<1>1. /\ st1 \in Good(n, lo, U) /\ st1.modules = st.modules /\ st1.entries = st.entries
      /\ OthersStay(st1.lists, st.lists, mod, n)
  <2>1. d.at = "bot" => ByBot(mod.m)
    BY DEF ByBot
  <2> QED
    BY <2>1, HookedKeeps DEF OthersStay
<1>2. \/ new = st \/ new = st1 \/ new = exits
      \/ new = NewEntry(st1, mod, s, sec) /\ (known => Adds(mod.m))
  <2>1. Orderly(mod.m, d) /\ d.again \in {"skip", "error", "another"}
    BY ModulesAssumption, TableIs DEF Loaded, Orderly
  <2> HIDE DEF st1, known
  <2> QED
    BY <2>1 DEF module_conf, known, st1, Adds
<1> HIDE DEF st1
<1>3. exits \in Good(n, lo, U) /\ exits.modules = st.modules /\ exits.lists = st1.lists
  <2>1. st1 \in State(n) /\ Sound(st1.lists, st1.entries, st1.modules, lo, n) /\ \A m \in U : Quiet(st1.entries[m])
    BY <1>1 DEF Good
  <2>2. /\ st1.lists \in ListsIn(n) /\ st1.entries \in [Mods -> Seq(EntryIn(n))] /\ st1.modules \in Seq(Loaded)
        /\ exits = [lists |-> st1.lists, entries |-> st1.entries, modules |-> st1.modules, status |-> "exited"]
    BY <2>1, StateIs
  <2> HIDE DEF exits
  <2> QED
    BY <1>1, <2>1, <2>2, GoodIs
<1>4. (known => Adds(mod.m)) => /\ NewEntry(st1, mod, s, sec) \in Good(n, lo, U)
                                /\ NewEntry(st1, mod, s, sec).modules = st.modules
                                /\ OthersStay(NewEntry(st1, mod, s, sec).lists, st1.lists, mod, n)
  BY <1>1, NewEntryKeeps
<1>5. OthersStay(st.lists, st.lists, mod, n)
  BY DEF OthersStay
<1>6. \A ls : OthersStay(ls, st1.lists, mod, n) => OthersStay(ls, st.lists, mod, n)
  BY <1>1 DEF OthersStay
<1> QED
  BY <1>1, <1>2, <1>3, <1>4, <1>5, <1>6 DEF StaysGood

\* There is a bot in the configuration.
HasBot(file) == \E i \in DOMAIN file : file[i].word = "bot"

\* The bots of a configuration, and those down to one of its lines.
LEMMA SectionIs ==
  ASSUME NEW S, NEW file \in Seq(S)
  PROVE  /\ Bots(file) \in Nat /\ (HasBot(file) => Bots(file) # 0)
         /\ \A i \in 1..Len(file) : Section(file, i) \in Nat /\ Section(file, i) <= Bots(file)
<1> DEFINE all == {i \in DOMAIN file : file[i].word = "bot"}
           Upto(i) == {j \in 1..i : file[j].word = "bot"}
<1>1. DOMAIN file = 1..Len(file) /\ Len(file) \in Nat
  OBVIOUS
<1>2. IsFiniteSet(1..Len(file))
  BY <1>1, FS_Interval
<1>3. IsFiniteSet(all)
  BY <1>1, <1>2, FS_Subset
<1>4. Cardinality(all) \in Nat /\ (HasBot(file) => Cardinality(all) # 0)
  <2>1. HasBot(file) => all # {}
    BY DEF HasBot
  <2> HIDE DEF all
  <2> QED
    BY <1>3, <2>1, FS_CardinalityType, FS_EmptySet
<1>5. ASSUME NEW i \in 1..Len(file)
      PROVE  Section(file, i) \in Nat /\ Section(file, i) <= Cardinality(all)
  <2>1. Upto(i) \in SUBSET all
    BY <1>1
  <2> HIDE DEF all, Upto
  <2>2. IsFiniteSet(Upto(i)) /\ Cardinality(Upto(i)) <= Cardinality(all)
    BY <1>3, <2>1, FS_Subset
  <2>3. Cardinality(Upto(i)) \in Nat
    BY <2>2, FS_CardinalityType
  <2>4. Section(file, i) = Cardinality(Upto(i))
    BY DEF Section, Upto
  <2> QED
    BY <2>2, <2>3, <2>4
<1>6. Bots(file) = Cardinality(all)
  BY DEF Bots
<1> QED
  BY <1>4, <1>5, <1>6

\* All modules are told of a line.
LEMMA TellKeeps ==
  ASSUME NEW n \in Nat, NEW lo, NEW st \in Good(n, lo, Mods), NEW line, NEW s \in 1..n
  PROVE  StaysGood(Tell(st, line, s), st, n, lo, Mods)
<1> DEFINE ms == st.modules
           N == Len(ms)
           V == {x \in Good(n, lo, Mods) : x.modules = ms}
           Conf(x, k) == module_conf(x, ms[k], line, s, s)
           Body(g, k) == IF k = 0 THEN st ELSE Conf(g[k - 1], k)
           Runs(g) == g = [k \in 0..N |-> Body(g, k)]
           told == CHOOSE g : Runs(g)
<1>1. Tell(st, line, s) = told[N]
  BY DEF Tell
<1>2. ms \in Seq(Loaded)
  BY StateIs DEF Good
<1>3. N \in Nat /\ \A k \in 1..N : ms[k] \in Loaded /\ Has(ms, ms[k]) /\ ms[k].m \in Mods
  <2> HIDE DEF ms
  <2>1. N \in Nat /\ DOMAIN ms = 1..N /\ \A k \in 1..N : ms[k] \in Loaded
    BY <1>2, PlacesIs
  <2>2. \A k \in 1..N : Has(ms, ms[k])
    BY <2>1 DEF Has
  <2> QED
    BY <2>1, <2>2 DEF Loaded
<1>4. ASSUME NEW k \in 1..N, NEW x \in V PROVE Conf(x, k) \in V
  <2>1. x \in Good(n, lo, Mods) /\ x.modules = ms /\ Mods \in SUBSET Mods /\ s \in Nat
    OBVIOUS
  <2> HIDE DEF ms, V, N
  <2>3. ms[k] \in Loaded /\ Has(x.modules, ms[k]) /\ ms[k].m \in Mods
    BY <1>3, <2>1
  <2>2. StaysGood(module_conf(x, ms[k], line, s, s), x, n, lo, Mods)
    BY <2>1, <2>3, ConfKeeps
  <2> QED
    BY <2>1, <2>2 DEF V, StaysGood
<1>5. st \in V
  OBVIOUS
<1> HIDE DEF V, Conf, N, ms
<1>6. \E g : Runs(g)
  <2> DEFINE step == [k \in 1..N |-> [x \in V |-> Conf(x, k)]]
  <2>1. step \in [1..N -> [V -> V]] /\ \A k \in 1..N : \A x \in V : step[k][x] = Conf(x, k)
    BY <1>4
  <2> HIDE DEF step
  <2>2. PICK g : Stepwise(g, V, st, N, step)
    BY <1>3, <1>5, <2>1, StepsExist
  <2>3. g[0] = st /\ g \in [0..N -> V] /\ \A k \in 1..N : g[k] = step[k][g[k - 1]]
    BY <2>2 DEF Stepwise
  <2>4. \A k \in 1..N : k - 1 \in 0..N
    BY <1>3
  <2>5. \A k \in 1..N : g[k] = Conf(g[k - 1], k)
    BY <2>1, <2>3, <2>4
  <2>6. ASSUME NEW k \in 0..N PROVE g[k] = Body(g, k)
    <3>1. k # 0 => k \in 1..N
      BY <1>3
    <3> QED
      BY <2>3, <2>5, <3>1
  <2> HIDE DEF Body
  <2>7. g = [k \in 0..N |-> g[k]]
    BY <2>3
  <2> QED
    BY <2>6, <2>7
<1>7. Runs(told)
  BY <1>6, Zenon
<1> HIDE DEF told
<1>8. \A k \in 0..N : told[k] = Body(told, k)
  <2> HIDE DEF Body
  <2>1. \A g : Runs(g) => \A k \in 0..N : g[k] = Body(g, k)
    OBVIOUS
  <2> HIDE DEF Runs
  <2> QED
    BY <1>7, <2>1
<1>9. told[0] \in V
  BY <1>3, <1>5, <1>8
<1>10. ASSUME NEW k \in 1..N, told[k - 1] \in V PROVE told[k] \in V
  <2>1. k \in 0..N /\ k # 0
    BY <1>3
  <2> QED
    BY <1>4, <1>8, <1>10, <2>1
<1>11. told[N] \in V
  <2>1. \A k \in 0..N : told[k] \in V
    BY <1>3, <1>9, <1>10, StaysIn
  <2> QED
    BY <1>3, <2>1
<1> QED
  BY <1>1, <1>11 DEF V, ms, StaysGood

\* The program goes on, exits, or does what it likes.
LEMMA StatusKeeps ==
  ASSUME NEW n, NEW lo, NEW U, NEW st \in Good(n, lo, U), NEW up \in {"runs", "exited", "undefined"}
  PROVE  StaysGood([st EXCEPT !.status = up], st, n, lo, U)
<1> DEFINE new == [st EXCEPT !.status = up]
<1>1. st \in State(n) /\ Sound(st.lists, st.entries, st.modules, lo, n) /\ \A m \in U : Quiet(st.entries[m])
  BY DEF Good
<1>2. /\ st.lists \in ListsIn(n) /\ st.entries \in [Mods -> Seq(EntryIn(n))] /\ st.modules \in Seq(Loaded)
      /\ new = [lists |-> st.lists, entries |-> st.entries, modules |-> st.modules, status |-> up]
  BY <1>1, StateIs
<1> HIDE DEF new
<1>3. new \in Good(n, lo, U)
  BY <1>1, <1>2, GoodIs
<1>4. new.modules = st.modules
  BY <1>2
<1> QED
  BY <1>3, <1>4 DEF new, StaysGood

\* A module that was not there is loaded.
LEMMA LoadKeeps ==
  ASSUME NEW n, NEW ls \in ListsIn(n), NEW es, NEW ms \in Seq(Loaded), NEW lo \in Nat,
         NEW mod \in Loaded, mod.load = lo + 1, Sound(ls, es, ms, lo, n),
         \A mod2 \in Loaded : Has(ms, mod2) => mod2.m # mod.m
  PROVE  /\ Sound(ls, es, Add(ms, mod), lo + 1, n) /\ es[mod.m] = << >>
         /\ Add(ms, mod) \in Seq(Loaded) /\ Has(Add(ms, mod), mod) /\ Len(Add(ms, mod)) = Len(ms) + 1
<1>1. mod.m \in Mods /\ mod.load \in Nat /\ \A mod2 \in Loaded : mod2.load \in Nat
  BY DEF Loaded
<1>2. es[mod.m] = << >>
  BY <1>1 DEF Sound, Tidy
<1>3. \A mod2 : Has(Add(ms, mod), mod2) <=> mod2 = mod \/ Has(ms, mod2)
  BY AddHas
<1>4. Add(ms, mod) \in Seq(Loaded) /\ Len(Add(ms, mod)) = Len(ms) + 1
  BY AddIs
<1>5. Distinct(Add(ms, mod), lo + 1)
  <2>1. Distinct(ms, lo)
    BY DEF Sound
  <2>2. \A mod2 \in Loaded : mod2.load <= lo => mod2.load <= lo + 1
    BY <1>1
  <2>3. ASSUME NEW a \in Loaded, NEW b \in Loaded, Has(Add(ms, mod), a), Has(Add(ms, mod), b), a.m = b.m
        PROVE  a = b
    BY <1>3, <2>1, <2>3 DEF Distinct
  <2>4. ASSUME NEW a \in Loaded, Has(Add(ms, mod), a) PROVE a.load <= lo + 1
    BY <1>1, <1>3, <2>1, <2>2, <2>4 DEF Distinct
  <2>5. ~Has(ms, mod)
    OBVIOUS
  <2>6. ASSUME NEW a \in Loaded PROVE Alone(Add(ms, mod), a)
    <3>1. Alone(ms, a)
      BY <2>1 DEF Distinct
    <3> QED
      BY <2>5, <3>1, AddAlone
  <2> QED
    BY <2>3, <2>4, <2>6 DEF Distinct
<1>6. Tidy(es, Add(ms, mod))
  BY <1>3 DEF Sound, Tidy
<1>7. ASSUME NEW s \in 1..n, NEW l \in Lists PROVE Fit(ls[s][l], l, s, es, Add(ms, mod), lo + 1)
  <2>1. ls[s][l] \in Seq(Element) /\ Fit(ls[s][l], l, s, es, ms, lo)
    BY DEF ListsIn, Sound
  <2> QED
    BY <1>2, <2>1, FitLoads
<1> QED
  BY <1>2, <1>3, <1>4, <1>5, <1>6, <1>7 DEF Sound

\* A state while the program starts: the modules are numbered, and none is at work.
Parsed(st, n) == st \in Good(n, Len(st.modules), Mods)

\* A line of the configuration when the program starts.
LEMMA ParseLineKeeps ==
  ASSUME NEW file \in Files, NEW i \in 1..Len(file), NEW st, Parsed(st, Bots(file))
  PROVE  Parsed(ParseLine(st, file, i), Bots(file))
<1>10. file \in Seq([word : STRING, arg : STRING])
  BY ModulesAssumption
<1>9. Bots(file) \in Nat /\ Section(file, i) \in Nat /\ Section(file, i) <= Bots(file)
  BY <1>10, SectionIs
<1>1. file[i].word = "module" => file[i].arg \in Mods
  <2>1. i \in DOMAIN file
    BY <1>10
  <2> QED
    BY <2>1, ModulesAssumption
<1> DEFINE n    == Bots(file)
           sec  == Section(file, i)
<1>2. n \in Nat /\ sec \in Nat /\ sec <= n
  BY <1>9
<1> HIDE DEF n, sec
<1> DEFINE ms   == st.modules
           mod  == [m |-> file[i].arg, load |-> Len(ms) + 1]
           new  == ParseLine(st, file, i)
           more == [st EXCEPT !.modules = Cons(mod, @)]
           exits == [st EXCEPT !.status = "exited"]
           told == Tell(st, file[i], sec)
<1>3. st \in Good(n, Len(ms), Mods) /\ st \in State(n)
  BY DEF Parsed, Good, n
<1>4. ms \in Seq(Loaded) /\ Len(ms) \in Nat
  BY <1>3, StateIs
<1>5. \/ new = st
      \/ file[i].word = "module" /\ new = exits
      \/ /\ file[i].word = "module" /\ new = more
         /\ ~ \E mod2 \in ToSet(ms) : mod2.m = mod.m
      \/ sec # 0 /\ new = told
  BY DEF ParseLine, sec
<1> HIDE DEF new, exits, more, told
<1>6. Parsed(exits, n)
  <2>1. StaysGood(exits, st, n, Len(ms), Mods)
    BY <1>3, StatusKeeps DEF exits
  <2> QED
    BY <2>1 DEF StaysGood, Parsed
<1>7. sec # 0 => Parsed(told, n)
  <2>1. sec # 0 => sec \in 1..n
    BY <1>2
  <2>2. sec # 0 => StaysGood(told, st, n, Len(ms), Mods)
    BY <1>2, <1>3, <2>1, TellKeeps DEF told
  <2> QED
    BY <2>2 DEF StaysGood, Parsed
<1>8. ASSUME file[i].word = "module", ~ \E mod2 \in ToSet(ms) : mod2.m = mod.m
      PROVE  Parsed(more, n)
  <2>1. mod \in Loaded /\ mod.load = Len(ms) + 1
    BY <1>1, <1>4, <1>8 DEF Loaded
  <2>2. \A mod2 \in Loaded : Has(ms, mod2) => mod2.m # mod.m
    BY <1>8 DEF Has, ToSet
  <2>3. /\ st.lists \in ListsIn(n) /\ st.entries \in [Mods -> Seq(EntryIn(n))]
        /\ st.status \in {"runs", "exited", "undefined"}
        /\ Sound(st.lists, st.entries, ms, Len(ms), n) /\ \A m \in Mods : Quiet(st.entries[m])
    BY <1>3, StateIs DEF Good
  <2>4. more = [lists |-> st.lists, entries |-> st.entries, modules |-> Add(ms, mod), status |-> st.status]
    BY <1>3, StateIs DEF more, Add
  <2> HIDE DEF mod, ms
  <2>5. /\ Sound(st.lists, st.entries, Add(ms, mod), Len(ms) + 1, n)
        /\ Add(ms, mod) \in Seq(Loaded) /\ Len(Add(ms, mod)) = Len(ms) + 1
    BY <1>4, <2>1, <2>2, <2>3, LoadKeeps
  <2>6. more \in Good(n, Len(ms) + 1, Mods)
    BY <2>3, <2>4, <2>5, GoodIs
  <2>7. more.modules = Add(ms, mod)
    BY <2>4
  <2> QED
    BY <2>5, <2>6, <2>7 DEF Parsed
<1> QED
  BY <1>5, <1>6, <1>7, <1>8 DEF n, new

\* The whole configuration when the program starts.
LEMMA ParseConfKeeps ==
  ASSUME NEW file \in Files
  PROVE  Parsed(parse_conf(file), Bots(file)) /\ Bots(file) \in Nat \ {0} /\ Len(file) \in Nat
<1> DEFINE n == Bots(file)
           N == Len(file)
           none == [lists   |-> [s \in 1..n |-> [l \in Lists |-> <<>>]],
                    entries |-> [m \in Mods |-> <<>>], modules |-> <<>>, status |-> "runs"]
           V == {x \in State(n) : Parsed(x, n)}
           Line(x, i) == ParseLine(x, file, i)
           Body(g, i) == IF i = 0 THEN none ELSE Line(g[i - 1], i)
           Runs(g) == g = [i \in 0..N |-> Body(g, i)]
           parsed == CHOOSE g : Runs(g)
<1>1. parse_conf(file) = parsed[N]
  BY DEF parse_conf
<1>2. file \in Seq([word : STRING, arg : STRING])
  BY ModulesAssumption
<1>3. HasBot(file)
  BY ModulesAssumption DEF HasBot
<1>4. n \in Nat \ {0} /\ N \in Nat
  BY <1>2, <1>3, SectionIs
<1>5. ASSUME NEW i \in 1..N, NEW x \in V PROVE Line(x, i) \in V
  <2>1. Parsed(x, Bots(file)) /\ i \in 1..Len(file)
    OBVIOUS
  <2> HIDE DEF V, N, n
  <2>2. Parsed(ParseLine(x, file, i), n)
    BY <2>1, ParseLineKeeps DEF n
  <2> QED
    BY <2>2 DEF V, Parsed, Good
<1> HIDE DEF V, Line, N, n
<1>6. none \in V
  <2> DEFINE ls == [s \in 1..n |-> [l \in Lists |-> <<>>]]
             es == [m \in Mods |-> <<>>]
  <2>1. /\ << >> \in Seq(Element) /\ << >> \in Seq(EntryIn(n)) /\ << >> \in Seq(Loaded) /\ Len(<< >>) = 0
        /\ "runs" \in {"runs", "exited", "undefined"} /\ DOMAIN << >> = {}
    OBVIOUS
  <2>2. ls \in ListsIn(n) /\ es \in [Mods -> Seq(EntryIn(n))]
    BY <2>1 DEF ListsIn
  <2>3. \A s \in 1..n, l \in Lists : ls[s][l] = << >>
    OBVIOUS
  <2>4. \A m \in Mods : es[m] = << >>
    OBVIOUS
  <2> HIDE DEF ls, es
  <2>5. \A x : ~Has(<< >>, x)
    BY HasNone
  <2>6. Distinct(<< >>, 0) /\ Tidy(es, << >>) /\ \A m \in Mods : Quiet(es[m])
    BY <2>1, <2>4, <2>5 DEF Distinct, Tidy, NewestBusy, Quiet, Alone
  <2>7. ASSUME NEW s \in 1..n, NEW l \in Lists PROVE Fit(<< >>, l, s, es, << >>, 0)
    BY <2>1, <2>5 DEF Fit, Whose, CallsOK, VarsOK, CmdsOK, Alone, NamesApart
  <2>8. Sound(ls, es, << >>, 0, n)
    BY <2>3, <2>6, <2>7 DEF Sound
  <2>9. none = [lists |-> ls, entries |-> es, modules |-> << >>, status |-> "runs"]
    BY DEF ls, es
  <2>10. none \in Good(n, 0, Mods)
    BY <2>1, <2>2, <2>6, <2>8, <2>9, GoodIs
  <2>11. none.modules = << >>
    BY <2>9
  <2> QED
    BY <2>1, <2>10, <2>11 DEF V, Parsed, Good
<1> HIDE DEF none
<1>7. \E g : Runs(g)
  <2> DEFINE step == [i \in 1..N |-> [x \in V |-> Line(x, i)]]
  <2>1. step \in [1..N -> [V -> V]] /\ \A i \in 1..N : \A x \in V : step[i][x] = Line(x, i)
    BY <1>5
  <2> HIDE DEF step
  <2>2. PICK g : Stepwise(g, V, none, N, step)
    BY <1>4, <1>6, <2>1, StepsExist
  <2>3. g[0] = none /\ g \in [0..N -> V] /\ \A i \in 1..N : g[i] = step[i][g[i - 1]]
    BY <2>2 DEF Stepwise
  <2>4. \A i \in 1..N : i - 1 \in 0..N
    BY <1>4
  <2>5. \A i \in 1..N : g[i] = Line(g[i - 1], i)
    BY <2>1, <2>3, <2>4
  <2>6. ASSUME NEW i \in 0..N PROVE g[i] = Body(g, i)
    <3>1. i # 0 => i \in 1..N
      BY <1>4
    <3> QED
      BY <2>3, <2>5, <3>1
  <2> HIDE DEF Body
  <2>7. g = [i \in 0..N |-> g[i]]
    BY <2>3
  <2> QED
    BY <2>6, <2>7
<1>8. Runs(parsed)
  BY <1>7, Zenon
<1> HIDE DEF parsed
<1>9. \A i \in 0..N : parsed[i] = Body(parsed, i)
  <2> HIDE DEF Body
  <2>1. \A g : Runs(g) => \A i \in 0..N : g[i] = Body(g, i)
    OBVIOUS
  <2> HIDE DEF Runs
  <2> QED
    BY <1>8, <2>1
<1>10. parsed[0] \in V
  BY <1>4, <1>6, <1>9
<1>11. ASSUME NEW i \in 1..N, parsed[i - 1] \in V PROVE parsed[i] \in V
  <2>1. i \in 0..N /\ i # 0
    BY <1>4
  <2> QED
    BY <1>5, <1>9, <1>11, <2>1
<1>12. parsed[N] \in V
  <2>1. \A i \in 0..N : parsed[i] \in V
    BY <1>4, <1>10, <1>11, StaysIn
  <2> QED
    BY <1>4, <2>1
<1> QED
  BY <1>1, <1>4, <1>12 DEF V, N, n

\* The fields of a good state make the invariant, when nothing is walked.
LEMMA SoundIs ==
  ASSUME conf \in Files \cup {<<>>}, server_num \in Nat \ {0}, loads \in Nat, walk = NULL,
         NEW st, st \in Good(server_num, loads, {}),
         lists = st.lists, entries = st.entries, modules = st.modules, status = st.status
  PROVE  MInv
<1>1. /\ st \in State(server_num) /\ Sound(lists, entries, modules, loads, server_num)
  BY DEF Good
<1>2. /\ lists \in [Servers -> [Lists -> Seq(Element)]] /\ entries \in [Mods -> Seq(Entry)]
      /\ modules \in Seq(Loaded) /\ status \in {"runs", "exited", "undefined"}
  BY <1>1, StateIs DEF ListsIn, EntryIn, Servers, Entry
<1> QED
  BY <1>1, <1>2 DEF MInv, TypeOK, Walking

\* The program starts with it.
LEMMA InitKeeps == Init => MInv
<1> SUFFICES ASSUME NEW file \in Files,
                    LET r == parse_conf(file)
                    IN /\ conf = file /\ server_num = Bots(file)
                       /\ modules = r.modules /\ loads = Len(r.modules)
                       /\ lists = r.lists /\ entries = r.entries /\ status = r.status
                       /\ walk = NULL
             PROVE  MInv
  BY DEF Init
<1> DEFINE r == parse_conf(file)
<1>1. Parsed(r, server_num) /\ server_num \in Nat \ {0}
  BY ParseConfKeeps
<1> HIDE DEF r
<1>2. /\ conf \in Files \cup {<<>>} /\ loads = Len(r.modules) /\ walk = NULL
      /\ lists = r.lists /\ entries = r.entries /\ modules = r.modules /\ status = r.status
  BY DEF r
<1>3. r \in Good(server_num, loads, {}) /\ loads \in Nat
  <2>1. r \in Good(server_num, loads, Mods) /\ r.modules \in Seq(Loaded)
    BY <1>1, <1>2, StateIs DEF Parsed, Good
  <2>2. Len(r.modules) \in Nat
    BY <2>1
  <2> QED
    BY <1>2, <2>1, <2>2 DEF Good
<1> QED
  BY <1>1, <1>2, <1>3, SoundIs

-----------------------------------------------------------------------------
(* !modadd.                                                                   *)

\* The text of a configuration, which may be lost.
LEMMA TextIs ==
  ASSUME NEW text \in Files \cup {<<>>}
  PROVE  text \in Seq([word : STRING, arg : STRING]) /\ Len(text) \in Nat
<1>1. Files \subseteq Seq([word : STRING, arg : STRING])
  BY ModulesAssumption
<1>2. << >> \in Seq([word : STRING, arg : STRING])
  OBVIOUS
<1>3. text \in Seq([word : STRING, arg : STRING])
  BY <1>1, <1>2, Zenon
<1> QED
  BY <1>3, LenProperties

\* A line of the configuration that is read again for mod.
LEMMA ReadLineKeeps ==
  ASSUME conf \in Files \cup {<<>>}, server_num \in Nat \ {0}, NEW lo, NEW U \in SUBSET Mods,
         NEW st \in Good(server_num, lo, U), NEW mod \in Loaded, Has(st.modules, mod), mod.m \in U,
         NEW i \in 1..Len(conf)
  PROVE  /\ StaysGood(ReadLine(st, mod, i), st, server_num, lo, U)
         /\ OthersStay(ReadLine(st, mod, i).lists, st.lists, mod, server_num)
<1>1. conf \in Seq([word : STRING, arg : STRING])
  BY TextIs
<1>2. Bots(conf) \in Nat /\ Section(conf, i) \in Nat
  BY <1>1, SectionIs
<1> DEFINE sec == Section(conf, i)
<1> HIDE DEF sec
<1>3. sec \in Nat
  BY <1>2 DEF sec
<1> DEFINE s    == SectionServer(sec)
           up   == var_set(st.lists[s]["vars"], conf[i].arg, st.modules)
           made == [st EXCEPT !.status = up]
           set  == IF conf[i].word = "set" /\ st.status = "runs" THEN made ELSE st
           new  == ReadLine(st, mod, i)
<1>4. sec # 0 => s \in 1..server_num
  BY <1>3 DEF SectionServer
<1>5. new = IF sec = 0 THEN st ELSE module_conf(set, mod, conf[i], s, sec)
  BY DEF ReadLine, sec
<1>6. up \in {"runs", "exited", "undefined"}
  BY DEF var_set
<1> HIDE DEF up, s, new
<1>7. StaysGood(made, st, server_num, lo, U) /\ made.lists = st.lists
  <2>1. st \in State(server_num)
    BY DEF Good
  <2>2. StaysGood(made, st, server_num, lo, U)
    BY <1>6, StatusKeeps
  <2> QED
    BY <2>1, <2>2 DEF State
<1> HIDE DEF made
<1>8. StaysGood(set, st, server_num, lo, U) /\ set.lists = st.lists
  BY <1>7 DEF StaysGood
<1> HIDE DEF set
<1>9. set \in Good(server_num, lo, U) /\ set.modules = st.modules
  BY <1>8 DEF StaysGood
<1>10. sec # 0 => /\ StaysGood(module_conf(set, mod, conf[i], s, sec), set, server_num, lo, U)
                  /\ OthersStay(module_conf(set, mod, conf[i], s, sec).lists, set.lists, mod, server_num)
  BY <1>3, <1>4, <1>9, ConfKeeps
<1>11. StaysGood(new, st, server_num, lo, U)
  BY <1>5, <1>9, <1>10 DEF StaysGood
<1>12. OthersStay(new.lists, st.lists, mod, server_num)
  BY <1>5, <1>8, <1>10 DEF OthersStay
<1> QED
  BY <1>11, <1>12 DEF new

\* The whole configuration for mod.
LEMMA ReadConfKeeps ==
  ASSUME MInv, NEW mod \in Loaded, mod.load = loads + 1,
         \A mod2 \in Loaded : Has(modules, mod2) => mod2.m # mod.m
  PROVE  /\ read_conf(mod) \in Good(server_num, loads + 1, {})
         /\ read_conf(mod).modules = Add(modules, mod)
         /\ OthersStay(read_conf(mod).lists, lists, mod, server_num)
<1> DEFINE N == Len(conf)
           n == server_num
           lo == loads + 1
           U == {mod.m}
           start == [lists |-> lists, entries |-> entries, modules |-> Cons(mod, modules),
                     status |-> status]
           V == {x \in Good(n, lo, U) : /\ x.modules = Add(modules, mod)
                                        /\ OthersStay(x.lists, lists, mod, n)}
           Line(x, i) == ReadLine(x, mod, i)
           Body(g, i) == IF i = 0 THEN start ELSE Line(g[i - 1], i)
           Runs(g) == g = [i \in 0..N |-> Body(g, i)]
           read == CHOOSE g : Runs(g)
<1>1. read_conf(mod) = read[N]
  BY DEF read_conf
<1>2. /\ conf \in Files \cup {<<>>} /\ server_num \in Nat \ {0} /\ loads \in Nat
      /\ lists \in ListsIn(server_num) /\ entries \in [Mods -> Seq(EntryIn(server_num))]
      /\ modules \in Seq(Loaded) /\ status \in {"runs", "exited", "undefined"}
      /\ Sound(lists, entries, modules, loads, server_num)
  BY DEF MInv, TypeOK, ListsIn, EntryIn, Servers, Entry
<1>3. N \in Nat
  BY <1>2, TextIs
<1>4. /\ Sound(lists, entries, Add(modules, mod), loads + 1, server_num) /\ entries[mod.m] = << >>
      /\ Add(modules, mod) \in Seq(Loaded) /\ Has(Add(modules, mod), mod)
  BY <1>2, LoadKeeps
<1>5. mod.m \in Mods /\ U \in SUBSET Mods /\ mod.m \in U
  BY DEF Loaded
<1>6. start \in V
  <2>1. start = [lists |-> lists, entries |-> entries, modules |-> Add(modules, mod), status |-> status]
    BY DEF Add
  <2>2. \A m \in U : Quiet(entries[m])
    BY <1>4, HasNone DEF Quiet
  <2> HIDE DEF start
  <2>3. start \in Good(server_num, loads + 1, U)
    BY <1>2, <1>4, <2>1, <2>2, GoodIs
  <2>4. start.modules = Add(modules, mod) /\ OthersStay(start.lists, lists, mod, n)
    BY <2>1 DEF OthersStay
  <2> QED
    BY <2>3, <2>4
<1>7. ASSUME NEW i \in 1..N, NEW x \in V PROVE Line(x, i) \in V
  <2>1. /\ x \in Good(server_num, lo, U) /\ x.modules = Add(modules, mod) /\ i \in 1..Len(conf)
        /\ OthersStay(x.lists, lists, mod, server_num)
    OBVIOUS
  <2> HIDE DEF V, N, n, lo, U
  <2>2. /\ StaysGood(ReadLine(x, mod, i), x, server_num, lo, U)
        /\ OthersStay(ReadLine(x, mod, i).lists, x.lists, mod, server_num)
    BY <1>2, <1>4, <1>5, <2>1, ReadLineKeeps
  <2>3. OthersStay(ReadLine(x, mod, i).lists, lists, mod, server_num)
    BY <2>1, <2>2 DEF OthersStay
  <2> QED
    BY <2>1, <2>2, <2>3 DEF V, StaysGood, n
<1> HIDE DEF V, Line, N, n, start
<1>8. \E g : Runs(g)
  <2> DEFINE step == [i \in 1..N |-> [x \in V |-> Line(x, i)]]
  <2>1. step \in [1..N -> [V -> V]] /\ \A i \in 1..N : \A x \in V : step[i][x] = Line(x, i)
    BY <1>7
  <2> HIDE DEF step
  <2>2. PICK g : Stepwise(g, V, start, N, step)
    BY <1>3, <1>6, <2>1, StepsExist
  <2>3. g[0] = start /\ g \in [0..N -> V] /\ \A i \in 1..N : g[i] = step[i][g[i - 1]]
    BY <2>2 DEF Stepwise
  <2>4. \A i \in 1..N : i - 1 \in 0..N
    BY <1>3
  <2>5. \A i \in 1..N : g[i] = Line(g[i - 1], i)
    BY <2>1, <2>3, <2>4
  <2>6. ASSUME NEW i \in 0..N PROVE g[i] = Body(g, i)
    <3>1. i # 0 => i \in 1..N
      BY <1>3
    <3> QED
      BY <2>3, <2>5, <3>1
  <2> HIDE DEF Body
  <2>7. g = [i \in 0..N |-> g[i]]
    BY <2>3
  <2> QED
    BY <2>6, <2>7
<1>9. Runs(read)
  BY <1>8, Zenon
<1> HIDE DEF read
<1>10. \A i \in 0..N : read[i] = Body(read, i)
  <2> HIDE DEF Body
  <2>1. \A g : Runs(g) => \A i \in 0..N : g[i] = Body(g, i)
    OBVIOUS
  <2> HIDE DEF Runs
  <2> QED
    BY <1>9, <2>1
<1>11. read[0] \in V
  BY <1>3, <1>6, <1>10
<1>12. ASSUME NEW i \in 1..N, read[i - 1] \in V PROVE read[i] \in V
  <2>1. i \in 0..N /\ i # 0
    BY <1>3
  <2> QED
    BY <1>7, <1>10, <1>12, <2>1
<1>13. read[N] \in V
  <2>1. \A i \in 0..N : read[i] \in V
    BY <1>3, <1>11, <1>12, StaysIn
  <2> QED
    BY <1>3, <2>1
<1> QED
  BY <1>1, <1>13 DEF V, n, Good

\* !modadd keeps the invariant.
LEMMA ModAddKeeps == ASSUME MInv, NEW m \in Mods, ModAdd(m) PROVE MInv'
<1> DEFINE mod == [m |-> m, load |-> loads + 1]
           r   == read_conf(mod)
<1>1. /\ loads' = loads + 1 /\ \A i \in DOMAIN modules : modules[i].m # m
      /\ lists' = r.lists /\ entries' = r.entries /\ modules' = r.modules /\ status' = r.status
      /\ conf' = conf /\ server_num' = server_num /\ walk' = walk /\ walk = NULL
  BY DEF ModAdd, Free
<1>2. loads \in Nat /\ conf \in Files \cup {<<>>} /\ server_num \in Nat \ {0}
  BY DEF MInv, TypeOK
<1>3. mod \in Loaded /\ mod.load = loads + 1 /\ mod.m = m
  BY <1>2 DEF Loaded
<1> HIDE DEF mod
<1>4. \A mod2 \in Loaded : Has(modules, mod2) => mod2.m # mod.m
  BY <1>1, <1>3 DEF Has
<1>5. r \in Good(server_num, loads + 1, {})
  BY <1>3, <1>4, ReadConfKeeps
<1> HIDE DEF r
<1>6. /\ r \in State(server_num) /\ Sound(r.lists, r.entries, r.modules, loads + 1, server_num)
  BY <1>5 DEF Good
<1>7. /\ r.lists \in [Servers -> [Lists -> Seq(Element)]] /\ r.entries \in [Mods -> Seq(Entry)]
      /\ r.modules \in Seq(Loaded) /\ r.status \in {"runs", "exited", "undefined"}
  BY <1>6, StateIs DEF ListsIn, EntryIn, Servers, Entry
<1>8. loads + 1 \in Nat /\ Servers' = Servers /\ Entry' = Entry /\ NULL = walk'
  BY <1>1, <1>2 DEF Servers, Entry
<1>9. TypeOK'
  BY <1>1, <1>2, <1>7, <1>8 DEF TypeOK
<1> QED
  BY <1>1, <1>2, <1>6, <1>8, <1>9 DEF MInv, Walking

-----------------------------------------------------------------------------
(* !moddel.                                                                   *)

\* A list while mod stops: the others keep what they have.
Left(new, old, mod) ==
  /\ \A x : Has(new, x) => Has(old, x)
  /\ \A x : Has(old, x) /\ ~Mine(x, mod) => Has(new, x)
  /\ Others(new, mod) = Others(old, mod)
  /\ \A x : Alone(old, x) => Alone(new, x)
  /\ NamesApart(old) => NamesApart(new)

\* The lists that the stop takes the function out of, for an entry.
Unhooks(mod, e) == Does[mod.m].unhooks \cup (IF e.in_use THEN {"works"} ELSE {})

\* What a list of the entry's server becomes.
Cut(list, l, mod, hooks) ==
  IF l \in hooks THEN Del(list, Bare(mod))
  ELSE IF l = "vars" /\ Does[mod.m].unvar THEN DelNamed(list, Does[mod.m].var)
  ELSE IF l = "cmds" /\ Does[mod.m].unbind THEN DelNamed(list, Does[mod.m].cmd)
  ELSE list

\* List::del, as far as the proofs need it.
LEMMA DelThins ==
  ASSUME NEW S, NEW list \in Seq(S), NEW e
  PROVE  /\ Del(list, e) \in Seq(S) /\ Thinned(Del(list, e), list, e)
         /\ \/ Del(list, e) = list
            \/ \E i \in 1..Len(list) : list[i] = e /\ Del(list, e) = RemoveAt(list, i)
<1>1. CASE ~Has(list, e) /\ Del(list, e) = list
  BY <1>1 DEF Thinned
<1>2. CASE /\ Found(list, e) \in 1..Len(list) /\ list[Found(list, e)] = e
           /\ Del(list, e) = RemoveAt(list, Found(list, e))
  <2> DEFINE i == Found(list, e)
  <2>1. i \in 1..Len(list) /\ list[i] = e /\ Del(list, e) = RemoveAt(list, i)
    BY <1>2
  <2> HIDE DEF i
  <2>2. RemoveAt(list, i) \in Seq(S)
    BY <2>1, RemoveIs
  <2>3. Thinned(RemoveAt(list, i), list, list[i])
    BY <2>1, RemoveThins
  <2> QED
    BY <2>1, <2>2, <2>3
<1> QED
  BY <1>1, <1>2, DelIs

\* var_del and cmd_unbind: one that has the name goes, or there is none.
LEMMA DelNamedThins ==
  ASSUME NEW S, NEW list \in Seq(S), NEW name
  PROVE  /\ DelNamed(list, name) \in Seq(S)
         /\ \/ DelNamed(list, name) = list /\ \A x : Has(list, x) => x.name # name
            \/ \E i \in 1..Len(list) :
                  /\ Has(list, list[i]) /\ list[i].name = name
                  /\ DelNamed(list, name) = RemoveAt(list, i)
                  /\ Thinned(DelNamed(list, name), list, list[i])
                  /\ NamesApart(list) => \A y : Has(DelNamed(list, name), y) => y.name # name
<1>0. DOMAIN list = 1..Len(list)
  OBVIOUS
<1>1. CASE DelNamed(list, name) = list /\ \A i \in 1..Len(list) : list[i].name # name
  BY <1>0, <1>1 DEF Has
<1>2. CASE \E i \in 1..Len(list) : list[i].name = name /\ DelNamed(list, name) = RemoveAt(list, i)
  <2>1. PICK i \in 1..Len(list) : list[i].name = name /\ DelNamed(list, name) = RemoveAt(list, i)
    BY <1>2
  <2> DEFINE new == RemoveAt(list, i)
  <2>2. new \in Seq(S) /\ Thinned(new, list, list[i])
    BY RemoveIs, RemoveThins
  <2> HIDE DEF new
  <2>3. Has(list, list[i])
    BY <1>0 DEF Has
  <2>4. ASSUME NamesApart(list), NEW y, Has(new, y) PROVE y.name # name
    <3>1. Has(list, y)
      BY <2>2, <2>4 DEF Thinned
    <3>2. PICK j \in 1..Len(list) : list[j] = y
      BY <1>0, <3>1 DEF Has
    <3>3. ~Has(new, list[i])
      <4>1. Alone(list, list[i])
        BY <1>0, <2>4 DEF NamesApart, Alone
      <4> QED
        BY <2>2, <4>1 DEF Thinned
    <3>4. j # i
      BY <2>4, <3>2, <3>3
    <3> QED
      BY <1>0, <2>1, <2>4, <3>2, <3>4 DEF NamesApart
  <2> QED
    BY <2>1, <2>2, <2>3, <2>4 DEF new
<1> QED
  BY <1>1, <1>2, DelNamedIs

\* Elements of list l that have this name are taken out of it when mod stops.
Unnames(l, name, mod) ==
  \/ l = "vars" /\ Does[mod.m].unvar /\ name = Does[mod.m].var
  \/ l = "cmds" /\ Does[mod.m].unbind /\ name = Does[mod.m].cmd

\* One list, for one entry.
LEMMA CutIs ==
  ASSUME NEW list \in Seq(Element), NEW l \in Lists, NEW mod \in Loaded, NEW hooks \in SUBSET Hooks,
         \A x : Has(list, x) /\ Unnames(l, x.name, mod) => Mine(x, mod)
  PROVE  /\ Cut(list, l, mod, hooks) \in Seq(Element) /\ Left(Cut(list, l, mod, hooks), list, mod)
         /\ l \in hooks /\ Alone(list, Bare(mod)) => ~Has(Cut(list, l, mod, hooks), Bare(mod))
         /\ l = "vars" /\ Does[mod.m].unvar /\ NamesApart(list) =>
              \A x : Has(Cut(list, l, mod, hooks), x) => x.name # Does[mod.m].var
<1> DEFINE new == Cut(list, l, mod, hooks)
<1>1. "vars" \notin hooks /\ "cmds" \notin hooks /\ "vars" # "cmds"
  BY DEF Hooks
<1>2. CASE l \in hooks
  <2>1. new = Del(list, Bare(mod))
    BY <1>2 DEF Cut
  <2>2. /\ new \in Seq(Element) /\ Thinned(new, list, Bare(mod))
        /\ new = list \/ \E i \in 1..Len(list) : list[i] = Bare(mod) /\ new = RemoveAt(list, i)
    BY <2>1, DelThins
  <2>3. Mine(Bare(mod), mod)
    BY OfIn DEF Mine
  <2>4. l # "vars"
    BY <1>1, <1>2
  <2> HIDE DEF new
  <2>5. Others(new, mod) = Others(list, mod)
    BY <2>2, <2>3, OthersRemove
  <2>6. Left(new, list, mod)
    BY <2>2, <2>3, <2>5 DEF Thinned, Left
  <2> QED
    BY <2>2, <2>4, <2>6 DEF Thinned, new
<1>3. ASSUME NEW name, l \notin hooks, new = DelNamed(list, name), Unnames(l, name, mod)
      PROVE  /\ new \in Seq(Element) /\ Left(new, list, mod)
             /\ NamesApart(list) => \A x : Has(new, x) => x.name # name
  <2> HIDE DEF new
  <2>1. \A x : Has(list, x) /\ x.name = name => Mine(x, mod)
    BY <1>3
  <2>2. new \in Seq(Element)
    BY <1>3, DelNamedThins
  <2>3. CASE new = list /\ \A x : Has(list, x) => x.name # name
    BY <2>2, <2>3 DEF Left
  <2>4. CASE \E i \in 1..Len(list) :
               /\ Has(list, list[i]) /\ list[i].name = name
               /\ new = RemoveAt(list, i) /\ Thinned(new, list, list[i])
               /\ NamesApart(list) => \A y : Has(new, y) => y.name # name
    <3>1. PICK i \in 1..Len(list) : /\ Has(list, list[i]) /\ list[i].name = name
                                    /\ new = RemoveAt(list, i) /\ Thinned(new, list, list[i])
                                    /\ NamesApart(list) => \A y : Has(new, y) => y.name # name
      BY <2>4
    <3>2. Mine(list[i], mod)
      BY <2>1, <3>1
    <3>3. Others(new, mod) = Others(list, mod)
      BY <3>1, <3>2, OthersRemove
    <3>4. Left(new, list, mod)
      BY <3>1, <3>2, <3>3 DEF Thinned, Left
    <3> QED
      BY <2>2, <3>1, <3>4
  <2>5. \/ new = list /\ \A x : Has(list, x) => x.name # name
        \/ \E i \in 1..Len(list) :
             /\ Has(list, list[i]) /\ list[i].name = name
             /\ new = RemoveAt(list, i) /\ Thinned(new, list, list[i])
             /\ NamesApart(list) => \A y : Has(new, y) => y.name # name
    BY <1>3, DelNamedThins
  <2> QED
    BY <2>3, <2>4, <2>5
<1>4. CASE l = "vars" /\ Does[mod.m].unvar
  <2>1. new = DelNamed(list, Does[mod.m].var) /\ l \notin hooks /\ Unnames(l, Does[mod.m].var, mod)
    BY <1>1, <1>4 DEF Cut, Unnames
  <2> HIDE DEF new
  <2>2. /\ new \in Seq(Element) /\ Left(new, list, mod)
        /\ NamesApart(list) => \A x : Has(new, x) => x.name # Does[mod.m].var
    BY <1>3, <2>1
  <2> QED
    BY <2>1, <2>2 DEF new
<1>5. CASE l = "cmds" /\ Does[mod.m].unbind
  <2>1. new = DelNamed(list, Does[mod.m].cmd) /\ l \notin hooks /\ Unnames(l, Does[mod.m].cmd, mod)
    BY <1>1, <1>5 DEF Cut, Unnames
  <2> HIDE DEF new
  <2>2. new \in Seq(Element) /\ Left(new, list, mod)
    BY <1>3, <2>1
  <2> QED
    BY <1>1, <1>5, <2>1, <2>2 DEF new
<1>6. CASE /\ l \notin hooks /\ ~(l = "vars" /\ Does[mod.m].unvar)
           /\ ~(l = "cmds" /\ Does[mod.m].unbind)
  <2>1. new = list
    BY <1>6 DEF Cut
  <2> QED
    BY <1>6, <2>1 DEF Left
<1> QED
  BY <1>2, <1>4, <1>5, <1>6

\* The lists of all servers, while mod stops.
During(ls, old, mod, n) == \A s \in 1..n, l \in Lists : Left(ls[s][l], old[s][l], mod)

\* What an entry of mod accounts for is not there any more.
Gone(ls, e, mod) ==
  /\ \A l \in Unhooks(mod, e) : ~Has(ls[e.s][l], Bare(mod))
  /\ Does[mod.m].unvar => \A x : Has(ls[e.s]["vars"], x) => x.name # Does[mod.m].var

\* What is in a list of a module that is loaded, and not careless, is of it as it is loaded.
LEMMA LoadedAs ==
  ASSUME NEW list \in Seq(Element), NEW l, NEW s, NEW es, NEW ms \in Seq(Loaded), NEW lo,
         NEW mod \in Loaded, Has(ms, mod), Distinct(ms, lo), Fit(list, l, s, es, ms, lo),
         mod.m \notin Careless, NEW x, Has(list, x), x.m = mod.m
  PROVE  Mine(x, mod)
<1>1. IsIn(x, ms)
  BY DEF Fit, Whose
<1>2. PICK mod2 \in Loaded : Has(ms, mod2) /\ mod2.m = x.m /\ mod2.load = x.load
  BY <1>1, IsInIs
<1>3. mod2 = mod
  BY <1>2 DEF Distinct
<1> QED
  BY <1>2, <1>3 DEF Mine

\* What mod takes out by its name is his.
LEMMA NamedIsMine ==
  ASSUME NEW list \in Seq(Element), NEW l, NEW s, NEW es, NEW ms \in Seq(Loaded), NEW lo,
         NEW mod \in Loaded, Has(ms, mod), Distinct(ms, lo), Fit(list, l, s, es, ms, lo),
         NEW x, Has(list, x), Unnames(l, x.name, mod)
  PROVE  Mine(x, mod)
<1>1. x \in Element /\ x.m \in Mods /\ mod.m \in Mods
  <2>1. x \in Element
    BY HasIn
  <2> QED
    BY <2>1 DEF Element, Loaded
<1>2. Orderly(mod.m, Does[mod.m]) /\ Orderly(x.m, Does[x.m])
  BY <1>1, ModulesAssumption, TableIs
<1>3. mod.m \notin Careless
  BY <1>2 DEF Orderly, Unnames
<1>4. CASE l = "vars"
  <2>1. HasVar(mod.m) /\ x.name = Does[mod.m].var
    BY <1>2, <1>4 DEF Orderly, HasVar, Unnames
  <2>2. x.name = Does[x.m].var
    BY <1>4 DEF Fit, VarsOK
  <2> QED
    BY <1>1, <1>3, <2>1, <2>2, VarsDiffer, LoadedAs
<1>5. CASE l = "cmds"
  <2>1. x.name = Does[mod.m].cmd /\ Does[mod.m].cmd = "invite"
    BY <1>2, <1>5 DEF Orderly, Unnames
  <2>2. x.name = Does[x.m].cmd
    BY <1>5 DEF Fit, CmdsOK
  <2>3. x.m = mod.m
    BY <1>2, <2>1, <2>2 DEF Orderly
  <2> QED
    BY <1>3, <2>3, LoadedAs
<1> QED
  BY <1>4, <1>5 DEF Unnames

\* The hooks that a stop takes the function out of.
LEMMA UnhooksIs ==
  ASSUME NEW mod \in Loaded, NEW e
  PROVE  /\ Unhooks(mod, e) \in SUBSET Hooks /\ Unhooks(mod, e) \subseteq Lists
         /\ e.in_use => "works" \in Unhooks(mod, e)
         /\ Does[mod.m].unhooks \subseteq Unhooks(mod, e)
<1>1. Does[mod.m].unhooks \subseteq Hooks
  BY ModulesAssumption, TableIs DEF Loaded, Orderly
<1> QED
  BY <1>1 DEF Unhooks, Hooks, Lists

\* The module's stop, for one entry.
LEMMA StopKeeps ==
  ASSUME NEW n \in Nat, NEW old \in ListsIn(n), NEW es, NEW ms \in Seq(Loaded), NEW lo,
         Sound(old, es, ms, lo, n), NEW mod \in Loaded, Has(ms, mod),
         NEW ls \in ListsIn(n), During(ls, old, mod, n), NEW e \in EntryIn(n)
  PROVE  /\ module_stop(ls, mod, e) \in ListsIn(n) /\ During(module_stop(ls, mod, e), old, mod, n)
         /\ \A e2 \in EntryIn(n) : Gone(ls, e2, mod) => Gone(module_stop(ls, mod, e), e2, mod)
         /\ mod.m \notin Careless => Gone(module_stop(ls, mod, e), e, mod)
<1> DEFINE t == e.s
           hooks == Unhooks(mod, e)
           cut == [l \in Lists |-> Cut(ls[t][l], l, mod, hooks)]
           new == module_stop(ls, mod, e)
<1>1. t \in 1..n /\ hooks \in SUBSET Hooks
  BY UnhooksIs DEF EntryIn
<1>2. new = [ls EXCEPT ![t] = cut]
  BY DEF module_stop, Cut, Unhooks
<1> HIDE DEF new, t, hooks
<1>3. \A s \in 1..n : ls[s] \in [Lists -> Seq(Element)] /\ old[s] \in [Lists -> Seq(Element)]
  BY DEF ListsIn
<1>4. \A s \in 1..n, l \in Lists : ls[s][l] \in Seq(Element) /\ old[s][l] \in Seq(Element)
  BY <1>3
<1>15. ASSUME NEW s \in 1..n, NEW l \in Lists, NEW x, Has(ls[s][l], x), Unnames(l, x.name, mod)
       PROVE  Mine(x, mod)
  <2>1. Has(old[s][l], x)
    BY <1>15 DEF During, Left
  <2>2. old[s][l] \in Seq(Element) /\ Fit(old[s][l], l, s, es, ms, lo) /\ Distinct(ms, lo)
    BY <1>4 DEF Sound
  <2> QED
    BY <1>15, <2>1, <2>2, NamedIsMine
<1>5. ASSUME NEW l \in Lists
      PROVE  /\ Cut(ls[t][l], l, mod, hooks) \in Seq(Element)
             /\ Left(Cut(ls[t][l], l, mod, hooks), ls[t][l], mod)
             /\ l \in hooks /\ Alone(ls[t][l], Bare(mod)) => ~Has(Cut(ls[t][l], l, mod, hooks), Bare(mod))
             /\ l = "vars" /\ Does[mod.m].unvar /\ NamesApart(ls[t][l]) =>
                  \A x : Has(Cut(ls[t][l], l, mod, hooks), x) => x.name # Does[mod.m].var
  <2>1. \A x : Has(ls[t][l], x) /\ Unnames(l, x.name, mod) => Mine(x, mod)
    BY <1>1, <1>15
  <2>2. ls[t][l] \in Seq(Element)
    BY <1>1, <1>4
  <2> QED
    BY <1>1, <2>1, <2>2, CutIs
<1>6. cut \in [Lists -> Seq(Element)] /\ \A l \in Lists : cut[l] = Cut(ls[t][l], l, mod, hooks)
  BY <1>5
<1> HIDE DEF cut
<1>7. /\ new \in ListsIn(n) /\ new[t] = cut /\ \A s \in 1..n : s # t => new[s] = ls[s]
  BY <1>1, <1>2, <1>6 DEF ListsIn
<1>8. ASSUME NEW s \in 1..n, NEW l \in Lists
      PROVE  Left(new[s][l], ls[s][l], mod)
  <2>1. CASE s = t
    BY <1>5, <1>6, <1>7, <2>1
  <2>2. CASE s # t
    <3>1. new[s][l] = ls[s][l]
      BY <1>7, <2>2
    <3> QED
      BY <3>1 DEF Left
  <2> QED
    BY <2>1, <2>2
<1>9. ASSUME NEW s \in 1..n, NEW l \in Lists PROVE Left(new[s][l], old[s][l], mod)
  BY <1>8, <1>9 DEF Left, During
<1>10. During(new, old, mod, n)
  BY <1>9 DEF During
<1>11. ASSUME NEW e2 \in EntryIn(n), Gone(ls, e2, mod) PROVE Gone(new, e2, mod)
  <2>1. e2.s \in 1..n /\ Unhooks(mod, e2) \subseteq Lists /\ "vars" \in Lists
    BY UnhooksIs DEF EntryIn, Lists
  <2>2. \A l \in Lists : \A x : Has(new[e2.s][l], x) => Has(ls[e2.s][l], x)
    BY <1>8, <2>1 DEF Left
  <2> QED
    BY <1>11, <2>1, <2>2 DEF Gone
<1>12. ASSUME mod.m \notin Careless PROVE Gone(new, e, mod)
  <2>1. mod.m # "joinmsg" /\ Bare(mod).m = mod.m
    BY <1>12, OfIn DEF Careless
  <2>2. ASSUME NEW l \in hooks PROVE ~Has(new[t][l], Bare(mod))
    <3>1. l \in Hooks /\ l \in Lists
      BY <1>1 DEF Lists
    <3>2. Fit(old[t][l], l, t, es, ms, lo)
      BY <1>1, <3>1 DEF Sound
    <3>3. Alone(old[t][l], Bare(mod))
      BY <2>1, <3>1, <3>2 DEF Fit, CallsOK
    <3>4. Alone(ls[t][l], Bare(mod))
      BY <1>1, <3>1, <3>3 DEF During, Left
    <3> QED
      BY <1>5, <1>6, <1>7, <3>1, <3>4
  <2>3. ASSUME Does[mod.m].unvar, NEW x, Has(new[t]["vars"], x) PROVE x.name # Does[mod.m].var
    <3>1. "vars" \in Lists
      BY DEF Lists
    <3>2. NamesApart(old[t]["vars"])
      BY <1>1, <3>1 DEF Sound, Fit, VarsOK
    <3>3. NamesApart(ls[t]["vars"])
      BY <1>1, <3>1, <3>2 DEF During, Left
    <3> QED
      BY <1>5, <1>6, <1>7, <2>3, <3>1, <3>3
  <2> QED
    BY <2>2, <2>3 DEF Gone, t, hooks
<1> QED
  BY <1>7, <1>10, <1>11, <1>12 DEF new

\* What the lists are when mod has stopped for all of its entries.
LEMMA StoppedIs ==
  ASSUME NEW n \in Nat, lists \in ListsIn(n), modules \in Seq(Loaded),
         entries \in [Mods -> Seq(EntryIn(n))], Sound(lists, entries, modules, loads, n),
         NEW mod \in Loaded, Has(modules, mod)
  PROVE  /\ Stopped(mod) \in ListsIn(n) /\ During(Stopped(mod), lists, mod, n)
         /\ mod.m \notin Careless => \A e : Has(entries[mod.m], e) => Gone(Stopped(mod), e, mod)
<1> DEFINE es == entries[mod.m]
           N == Len(es)
           V == {ls \in ListsIn(n) : During(ls, lists, mod, n)}
           Stop(ls, i) == module_stop(ls, mod, es[i])
           Body(g, i) == IF i = 0 THEN lists ELSE Stop(g[i - 1], i)
           Runs(g) == g = [i \in 0..N |-> Body(g, i)]
           stopped == CHOOSE g : Runs(g)
<1>1. Stopped(mod) = stopped[N]
  BY DEF Stopped
<1>2. es \in Seq(EntryIn(n))
  BY DEF Loaded
<1> HIDE DEF es
<1>3. N \in Nat /\ DOMAIN es = 1..N /\ \A i \in 1..N : es[i] \in EntryIn(n)
  BY <1>2, PlacesIs
<1>4. lists \in V
  BY DEF During, Left
<1>5. ASSUME NEW i \in 1..N, NEW ls \in V
      PROVE  /\ Stop(ls, i) \in V
             /\ \A e2 \in EntryIn(n) : Gone(ls, e2, mod) => Gone(Stop(ls, i), e2, mod)
             /\ mod.m \notin Careless => Gone(Stop(ls, i), es[i], mod)
  <2>1. ls \in ListsIn(n) /\ During(ls, lists, mod, n) /\ es[i] \in EntryIn(n)
    BY <1>3
  <2> HIDE DEF V, N
  <2> DEFINE e == es[i]
             new == module_stop(ls, mod, e)
  <2>2. e \in EntryIn(n)
    BY <2>1
  <2> HIDE DEF e
  <2>3. /\ new \in ListsIn(n) /\ During(new, lists, mod, n)
        /\ \A e2 \in EntryIn(n) : Gone(ls, e2, mod) => Gone(new, e2, mod)
        /\ mod.m \notin Careless => Gone(new, e, mod)
    BY <2>1, <2>2, StopKeeps
  <2> HIDE DEF new
  <2>4. Stop(ls, i) = new
    BY DEF new, e
  <2> HIDE DEF Stop
  <2> QED
    BY <2>3, <2>4 DEF V, e
<1> HIDE DEF V, Stop, N
<1>6. \E g : Runs(g)
  <2> DEFINE step == [i \in 1..N |-> [x \in V |-> Stop(x, i)]]
  <2>1. step \in [1..N -> [V -> V]] /\ \A i \in 1..N : \A x \in V : step[i][x] = Stop(x, i)
    BY <1>5
  <2> HIDE DEF step
  <2>2. PICK g : Stepwise(g, V, lists, N, step)
    BY <1>3, <1>4, <2>1, StepsExist
  <2>3. g[0] = lists /\ g \in [0..N -> V] /\ \A i \in 1..N : g[i] = step[i][g[i - 1]]
    BY <2>2 DEF Stepwise
  <2>4. \A i \in 1..N : i - 1 \in 0..N
    BY <1>3
  <2>5. \A i \in 1..N : g[i] = Stop(g[i - 1], i)
    BY <2>1, <2>3, <2>4
  <2>6. ASSUME NEW i \in 0..N PROVE g[i] = Body(g, i)
    <3>1. i # 0 => i \in 1..N
      BY <1>3
    <3> QED
      BY <2>3, <2>5, <3>1
  <2> HIDE DEF Body
  <2>7. g = [i \in 0..N |-> g[i]]
    BY <2>3
  <2> QED
    BY <2>6, <2>7
<1>7. Runs(stopped)
  BY <1>6, Zenon
<1> HIDE DEF stopped
<1>8. \A i \in 0..N : stopped[i] = Body(stopped, i)
  <2> HIDE DEF Body
  <2>1. \A g : Runs(g) => \A i \in 0..N : g[i] = Body(g, i)
    OBVIOUS
  <2> HIDE DEF Runs
  <2> QED
    BY <1>7, <2>1
<1> DEFINE I == {i \in 0..N : /\ stopped[i] \in V
                              /\ mod.m \notin Careless =>
                                   \A j \in 1..i : j \in 1..N => Gone(stopped[i], es[j], mod)}
<1>9. 0 \in I
  <2>1. stopped[0] = lists /\ 0 \in 0..N /\ \A j \in 1..0 : FALSE
    BY <1>3, <1>8
  <2> QED
    BY <1>4, <2>1
<1>10. ASSUME NEW i \in 1..N, i - 1 \in I PROVE i \in I
  <2>1. i \in 0..N /\ i # 0 /\ i - 1 \in 0..N /\ \A j \in 1..i : j = i \/ j \in 1..(i - 1)
    BY <1>3
  <2>2. stopped[i] = Stop(stopped[i - 1], i)
    BY <1>8, <2>1
  <2>3. /\ stopped[i - 1] \in V
        /\ mod.m \notin Careless => \A j \in 1..(i - 1) : j \in 1..N => Gone(stopped[i - 1], es[j], mod)
    BY <1>10
  <2>4. /\ stopped[i] \in V
        /\ \A e2 \in EntryIn(n) : Gone(stopped[i - 1], e2, mod) => Gone(stopped[i], e2, mod)
        /\ mod.m \notin Careless => Gone(stopped[i], es[i], mod)
    BY <1>5, <2>2, <2>3
  <2>5. mod.m \notin Careless => \A j \in 1..i : j \in 1..N => Gone(stopped[i], es[j], mod)
    BY <1>3, <2>1, <2>3, <2>4
  <2> QED
    BY <2>1, <2>4, <2>5
<1>11. N \in I
  <2>1. I \in SUBSET (0..N)
    OBVIOUS
  <2> HIDE DEF I
  <2> QED
    BY <1>3, <1>9, <1>10, <2>1, AllPlaces
<1>12. stopped[N] \in V /\ (mod.m \notin Careless => \A j \in 1..N : Gone(stopped[N], es[j], mod))
  BY <1>11
<1> QED
  BY <1>1, <1>3, <1>12 DEF V, Has, es

\* A list is as it should be when mod has gone from it and from the modules that are loaded.
LEMMA FitStops ==
  ASSUME NEW old \in Seq(Element), NEW new \in Seq(Element), NEW l \in Lists, NEW s, NEW es, NEW es2,
         NEW ms \in Seq(Loaded), NEW ms2 \in Seq(Loaded), NEW lo, NEW mod \in Loaded, Has(ms, mod),
         Distinct(ms, lo), Fit(old, l, s, es, ms, lo), Left(new, old, mod),
         mod.m \notin Careless => \A x : Has(new, x) => ~Mine(x, mod),
         \A mod2 \in Loaded : Has(ms2, mod2) <=> Has(ms, mod2) /\ mod2 # mod,
         \A m \in Mods : m # mod.m => es2[m] = es[m]
  PROVE  Fit(new, l, s, es2, ms2, lo)
<1>1. ASSUME NEW mod2 \in Loaded, Has(ms2, mod2)
      PROVE  Has(ms, mod2) /\ mod2.m # mod.m /\ mod2.m \in Mods /\ es2[mod2.m] = es[mod2.m]
  <2>1. Has(ms, mod2) /\ mod2 # mod /\ mod2.m \in Mods
    BY <1>1 DEF Loaded
  <2>2. mod2.m # mod.m
    BY <2>1 DEF Distinct
  <2> QED
    BY <2>1, <2>2
<1>2. ASSUME NEW x, Has(new, x) PROVE (IsIn(x, ms2) \/ x.m \in Careless) /\ x.load <= lo
  <2>1. Has(old, x)
    BY <1>2 DEF Left
  <2>2. (IsIn(x, ms) \/ x.m \in Careless) /\ x.load <= lo
    BY <2>1 DEF Fit, Whose
  <2>3. ASSUME IsIn(x, ms), x.m \notin Careless PROVE IsIn(x, ms2)
    <3>1. PICK mod2 \in Loaded : Has(ms, mod2) /\ mod2.m = x.m /\ mod2.load = x.load
      BY <2>3, IsInIs
    <3>2. mod2 # mod
      BY <1>2, <2>3, <3>1 DEF Mine
    <3>3. Has(ms2, mod2)
      BY <3>1, <3>2
    <3> QED
      BY <3>1, <3>3, IsInIs
  <2> QED
    BY <2>2, <2>3
<1>3. ASSUME l \in Hooks PROVE CallsOK(new, l, s, es2, ms2)
  <2>1. CallsOK(old, l, s, es, ms) /\ l # "cmds"
    BY <1>3 DEF Fit, Hooks
  <2>2. /\ \A x : Has(new, x) => x.name = ""
        /\ \A x : x.m # "joinmsg" => Alone(new, x)
    BY <2>1 DEF CallsOK, Left
  <2>3. ASSUME NEW mod2 \in Loaded, Has(ms2, mod2), mod2.m # "joinmsg"
        PROVE  Has(new, Bare(mod2)) <=> Asked(es2[mod2.m], mod2, s, l)
    <3>1. /\ Has(ms, mod2) /\ mod2.m # mod.m /\ es2[mod2.m] = es[mod2.m]
      BY <1>1, <2>3
    <3>2. Has(old, Bare(mod2)) <=> Asked(es[mod2.m], mod2, s, l)
      BY <2>1, <2>3, <3>1 DEF CallsOK
    <3>3. ~Mine(Bare(mod2), mod)
      BY <3>1, OfIn DEF Mine
    <3>4. Has(new, Bare(mod2)) <=> Has(old, Bare(mod2))
      BY <2>1, <3>3 DEF Left
    <3> QED
      BY <3>1, <3>2, <3>4
  <2> QED
    BY <2>2, <2>3 DEF CallsOK
<1>4. ASSUME l = "vars" PROVE VarsOK(new, s, es2, ms2)
  <2>1. VarsOK(old, s, es, ms) /\ l # "cmds"
    BY <1>4 DEF Fit
  <2>2. /\ \A x : Has(new, x) => x.name # "" /\ x.name = Does[x.m].var
        /\ NamesApart(new)
    BY <2>1 DEF VarsOK, Left
  <2>3. ASSUME NEW mod2 \in Loaded, Has(ms2, mod2), mod2.m \notin Careless, HasVar(mod2.m)
        PROVE  Has(new, Of(mod2, Does[mod2.m].var)) <=> Known(es2[mod2.m], s)
    <3>1. /\ Has(ms, mod2) /\ mod2.m # mod.m /\ es2[mod2.m] = es[mod2.m]
      BY <1>1, <2>3
    <3>2. Has(old, Of(mod2, Does[mod2.m].var)) <=> Known(es[mod2.m], s)
      BY <2>1, <2>3, <3>1 DEF VarsOK
    <3>3. ~Mine(Of(mod2, Does[mod2.m].var), mod)
      BY <3>1, OfIn DEF Mine
    <3>4. Has(new, Of(mod2, Does[mod2.m].var)) <=> Has(old, Of(mod2, Does[mod2.m].var))
      BY <2>1, <3>3 DEF Left
    <3> QED
      BY <3>1, <3>2, <3>4
  <2> QED
    BY <2>2, <2>3 DEF VarsOK
<1>5. ASSUME l = "cmds" PROVE CmdsOK(new)
  BY <1>5 DEF Fit, CmdsOK, Left
<1> QED
  BY <1>2, <1>3, <1>4, <1>5 DEF Fit, Whose

\* Nothing of mod is in a list any more if all that its entries account for is gone.
LEMMA NothingLeft ==
  ASSUME NEW old \in Seq(Element), NEW new, NEW l \in Lists, NEW s, NEW es, NEW S, NEW ms \in Seq(Loaded),
         NEW lo, NEW mod \in Loaded, Has(ms, mod), Fit(old, l, s, es, ms, lo), es[mod.m] \in Seq(S),
         l # "cmds", mod.m \notin Careless, Left(new, old, mod),
         \A e : Has(es[mod.m], e) /\ e.s = s =>
           /\ l \in Unhooks(mod, e) => ~Has(new, Bare(mod))
           /\ l = "vars" /\ Does[mod.m].unvar => \A y : Has(new, y) => y.name # Does[mod.m].var,
         NEW x, Has(new, x)
  PROVE  ~Mine(x, mod)
<1>0. SUFFICES ASSUME Mine(x, mod) PROVE FALSE
  OBVIOUS
<1>1. Has(old, x) /\ x.m = mod.m /\ x.load = mod.load
  BY <1>0 DEF Left, Mine
<1>2. x \in Element
  BY <1>1, HasIn
<1>3. Orderly(mod.m, Does[mod.m]) /\ mod.m # "joinmsg"
  BY ModulesAssumption, TableIs DEF Loaded, Careless
<1>4. CASE l \in Hooks
  <2>1. CallsOK(old, l, s, es, ms)
    BY <1>4 DEF Fit
  <2>2. x = Bare(mod)
    <3>1. x.name = ""
      BY <1>1, <2>1 DEF CallsOK
    <3> QED
      BY <1>1, <1>2, <3>1, ElementIs
  <2>3. Asked(es[mod.m], mod, s, l)
    BY <1>1, <1>3, <2>1, <2>2 DEF CallsOK
  <2>4. PICK e : Has(es[mod.m], e) /\ e.s = s /\ (l = "works" => e.in_use) /\ (l # "works" => l \in Does[mod.m].hooks)
    <3>1. /\ Known(es[mod.m], s) <=> \E e : Has(es[mod.m], e) /\ e.s = s
          /\ Busy(es[mod.m], s) <=> \E e : Has(es[mod.m], e) /\ e.s = s /\ e.in_use
      BY KnownHas
    <3> QED
      BY <2>3, <3>1 DEF Asked
  <2>5. l \in Unhooks(mod, e)
    <3>1. Does[mod.m].hooks \subseteq Does[mod.m].unhooks
      BY <1>3 DEF Orderly
    <3> QED
      BY <2>4, <3>1, UnhooksIs
  <2> QED
    BY <2>2, <2>4, <2>5
<1>5. CASE l = "vars"
  <2>1. VarsOK(old, s, es, ms)
    BY <1>5 DEF Fit
  <2>2. x.name # "" /\ x.name = Does[mod.m].var
    BY <1>1, <2>1 DEF VarsOK
  <2>3. HasVar(mod.m) /\ Does[mod.m].unvar
    BY <1>3, <2>2 DEF Orderly, HasVar
  <2>4. x = Of(mod, Does[mod.m].var)
    BY <1>1, <1>2, <2>2, ElementIs
  <2>5. Known(es[mod.m], s)
    BY <1>1, <2>1, <2>3, <2>4 DEF VarsOK
  <2>6. PICK e : Has(es[mod.m], e) /\ e.s = s
    BY <2>5, KnownHas
  <2> QED
    BY <1>5, <2>2, <2>3, <2>6
<1> QED
  BY <1>4, <1>5 DEF Lists

\* The modules without one of them.
LEMMA ModulesLeft ==
  ASSUME NEW ms \in Seq(Loaded), NEW lo, NEW mod \in Loaded, Distinct(ms, lo)
  PROVE  /\ Del(ms, mod) \in Seq(Loaded) /\ Distinct(Del(ms, mod), lo)
         /\ \A mod2 \in Loaded : Has(Del(ms, mod), mod2) <=> Has(ms, mod2) /\ mod2 # mod
<1> DEFINE ms2 == Del(ms, mod)
<1>1. ms2 \in Seq(Loaded) /\ Thinned(ms2, ms, mod)
  BY DelThins
<1> HIDE DEF ms2
<1>2. Alone(ms, mod)
  BY DEF Distinct
<1>3. \A mod2 \in Loaded : Has(ms2, mod2) <=> Has(ms, mod2) /\ mod2 # mod
  BY <1>1, <1>2 DEF Thinned
<1>4. Distinct(ms2, lo)
  BY <1>1, <1>3 DEF Thinned, Distinct
<1> QED
  BY <1>1, <1>3, <1>4 DEF ms2

\* The lists of a server when the commands of a load are unbound.
LEMMA UnboundIs ==
  ASSUME NEW ls \in ListsIn(server_num), NEW mod
  PROVE  /\ unbind_all(ls, mod) \in ListsIn(server_num)
         /\ \A s \in Servers, l \in Lists :
              unbind_all(ls, mod)[s][l] = IF l = "cmds" THEN Others(ls[s][l], mod) ELSE ls[s][l]
<1>1. \A s \in Servers : ls[s] \in [Lists -> Seq(Element)]
  BY DEF ListsIn, Servers
<1>2. \A s \in Servers : Others(ls[s]["cmds"], mod) \in Seq(Element)
  <2> TAKE s \in Servers
  <2>1. "cmds" \in Lists
    BY DEF Lists
  <2>2. ls[s]["cmds"] \in Seq(Element)
    BY <1>1, <2>1
  <2> QED
    BY <2>2, OthersIs
<1> DEFINE Row(s) == [ls[s] EXCEPT !["cmds"] = Others(ls[s]["cmds"], mod)]
<1>3. unbind_all(ls, mod) = [s \in Servers |-> Row(s)]
  BY DEF unbind_all
<1>4. ASSUME NEW s \in Servers
      PROVE  /\ Row(s) \in [Lists -> Seq(Element)]
             /\ \A l \in Lists : Row(s)[l] = IF l = "cmds" THEN Others(ls[s][l], mod) ELSE ls[s][l]
  BY <1>1, <1>2
<1> HIDE DEF Row
<1> QED
  BY <1>3, <1>4 DEF ListsIn, Servers

\* !moddel keeps the invariant.
LEMMA ModDelKeeps ==
  ASSUME MInv, NEW m \in Mods, NEW load \in 1..loads, ModDel([m |-> m, load |-> load])
  PROVE  MInv'
<1> DEFINE mod == [m |-> m, load |-> load]
           es  == entries[mod.m]
           ls  == Stopped(mod)
           new == unbind_all(ls, mod)
           es2 == [entries EXCEPT ![mod.m] = << >>]
           ms2 == Del(modules, mod)
<1>1. /\ conf \in Files \cup {<<>>} /\ server_num \in Nat \ {0} /\ loads \in Nat
      /\ lists \in ListsIn(server_num) /\ entries \in [Mods -> Seq(EntryIn(server_num))]
      /\ modules \in Seq(Loaded) /\ status \in {"runs", "exited", "undefined"}
      /\ Sound(lists, entries, modules, loads, server_num) /\ Servers = 1..server_num
  BY DEF MInv, TypeOK, ListsIn, EntryIn, Servers, Entry
<1>2. /\ lists' = new /\ entries' = es2 /\ modules' = ms2 /\ walk = NULL
      /\ conf' = conf /\ server_num' = server_num /\ loads' = loads /\ walk' = walk /\ status' = status
  BY DEF ModDel, Free
<1>3. mod \in Loaded
  BY <1>1 DEF Loaded
<1>4. Has(modules, mod)
  <2>1. \E i \in 1..Len(modules) : modules[i] = mod
    BY DEF ModDel, Contains
  <2> HIDE DEF mod
  <2>2. DOMAIN modules = 1..Len(modules)
    BY <1>1
  <2> QED
    BY <2>1, <2>2 DEF Has
<1> HIDE DEF mod
<1>5. /\ ls \in ListsIn(server_num) /\ During(ls, lists, mod, server_num)
      /\ mod.m \notin Careless => \A e : Has(es, e) => Gone(ls, e, mod)
  BY <1>1, <1>3, <1>4, StoppedIs
<1> HIDE DEF ls
<1>6. /\ new \in ListsIn(server_num)
      /\ \A s \in Servers, l \in Lists : new[s][l] = IF l = "cmds" THEN Others(ls[s][l], mod) ELSE ls[s][l]
  BY <1>5, UnboundIs
<1> HIDE DEF new
<1>7. /\ ms2 \in Seq(Loaded) /\ Distinct(ms2, loads)
      /\ \A mod2 \in Loaded : Has(ms2, mod2) <=> Has(modules, mod2) /\ mod2 # mod
  BY <1>1, <1>3, ModulesLeft DEF Sound
<1> HIDE DEF ms2
<1>8. /\ mod.m \in Mods /\ es2 \in [Mods -> Seq(EntryIn(server_num))] /\ es2[mod.m] = << >>
      /\ \A k \in Mods : k # mod.m => es2[k] = entries[k]
      /\ es \in Seq(EntryIn(server_num))
  <2>1. mod.m \in Mods /\ << >> \in Seq(EntryIn(server_num))
    BY <1>3 DEF Loaded
  <2> QED
    BY <1>1, <2>1
<1> HIDE DEF es2, es
<1>9. Tidy(es2, ms2)
  <2>1. NewestBusy(<< >>)
    BY DEF NewestBusy
  <2>2. Tidy(entries, modules)
    BY <1>1 DEF Sound
  <2>3. ASSUME NEW k \in Mods, k # mod.m, \A mod2 \in Loaded : Has(ms2, mod2) => mod2.m # k
        PROVE  \A mod2 \in Loaded : Has(modules, mod2) => mod2.m # k
    BY <1>7, <2>3
  <2> QED
    BY <1>8, <2>1, <2>2, <2>3 DEF Tidy
<1>10. ASSUME NEW s \in 1..server_num, NEW l \in Lists PROVE Fit(new[s][l], l, s, es2, ms2, loads)
  <2>1. /\ lists[s][l] \in Seq(Element) /\ ls[s][l] \in Seq(Element) /\ new[s][l] \in Seq(Element)
        /\ Fit(lists[s][l], l, s, entries, modules, loads) /\ Distinct(modules, loads)
        /\ Left(ls[s][l], lists[s][l], mod)
    BY <1>1, <1>5, <1>6 DEF ListsIn, Sound, During
  <2>2. CASE l = "cmds"
    <3>1. new[s][l] = Others(ls[s][l], mod)
      BY <1>1, <1>6, <2>2
    <3>2. \A x : Has(new[s][l], x) => Has(ls[s][l], x) /\ ~Mine(x, mod)
      BY <2>1, <3>1, OthersIs
    <3>3. l \notin Hooks /\ l # "vars"
      BY <2>2 DEF Hooks
    <3>4. /\ Whose(lists[s][l], modules, loads) /\ CmdsOK(lists[s][l])
          /\ \A x : Has(new[s][l], x) => Has(lists[s][l], x)
      BY <2>1, <2>2, <3>2 DEF Fit, Left
    <3>5. ASSUME NEW x, Has(new[s][l], x) PROVE (IsIn(x, ms2) \/ x.m \in Careless) /\ x.load <= loads
      <4>1. (IsIn(x, modules) \/ x.m \in Careless) /\ x.load <= loads /\ ~Mine(x, mod)
        BY <3>2, <3>4, <3>5 DEF Whose
      <4>2. ASSUME IsIn(x, modules) PROVE IsIn(x, ms2)
        <5>1. PICK mod2 \in Loaded : Has(modules, mod2) /\ mod2.m = x.m /\ mod2.load = x.load
          BY <1>1, <4>2, IsInIs
        <5>2. Has(ms2, mod2)
          BY <1>7, <4>1, <5>1 DEF Mine
        <5> QED
          BY <1>7, <5>1, <5>2, IsInIs
      <4> QED
        BY <4>1, <4>2
    <3>6. CmdsOK(new[s][l])
      BY <3>4 DEF CmdsOK
    <3> QED
      BY <3>3, <3>5, <3>6 DEF Fit, Whose
  <2>3. CASE l # "cmds"
    <3>1. new[s][l] = ls[s][l] /\ Left(new[s][l], lists[s][l], mod)
      BY <1>1, <1>6, <2>1, <2>3
    <3>2. ASSUME mod.m \notin Careless, NEW e, Has(es, e), e.s = s
          PROVE  /\ l \in Unhooks(mod, e) => ~Has(new[s][l], Bare(mod))
                 /\ l = "vars" /\ Does[mod.m].unvar => \A y : Has(new[s][l], y) => y.name # Does[mod.m].var
      BY <1>5, <3>1, <3>2 DEF Gone
    <3>3. ASSUME mod.m \notin Careless, NEW x, Has(new[s][l], x) PROVE ~Mine(x, mod)
      <4>1. entries[mod.m] \in Seq(EntryIn(server_num))
        BY <1>1, <1>8
      <4> QED
        BY <1>1, <1>3, <1>4, <2>1, <2>3, <3>1, <3>2, <3>3, <4>1, NothingLeft DEF es
    <3>4. /\ modules \in Seq(Loaded) /\ ms2 \in Seq(Loaded)
          /\ \A mod2 \in Loaded : Has(ms2, mod2) <=> Has(modules, mod2) /\ mod2 # mod
          /\ \A k \in Mods : k # mod.m => es2[k] = entries[k]
          /\ mod.m \notin Careless => \A x : Has(new[s][l], x) => ~Mine(x, mod)
      BY <1>1, <1>7, <1>8, <3>3
    <3> DEFINE to == new[s][l]
               from == lists[s][l]
    <3>5. /\ from \in Seq(Element) /\ to \in Seq(Element) /\ Left(to, from, mod)
          /\ Fit(from, l, s, entries, modules, loads) /\ Distinct(modules, loads)
          /\ mod.m \notin Careless => \A x : Has(to, x) => ~Mine(x, mod)
      BY <2>1, <3>1, <3>4
    <3> HIDE DEF to, from
    <3>6. Fit(to, l, s, es2, ms2, loads)
      BY <1>3, <1>4, <3>4, <3>5, FitStops
    <3> QED
      BY <3>6 DEF to
  <2> QED
    BY <2>2, <2>3
<1>11. Sound(new, es2, ms2, loads, server_num)
  BY <1>7, <1>9, <1>10 DEF Sound
<1>12. Servers' = Servers /\ Entry' = Entry /\ Entry = EntryIn(server_num)
  BY <1>2 DEF Servers, Entry, EntryIn
<1>13. TypeOK'
  BY <1>1, <1>2, <1>6, <1>7, <1>8, <1>12 DEF TypeOK, ListsIn
<1> QED
  BY <1>1, <1>2, <1>11, <1>13 DEF MInv, Walking

-----------------------------------------------------------------------------
(* Between two loads.                                                         *)

\* The invariant, in the terms that the lemmas are in.
LEMMA InvIs ==
  ASSUME MInv
  PROVE  /\ conf \in Files \cup {<<>>} /\ server_num \in Nat \ {0} /\ loads \in Nat
         /\ lists \in ListsIn(server_num) /\ entries \in [Mods -> Seq(EntryIn(server_num))]
         /\ modules \in Seq(Loaded) /\ status \in {"runs", "exited", "undefined"}
         /\ Sound(lists, entries, modules, loads, server_num) /\ Distinct(modules, loads)
         /\ Servers = 1..server_num /\ Entry = EntryIn(server_num)
         /\ \A s \in Servers, l \in Lists : /\ lists[s][l] \in Seq(Element)
                                            /\ Fit(lists[s][l], l, s, entries, modules, loads)
  BY DEF MInv, TypeOK, ListsIn, EntryIn, Servers, Entry, Sound

\* And back.
LEMMA InvAgain ==
  ASSUME MInv, conf' \in Files \cup {<<>>}, server_num' = server_num, loads' = loads, modules' = modules,
         lists' \in ListsIn(server_num), entries' \in [Mods -> Seq(EntryIn(server_num))],
         status' \in {"runs", "exited", "undefined"},
         Sound(lists', entries', modules, loads, server_num),
         walk' = NULL \/ (walk' \in Walk /\ walk'.current <= Len(lists'[walk'.s][walk'.list])),
         Walking'
  PROVE  MInv'
<1>1. Servers' = Servers /\ Entry' = Entry /\ Servers = 1..server_num /\ Entry = EntryIn(server_num)
  BY InvIs DEF Servers, Entry
<1>2. Walk' = Walk
  BY <1>1 DEF Walk
<1>3. server_num \in Nat /\ server_num # 0 /\ modules \in Seq(Loaded) /\ loads \in Nat
  BY InvIs
<1>4. TypeOK'
  BY <1>1, <1>2, <1>3 DEF TypeOK, ListsIn
<1>5. Sound(lists, entries, modules, loads, server_num)'
  OBVIOUS
<1> QED
  BY <1>3, <1>4, <1>5 DEF MInv

\* One list is another one.
PutList(ls, s, l, list) == [ls EXCEPT ![s][l] = list]

\* The others are as they were.
LEMMA PutIs ==
  ASSUME NEW n, NEW ls \in ListsIn(n), NEW s \in 1..n, NEW l \in Lists, NEW list \in Seq(Element)
  PROVE  /\ PutList(ls, s, l, list) \in ListsIn(n)
         /\ \A t \in 1..n, k \in Lists :
              PutList(ls, s, l, list)[t][k] = IF t = s /\ k = l THEN list ELSE ls[t][k]
<1>1. ls \in [1..n -> [Lists -> Seq(Element)]] /\ ls[s] \in [Lists -> Seq(Element)]
  BY DEF ListsIn
<1>2. PutList(ls, s, l, list) = [ls EXCEPT ![s] = [ls[s] EXCEPT ![l] = list]]
  BY DEF PutList
<1> DEFINE row == [ls[s] EXCEPT ![l] = list]
<1>3. row \in [Lists -> Seq(Element)] /\ \A k \in Lists : row[k] = IF k = l THEN list ELSE ls[s][k]
  BY <1>1
<1> HIDE DEF row
<1>4. PutList(ls, s, l, list) = [ls EXCEPT ![s] = row]
  BY <1>2 DEF row
<1> QED
  BY <1>1, <1>3, <1>4 DEF ListsIn

\* !loadconf keeps the invariant.
LEMMA LoadConfKeeps == ASSUME MInv, NEW file \in Files \cup {<<>>}, LoadConf(file) PROVE MInv'
<1>1. /\ conf' = file /\ walk = NULL
      /\ UNCHANGED <<server_num, modules, lists, entries, loads, walk, status>>
  BY DEF LoadConf, Free
<1> QED
  BY <1>1, InvIs, InvAgain DEF Walking

\* !set keeps it.
LEMMA SetKeeps == ASSUME MInv, NEW s \in Servers, NEW name \in Names, Set(s, name) PROVE MInv'
<1>1. /\ status' = var_set(lists[s]["vars"], name, modules) /\ walk = NULL
      /\ UNCHANGED <<conf, server_num, modules, lists, entries, loads, walk>>
  BY DEF Set, Free
<1>2. status' \in {"runs", "exited", "undefined"}
  BY <1>1 DEF var_set
<1> QED
  BY <1>1, <1>2, InvIs, InvAgain DEF Walking

\* !unbind keeps it.
LEMMA UnbindKeeps == ASSUME MInv, NEW s \in Servers, NEW name \in Names, Unbind(s, name) PROVE MInv'
<1> DEFINE list == lists[s]["cmds"]
           new  == DelNamed(list, name)
           ls2  == PutList(lists, s, "cmds", new)
<1>1. /\ lists' = ls2 /\ walk = NULL
      /\ UNCHANGED <<conf, server_num, modules, entries, loads, walk, status>>
  BY DEF Unbind, Free, PutList
<1>2. s \in 1..server_num /\ "cmds" \in Lists /\ "cmds" \notin Hooks /\ "cmds" # "vars"
  BY InvIs DEF Lists, Hooks
<1>3. list \in Seq(Element) /\ Fit(list, "cmds", s, entries, modules, loads)
  BY <1>2, InvIs
<1> HIDE DEF list
<1>4. new \in Seq(Element) /\ \A x : Has(new, x) => Has(list, x)
  BY <1>3, DelNamedThins DEF Thinned
<1> HIDE DEF new
<1>5. Fit(new, "cmds", s, entries, modules, loads)
  BY <1>2, <1>3, <1>4 DEF Fit, Whose, CmdsOK
<1>6. /\ ls2 \in ListsIn(server_num)
      /\ \A t \in 1..server_num, k \in Lists : ls2[t][k] = IF t = s /\ k = "cmds" THEN new ELSE lists[t][k]
  BY <1>2, <1>4, InvIs, PutIs
<1> HIDE DEF ls2
<1>7. ASSUME NEW t \in 1..server_num, NEW k \in Lists
      PROVE  Fit(ls2[t][k], k, t, entries, modules, loads)
  <2>1. Fit(lists[t][k], k, t, entries, modules, loads)
    BY InvIs
  <2>2. CASE t = s /\ k = "cmds"
    BY <1>5, <1>6, <2>2
  <2>3. CASE ~(t = s /\ k = "cmds")
    BY <1>6, <2>1, <2>3
  <2> QED
    BY <2>2, <2>3
<1>8. Sound(ls2, entries, modules, loads, server_num)
  BY <1>7, InvIs DEF Sound
<1> QED
  BY <1>1, <1>6, <1>8, InvIs, InvAgain DEF Walking

\* Only the Known of entries matters to lists other than that of workers.
LEMMA FitKnown ==
  ASSUME NEW list, NEW l, NEW s, NEW es, NEW es2, NEW ms, NEW lo, Fit(list, l, s, es, ms, lo),
         l # "works", \A m \in Mods : Known(es2[m], s) <=> Known(es[m], s)
  PROVE  Fit(list, l, s, es2, ms, lo)
<1>1. \A mod \in Loaded : mod.m \in Mods
  BY DEF Loaded
<1>2. \A mod \in Loaded : /\ Asked(es2[mod.m], mod, s, l) <=> Asked(es[mod.m], mod, s, l)
                          /\ Known(es2[mod.m], s) <=> Known(es[mod.m], s)
  BY <1>1 DEF Asked
<1>3. CallsOK(list, l, s, es, ms) => CallsOK(list, l, s, es2, ms)
  BY <1>2, Zenon DEF CallsOK
<1>4. VarsOK(list, s, es, ms) => VarsOK(list, s, es2, ms)
  BY <1>2, Zenon DEF VarsOK
<1> QED
  BY <1>3, <1>4 DEF Fit

\* Where the entry for a server is that is found.
LEMMA EntryOfIs ==
  ASSUME NEW m, NEW s, NEW S, entries[m] \in Seq(S)
  PROVE  \/ EntryOf(m, s) = 0 /\ \A i \in 1..Len(entries[m]) : entries[m][i].s # s
         \/ /\ EntryOf(m, s) \in 1..Len(entries[m]) /\ entries[m][EntryOf(m, s)].s = s
            /\ \A j \in 1..Len(entries[m]) : entries[m][j].s = s => EntryOf(m, s) <= j
<1> DEFINE I == {i \in 1..Len(entries[m]) : entries[m][i].s = s}
<1>1. I \in SUBSET Nat
  OBVIOUS
<1>2. EntryOf(m, s) = IF I # {} THEN Min(I) ELSE 0
  BY DEF EntryOf, SelectInSeq
<1>3. I # {} => Min(I) \in I /\ \A j \in I : Min(I) <= j
  BY <1>1, MinIs
<1> QED
  BY <1>2, <1>3

\* The entry at i is used, or is not any more.
Used(es, i, use) == [es EXCEPT ![i].in_use = use]

\* If it is the first for s, that is all there is to say of s.
LEMMA UsedIs ==
  ASSUME NEW n, NEW es \in Seq(EntryIn(n)), NEW i \in 1..Len(es), NEW use \in BOOLEAN, NEW s, es[i].s = s,
         NewestBusy(es), \A j \in 1..Len(es) : es[j].s = s => i <= j
  PROVE  /\ Used(es, i, use) \in Seq(EntryIn(n)) /\ NewestBusy(Used(es, i, use))
         /\ \A t : Known(Used(es, i, use), t) <=> Known(es, t)
         /\ \A t : t # s => (Busy(Used(es, i, use), t) <=> Busy(es, t))
         /\ Busy(Used(es, i, use), s) <=> use
         /\ Busy(es, s) <=> es[i].in_use
<1> DEFINE es2 == Used(es, i, use)
<1>1. DOMAIN es = 1..Len(es) /\ Len(es) \in Nat /\ \A j \in 1..Len(es) : es[j] \in EntryIn(n)
  BY PlacesIs
<1>2. es2 = [es EXCEPT ![i] = [es[i] EXCEPT !.in_use = use]]
  BY DEF Used
<1> DEFINE e == [es[i] EXCEPT !.in_use = use]
<1>3. e \in EntryIn(n) /\ e.s = s /\ e.in_use = use
  BY <1>1 DEF EntryIn
<1> HIDE DEF e
<1>4. es2 = [es EXCEPT ![i] = e]
  BY <1>2 DEF e
<1> HIDE DEF es2
<1>5. /\ es2 \in Seq(EntryIn(n)) /\ Len(es2) = Len(es) /\ DOMAIN es2 = 1..Len(es)
      /\ es2[i] = e /\ \A j \in 1..Len(es) : j # i => es2[j] = es[j]
  BY <1>3, <1>4
<1>6. \A j \in 1..Len(es) : es2[j].s = es[j].s /\ (j # i => es2[j].in_use = es[j].in_use)
  BY <1>3, <1>5
<1>7. ASSUME NEW j \in 1..Len(es), j # i, es[j].in_use PROVE es[j].s # s
  <2>1. es[j].s = s => i < j
    BY <1>1, <1>7
  <2> QED
    BY <1>1, <1>7, <2>1 DEF NewestBusy
<1>8. NewestBusy(es2)
  <2>1. ASSUME NEW j \in 1..Len(es), NEW k \in 1..Len(es), es2[j].in_use, k < j PROVE es2[k].s # es2[j].s
    <3>1. CASE j = i
      <4>1. ~(i <= k)
        BY <1>1, <2>1, <3>1
      <4> QED
        BY <1>6, <3>1, <4>1
    <3>2. CASE j # i
      BY <1>1, <1>6, <2>1, <3>2 DEF NewestBusy
    <3> QED
      BY <3>1, <3>2
  <2> QED
    BY <1>5, <2>1 DEF NewestBusy
<1>9. \A t : Known(es2, t) <=> Known(es, t)
  BY <1>1, <1>5, <1>6, KnownIs
<1>10. ASSUME NEW t PROVE /\ Busy(es2, t) <=> \E j \in 1..Len(es) : es2[j].s = t /\ es2[j].in_use
                          /\ Busy(es, t) <=> \E j \in 1..Len(es) : es[j].s = t /\ es[j].in_use
  BY <1>1, <1>5, KnownIs
<1>11. \A t : t # s => (Busy(es2, t) <=> Busy(es, t))
  BY <1>5, <1>6, <1>10
<1>12. Busy(es2, s) <=> use
  BY <1>3, <1>5, <1>6, <1>7, <1>10
<1>13. Busy(es, s) <=> es[i].in_use
  BY <1>7, <1>10
<1> QED
  BY <1>5, <1>8, <1>9, <1>11, <1>12, <1>13 DEF es2

\* One list of functions and the entries of its module change together.
LEMMA BothKeep ==
  ASSUME NEW n, NEW ls \in ListsIn(n), NEW es, NEW ms, NEW lo, Sound(ls, es, ms, lo, n),
         NEW s \in 1..n, NEW list \in Seq(Element), NEW es2,
         \A m \in Mods : /\ NewestBusy(es2[m]) /\ (es[m] = << >> => es2[m] = << >>)
                         /\ \A t : Known(es2[m], t) <=> Known(es[m], t)
                         /\ \A t : t # s => (Busy(es2[m], t) <=> Busy(es[m], t)),
         Fit(list, "works", s, es2, ms, lo)
  PROVE  /\ PutList(ls, s, "works", list) \in ListsIn(n)
         /\ Sound(PutList(ls, s, "works", list), es2, ms, lo, n)
<1> DEFINE ls2 == PutList(ls, s, "works", list)
<1>1. "works" \in Lists
  BY DEF Lists, Hooks
<1>2. /\ ls2 \in ListsIn(n)
      /\ \A t \in 1..n, l \in Lists : ls2[t][l] = IF t = s /\ l = "works" THEN list ELSE ls[t][l]
  BY <1>1, PutIs
<1> HIDE DEF ls2
<1>3. Tidy(es2, ms) /\ Distinct(ms, lo)
  BY DEF Sound, Tidy
<1>4. ASSUME NEW t \in 1..n, NEW l \in Lists PROVE Fit(ls2[t][l], l, t, es2, ms, lo)
  <2>1. Fit(ls[t][l], l, t, es, ms, lo)
    BY DEF Sound
  <2>2. CASE t = s /\ l = "works"
    BY <1>2, <2>2
  <2>3. CASE l # "works"
    <3>1. Fit(ls[t][l], l, t, es2, ms, lo)
      BY <2>1, <2>3, FitKnown
    <3> QED
      BY <1>2, <2>3, <3>1
  <2>4. CASE t # s
    <3>1. \A m \in Mods : Alike(es, es2, t, m)
      BY <2>4 DEF Alike
    <3>2. Fit(ls[t][l], l, t, es2, ms, lo)
      BY <2>1, <3>1, FitAlike
    <3> QED
      BY <1>2, <2>4, <3>2
  <2> QED
    BY <2>2, <2>3, <2>4
<1> QED
  BY <1>2, <1>3, <1>4 DEF Sound, ls2

\* A command keeps the invariant, and starts a worker.
LEMMA CommandKeeps ==
  ASSUME MInv, NEW s \in Servers, NEW name \in Names, Command(s, name)
  PROVE  MInv'
<1> DEFINE list == lists[s]["cmds"]
           i    == Named(list, name)
           e    == list[i]
<1>1. walk = NULL /\ i # 0 /\ UNCHANGED <<conf, server_num, modules, loads, walk>>
  BY DEF Command, Free
<1>2. CASE ~IsIn(e, modules)
  <2>1. status' = "undefined" /\ UNCHANGED <<lists, entries>>
    BY <1>2 DEF Command
  <2> QED
    BY <1>1, <2>1, InvIs, InvAgain DEF Walking
<1>3. CASE IsIn(e, modules)
  <2> DEFINE n   == EntryOf(e.m, s)
             es  == entries[e.m]
             es2 == [entries EXCEPT ![e.m] = Used(es, n, TRUE)]
             ls2 == PutList(lists, s, "works", Add(lists[s]["works"], Bare(e)))
  <2>1. /\ Does[e.m].works /\ n # 0 /\ ~entries[e.m][n].in_use /\ status' = status
        /\ entries' = es2 /\ lists' = ls2
    BY <1>3 DEF Command, Used, PutList
  <2>2. PICK mod \in Loaded : Has(modules, mod) /\ mod.m = e.m /\ mod.load = e.load
    BY <1>3, InvIs, IsInIs
  <2>3. mod.m \in Mods /\ mod.m # "joinmsg" /\ Bare(e) = Bare(mod)
    <3>1. mod.m \in Mods /\ Orderly(mod.m, Does[mod.m])
      BY ModulesAssumption, TableIs DEF Loaded
    <3>2. Bare(e) = Bare(mod)
      BY <2>2 DEF Bare, Of
    <3> QED
      BY <2>1, <2>2, <3>1, <3>2 DEF Orderly
  <2> HIDE DEF e, i, list
  <2>4. es \in Seq(EntryIn(server_num)) /\ entries \in [Mods -> Seq(EntryIn(server_num))]
    BY <2>2, <2>3, InvIs
  <2>5. n \in 1..Len(es) /\ es[n].s = s /\ ~es[n].in_use /\ \A j \in 1..Len(es) : es[j].s = s => n <= j
    BY <2>1, <2>4, EntryOfIs
  <2> HIDE DEF n
  <2>6. NewestBusy(es) /\ Tidy(entries, modules)
    BY <2>2, <2>3, InvIs DEF Sound, Tidy
  <2> HIDE DEF es
  <2>7. /\ Used(es, n, TRUE) \in Seq(EntryIn(server_num)) /\ NewestBusy(Used(es, n, TRUE))
        /\ \A t : Known(Used(es, n, TRUE), t) <=> Known(es, t)
        /\ \A t : t # s => (Busy(Used(es, n, TRUE), t) <=> Busy(es, t))
        /\ Busy(Used(es, n, TRUE), s) /\ ~Busy(es, s)
    <3> DEFINE yes == TRUE
    <3>1. yes \in BOOLEAN
      OBVIOUS
    <3> HIDE DEF yes
    <3>2. /\ Used(es, n, yes) \in Seq(EntryIn(server_num)) /\ NewestBusy(Used(es, n, yes))
          /\ \A t : Known(Used(es, n, yes), t) <=> Known(es, t)
          /\ \A t : t # s => (Busy(Used(es, n, yes), t) <=> Busy(es, t))
          /\ Busy(Used(es, n, yes), s) <=> yes
          /\ Busy(es, s) <=> es[n].in_use
      BY <2>4, <2>5, <2>6, <3>1, UsedIs
    <3> QED
      BY <2>5, <3>2 DEF yes
  <2>8. /\ es2 \in [Mods -> Seq(EntryIn(server_num))] /\ es2[mod.m] = Used(es, n, TRUE)
        /\ \A m \in Mods : m # mod.m => es2[m] = entries[m]
        /\ es = entries[mod.m]
    BY <2>2, <2>3, <2>4, <2>7 DEF es
  <2> HIDE DEF es2
  <2>9. es # << >>
    BY <2>5
  <2>10. \A m \in Mods : /\ NewestBusy(es2[m]) /\ (entries[m] = << >> => es2[m] = << >>)
                         /\ \A t : Known(es2[m], t) <=> Known(entries[m], t)
                         /\ \A t : t # s => (Busy(es2[m], t) <=> Busy(entries[m], t))
    BY <2>6, <2>7, <2>8, <2>9 DEF Tidy
  <2> DEFINE works == lists[s]["works"]
  <2>11. works \in Seq(Element) /\ Fit(works, "works", s, entries, modules, loads) /\ s \in 1..server_num
    <3>1. "works" \in Lists
      BY DEF Lists, Hooks
    <3> QED
      BY <3>1, InvIs
  <2>12. Fit(Add(works, Bare(mod)), "works", s, es2, modules, loads)
    <3>1. "works" \in Hooks /\ TRUE \in BOOLEAN
      BY DEF Hooks
    <3>2. \A m \in Mods : m # mod.m => Alike(entries, es2, s, m)
      BY <2>8 DEF Alike
    <3>3. /\ ~Asked(entries[mod.m], mod, s, "works") /\ Asked(es2[mod.m], mod, s, "works")
      BY <2>7, <2>8 DEF Asked
    <3>4. modules \in Seq(Loaded) /\ Distinct(modules, loads)
      BY InvIs
    <3> HIDE DEF works
    <3>5. Fit(IF TRUE THEN Add(works, Bare(mod)) ELSE works, "works", s, es2, modules, loads)
      BY <2>2, <2>11, <3>1, <3>2, <3>3, <3>4, FitCall
    <3> QED
      BY <3>5
  <2>13. Add(works, Bare(mod)) \in Seq(Element)
    BY <2>11, OfIn, AddIs
  <2>14. ls2 = PutList(lists, s, "works", Add(works, Bare(mod)))
    BY <2>3
  <2> DEFINE new == Add(works, Bare(mod))
  <2> HIDE DEF new, works, ls2
  <2>15. /\ PutList(lists, s, "works", new) \in ListsIn(server_num)
         /\ Sound(PutList(lists, s, "works", new), es2, modules, loads, server_num)
    BY <2>10, <2>11, <2>12, <2>13, InvIs, BothKeep DEF new
  <2> QED
    BY <1>1, <2>1, <2>8, <2>14, <2>15, InvIs, InvAgain DEF Walking, new
<1> QED
  BY <1>2, <1>3

-----------------------------------------------------------------------------
(* The walk.                                                                  *)

\* What is called now, behind what was called before.
LEMMA AppendIs ==
  ASSUME NEW S, NEW s \in Seq(S), NEW x \in S
  PROVE  /\ Append(s, x) \in Seq(S)
         /\ \A y : Has(Append(s, x), y) <=> Has(s, y) \/ y = x
         /\ \A y : Alone(s, y) /\ (y = x => ~Has(s, x)) => Alone(Append(s, x), y)
<1> DEFINE new == Append(s, x)
<1>1. /\ new \in Seq(S) /\ Len(s) \in Nat /\ Len(new) = Len(s) + 1 /\ new[Len(s) + 1] = x
      /\ \A i \in 1..Len(s) : new[i] = s[i]
      /\ DOMAIN new = 1..(Len(s) + 1) /\ DOMAIN s = 1..Len(s)
  OBVIOUS
<1> HIDE DEF new
<1>2. \A i \in 1..(Len(s) + 1) : i = Len(s) + 1 \/ i \in 1..Len(s)
  BY <1>1
<1>3. Len(s) + 1 \in 1..(Len(s) + 1) /\ \A i \in 1..Len(s) : i \in 1..(Len(s) + 1)
  BY <1>1
<1>4. \A y : Has(new, y) <=> Has(s, y) \/ y = x
  BY <1>1, <1>2, <1>3 DEF Has
<1>5. ASSUME NEW y, Alone(s, y), y = x => ~Has(s, x) PROVE Alone(new, y)
  BY <1>1, <1>2, <1>5 DEF Alone, Has
<1> QED
  BY <1>1, <1>4, <1>5 DEF new

\* A walk begins.
LEMMA BeginKeeps == ASSUME MInv, NEW s \in Servers, NEW l \in Hooks, Begin(s, l) PROVE MInv'
<1>1. /\ walk' = Rewound(s, l)
      /\ UNCHANGED <<conf, server_num, modules, lists, entries, loads, status>>
  BY DEF Begin
<1> DEFINE w == [s |-> s, list |-> l, current |-> 0, called |-> << >>]
<1>2. walk' = w /\ w \in Walk /\ w.s = s /\ w.list = l /\ w.current = 0 /\ w.called = << >>
  BY <1>1 DEF Rewound, Walk
<1> HIDE DEF w
<1>3. lists[s][l] \in Seq(Element) /\ l \in Lists
  BY InvIs DEF Lists
<1>4. DOMAIN lists[s][l] = 1..Len(lists[s][l]) /\ Len(lists[s][l]) \in Nat
  BY <1>3, PlacesIs
<1>5. walk' \in Walk /\ walk'.current <= Len(lists'[walk'.s][walk'.list])
  BY <1>1, <1>2, <1>4
<1>6. Walking'
  BY <1>1, <1>2, <1>4, HasNone DEF Walking, Alone
<1> QED
  BY <1>1, <1>5, <1>6, InvIs, InvAgain

\* A walk ends.
LEMMA EndKeeps == ASSUME MInv, End PROVE MInv'
<1>1. walk' = NULL /\ UNCHANGED <<conf, server_num, modules, lists, entries, loads, status>>
  BY DEF End
<1> QED
  BY <1>1, InvIs, InvAgain DEF Walking

\* The walk while there is more in its list.
LEMMA MoreIs ==
  ASSUME MInv, More
  PROVE  LET list == lists[walk.s][walk.list]
             c    == walk.current
         IN /\ walk \in Walk /\ walk # NULL /\ walk.s \in 1..server_num /\ walk.list \in Hooks
            /\ c \in Nat /\ walk.called \in Seq(Element)
            /\ list \in Seq(Element) /\ DOMAIN list = 1..Len(list) /\ Len(list) \in Nat
            /\ c + 1 \in 1..Len(list) /\ Next1 = list[c + 1] /\ Next1 \in Element
            /\ CallsOK(list, walk.list, walk.s, entries, modules)
            /\ \A i \in 1..Len(list) : i <= c => Has(walk.called, list[i])
            /\ \A i \in 1..Len(list) : i > c /\ list[i].m # "joinmsg" => ~Has(walk.called, list[i])
            /\ \A x : x.m # "joinmsg" => Alone(walk.called, x)
<1> DEFINE list == lists[walk.s][walk.list]
           c    == walk.current
<1>1. walk \in Walk /\ walk # NULL /\ c < Len(list)
  BY DEF MInv, TypeOK, More
<1>2. /\ walk.s \in 1..server_num /\ walk.list \in Hooks /\ c \in Nat /\ walk.called \in Seq(Element)
      /\ walk.list \in Lists
  BY <1>1, InvIs DEF Walk, Lists
<1>3. list \in Seq(Element) /\ Fit(list, walk.list, walk.s, entries, modules, loads)
  BY <1>2, InvIs
<1>4. Next1 = list[c + 1]
  BY DEF Next1
<1>5. /\ \A i \in DOMAIN list : i <= c => Has(walk.called, list[i])
      /\ \A i \in DOMAIN list : i > c /\ list[i].m # "joinmsg" => ~Has(walk.called, list[i])
      /\ \A x : x.m # "joinmsg" => Alone(walk.called, x)
  BY <1>1 DEF MInv, Walking
<1> HIDE DEF list, c
<1>6. DOMAIN list = 1..Len(list) /\ Len(list) \in Nat /\ \A i \in 1..Len(list) : list[i] \in Element
  BY <1>3, PlacesIs
<1>7. c + 1 \in 1..Len(list)
  BY <1>1, <1>2, <1>6
<1>8. CallsOK(list, walk.list, walk.s, entries, modules)
  BY <1>2, <1>3 DEF Fit
<1> QED
  BY <1>1, <1>2, <1>3, <1>4, <1>5, <1>6, <1>7, <1>8 DEF list, c

\* The walk goes on.
Goes(w0, c, called) == [w0 EXCEPT !.current = c, !.called = called]

\* It is a walk then, through the same list.
LEMMA WalkIs ==
  ASSUME NEW w0 \in Walk, NEW c \in Nat, NEW called \in Seq(Element)
  PROVE  /\ Goes(w0, c, called) \in Walk
         /\ Goes(w0, c, called).s = w0.s /\ Goes(w0, c, called).list = w0.list
         /\ Goes(w0, c, called).current = c /\ Goes(w0, c, called).called = called
<1>1. ASSUME NEW w, w = [w0 EXCEPT !.current = c, !.called = called]
      PROVE  w = [s |-> w0.s, list |-> w0.list, current |-> c, called |-> called]
  BY <1>1 DEF Walk
<1>2. w0.s \in Servers /\ w0.list \in Hooks
  BY DEF Walk
<1>3. Goes(w0, c, called) = [s |-> w0.s, list |-> w0.list, current |-> c, called |-> called]
  BY <1>1 DEF Goes
<1> QED
  BY <1>2, <1>3 DEF Walk

\* Its place is another.
At(w0, c) == [w0 EXCEPT !.current = c]

\* And nothing else.
LEMMA AtIs ==
  ASSUME NEW w0 \in Walk, NEW c \in Nat
  PROVE  /\ At(w0, c) \in Walk /\ At(w0, c).s = w0.s /\ At(w0, c).list = w0.list
         /\ At(w0, c).current = c /\ At(w0, c).called = w0.called
<1>1. At(w0, c) = [s |-> w0.s, list |-> w0.list, current |-> c, called |-> w0.called]
  BY DEF Walk, At
<1>2. w0.s \in Servers /\ w0.list \in Hooks /\ w0.called \in Seq(Element)
  BY DEF Walk
<1> QED
  BY <1>1, <1>2 DEF Walk

\* The next function is called.
LEMMA CallKeeps == ASSUME MInv, Call PROVE MInv'
<1> DEFINE list == lists[walk.s][walk.list]
           c    == walk.current
           e    == Next1
           called == walk.called
<1>1. More /\ UNCHANGED <<conf, server_num, modules, lists, entries, loads>>
  BY DEF Call
<1>2. /\ walk \in Walk /\ walk # NULL /\ walk.s \in 1..server_num /\ walk.list \in Hooks
      /\ c \in Nat /\ called \in Seq(Element)
      /\ list \in Seq(Element) /\ DOMAIN list = 1..Len(list) /\ Len(list) \in Nat
      /\ c + 1 \in 1..Len(list) /\ e = list[c + 1] /\ e \in Element
      /\ CallsOK(list, walk.list, walk.s, entries, modules)
      /\ \A i \in 1..Len(list) : i <= c => Has(called, list[i])
      /\ \A i \in 1..Len(list) : i > c /\ list[i].m # "joinmsg" => ~Has(called, list[i])
      /\ \A x : x.m # "joinmsg" => Alone(called, x)
  BY <1>1, MoreIs
<1>3. CASE status' = "undefined" /\ UNCHANGED walk
  <2>1. Walking'
    BY <1>1, <1>3 DEF Walking, MInv
  <2>2. walk' \in Walk /\ walk'.current <= Len(lists'[walk'.s][walk'.list])
    BY <1>1, <1>2, <1>3 DEF MInv, TypeOK
  <2> QED
    BY <1>1, <1>3, <2>1, <2>2, InvIs, InvAgain
<1>4. CASE walk' = Walked /\ UNCHANGED status
  <2> DEFINE called2 == Append(called, e)
             w == Goes(walk, c + 1, called2)
  <2>1. walk' = w
    BY <1>4 DEF Walked, Goes
  <2>2. /\ called2 \in Seq(Element) /\ \A y : Has(called2, y) <=> Has(called, y) \/ y = e
        /\ \A y : Alone(called, y) /\ (y = e => ~Has(called, e)) => Alone(called2, y)
    BY <1>2, AppendIs
  <2> HIDE DEF called2
  <2>3. w \in Walk /\ w.s = walk.s /\ w.list = walk.list /\ w.current = c + 1 /\ w.called = called2
    <3>1. c + 1 \in Nat
      BY <1>2
    <3>2. walk \in Walk /\ called2 \in Seq(Element)
      BY <1>2, <2>2
    <3> HIDE DEF c
    <3> QED
      BY <3>1, <3>2, WalkIs
  <2> HIDE DEF w, list, c, called, e
  <2>4. /\ lists'[walk'.s][walk'.list] = list /\ walk' \in Walk /\ walk'.current = c + 1
        /\ walk'.called = called2
    BY <1>1, <2>1, <2>3 DEF list
  <2>5. \A i \in 1..Len(list) : i <= c + 1 => Has(called2, list[i])
    <3>1. \A i \in 1..Len(list) : i <= c + 1 => i <= c \/ i = c + 1
      BY <1>2
    <3> QED
      BY <1>2, <2>2, <3>1
  <2>6. ASSUME NEW i \in 1..Len(list), i > c + 1, list[i].m # "joinmsg" PROVE ~Has(called2, list[i])
    <3>1. i > c /\ i # c + 1
      BY <1>2, <2>6
    <3>2. Alone(list, list[i])
      BY <1>2, <2>6 DEF CallsOK
    <3>3. list[i] # e
      BY <1>2, <3>1, <3>2 DEF Alone
    <3> QED
      BY <1>2, <2>2, <2>6, <3>1, <3>3
  <2>7. ASSUME NEW x, x.m # "joinmsg" PROVE Alone(called2, x)
    <3>1. c + 1 > c
      BY <1>2
    <3>2. x = e => ~Has(called, e)
      BY <1>2, <2>7, <3>1
    <3> QED
      BY <1>2, <2>2, <2>7, <3>2
  <2>8. Walking'
    BY <1>2, <2>4, <2>5, <2>6, <2>7 DEF Walking
  <2>9. walk' \in Walk /\ walk'.current <= Len(lists'[walk'.s][walk'.list])
    BY <1>2, <2>4
  <2> QED
    BY <1>1, <1>4, <2>8, <2>9, InvIs, InvAgain
<1> QED
  BY <1>3, <1>4 DEF Call

\* A walk that was at c, when e is called and is taken out of the list.
StillWalks(list, c, called, e) ==
  LET new     == Del(list, e)
      called2 == Append(called, e)
  IN /\ Found(list, e) \in 1..(c + 1) /\ c <= Len(new) /\ Len(new) \in Nat
     /\ DOMAIN new = 1..Len(new) /\ called2 \in Seq(Element)
     /\ \A i \in 1..Len(new) : i <= c => Has(called2, new[i])
     /\ \A i \in 1..Len(new) : i > c /\ new[i].m # "joinmsg" => ~Has(called2, new[i])
     /\ \A x : x.m # "joinmsg" => Alone(called2, x)

\* The worker at c + 1 deletes itself: where the walk is then.
LEMMA WalkDone ==
  ASSUME NEW list \in Seq(Element), NEW c \in Nat, c + 1 \in 1..Len(list), NEW called \in Seq(Element),
         \A x : x.m # "joinmsg" => Alone(list, x),
         \A i \in 1..Len(list) : i <= c => Has(called, list[i]),
         \A i \in 1..Len(list) : i > c /\ list[i].m # "joinmsg" => ~Has(called, list[i]),
         \A x : x.m # "joinmsg" => Alone(called, x)
  PROVE  StillWalks(list, c, called, list[c + 1])
<1> DEFINE e    == list[c + 1]
           new  == Del(list, e)
           called2 == Append(called, e)
           k    == Found(list, e)
<1>1. DOMAIN list = 1..Len(list) /\ Len(list) \in Nat /\ \A i \in 1..Len(list) : list[i] \in Element
  BY PlacesIs
<1>2. e \in Element /\ e = list[c + 1] /\ Has(list, e)
  BY <1>1 DEF Has
<1> HIDE DEF e
<1>3. /\ k \in 1..Len(list) /\ list[k] = e /\ \A j \in 1..Len(list) : list[j] = e => k <= j
      /\ new = RemoveAt(list, k)
  BY <1>2, DelIs
<1> HIDE DEF k, new
<1>4. /\ new \in Seq(Element) /\ Len(new) = Len(list) - 1
      /\ \A i \in 1..(Len(list) - 1) : new[i] = IF i < k THEN list[i] ELSE list[i + 1]
  BY <1>3, RemoveIs
<1>5. k \in 1..(c + 1) /\ c <= Len(new) /\ Len(new) \in Nat /\ DOMAIN new = 1..Len(new)
  <2>1. k <= c + 1
    BY <1>2, <1>3
  <2>2. Len(list) - 1 \in Nat /\ c <= Len(list) - 1
    BY <1>1
  <2> QED
    BY <1>3, <1>4, <2>1, <2>2
<1>6. /\ called2 \in Seq(Element) /\ \A y : Has(called2, y) <=> Has(called, y) \/ y = e
      /\ \A y : Alone(called, y) /\ (y = e => ~Has(called, e)) => Alone(called2, y)
  BY <1>2, AppendIs
<1> HIDE DEF called2
<1>7. ASSUME NEW i \in 1..Len(new), i <= c PROVE Has(called2, new[i])
  <2>1. i \in 1..(Len(list) - 1) /\ i \in 1..Len(list) /\ i + 1 \in 1..Len(list) /\ (i + 1 <= c \/ i + 1 = c + 1)
    BY <1>1, <1>4, <1>7
  <2>2. new[i] = list[i] \/ new[i] = list[i + 1]
    BY <1>4, <2>1
  <2>3. Has(called2, list[i]) /\ Has(called2, list[i + 1])
    BY <1>2, <1>6, <1>7, <2>1
  <2> QED
    BY <2>2, <2>3
<1>8. ASSUME NEW i \in 1..Len(new), i > c, new[i].m # "joinmsg" PROVE ~Has(called2, new[i])
  <2>1. i \in 1..(Len(list) - 1) /\ i + 1 \in 1..Len(list) /\ i + 1 > c /\ i + 1 # c + 1 /\ ~(i < k)
    BY <1>1, <1>4, <1>5, <1>8
  <2>2. new[i] = list[i + 1]
    BY <1>4, <2>1
  <2>3. Alone(list, list[i + 1])
    BY <1>8, <2>2
  <2>4. list[i + 1] # e
    BY <1>1, <1>2, <2>1, <2>3 DEF Alone
  <2> QED
    BY <1>6, <1>8, <2>1, <2>2, <2>4
<1>9. ASSUME NEW x, x.m # "joinmsg" PROVE Alone(called2, x)
  <2>1. c + 1 > c
    OBVIOUS
  <2>2. x = e => ~Has(called, e)
    BY <1>2, <1>9, <2>1
  <2> QED
    BY <1>6, <1>9, <2>2
<1> QED
  BY <1>5, <1>6, <1>7, <1>8, <1>9 DEF e, new, called2, k, StillWalks

\* A worker is taken out of the list, and its module has nothing going on for the server.
LEMMA FitDone ==
  ASSUME NEW list \in Seq(Element), NEW s, NEW es, NEW es2, NEW ms \in Seq(Loaded), NEW lo,
         NEW mod \in Loaded, Has(ms, mod), Distinct(ms, lo), Fit(list, "works", s, es, ms, lo),
         \A m \in Mods : m # mod.m => es2[m] = es[m], ~Busy(es2[mod.m], s)
  PROVE  /\ Del(list, Bare(mod)) \in Seq(Element)
         /\ Fit(Del(list, Bare(mod)), "works", s, es2, ms, lo)
<1> DEFINE new == Del(list, Bare(mod))
<1>1. new \in Seq(Element) /\ Thinned(new, list, Bare(mod))
  BY DelThins
<1> HIDE DEF new
<1>2. CallsOK(list, "works", s, es, ms) /\ Whose(list, ms, lo) /\ "works" # "vars"
  BY DEF Fit, Hooks
<1>3. Whose(new, ms, lo)
  BY <1>1, <1>2 DEF Whose, Thinned
<1>4. ASSUME NEW mod2 \in Loaded, Has(ms, mod2), mod2.m # "joinmsg"
      PROVE  Has(new, Bare(mod2)) <=> Asked(es2[mod2.m], mod2, s, "works")
  <2>1. CASE mod2.m = mod.m
    <3>1. mod2 = mod
      BY <1>4, <2>1 DEF Distinct
    <3>2. Bare(mod).m # "joinmsg"
      BY <1>4, <3>1, OfIn
    <3>3. ~Has(new, Bare(mod))
      BY <1>1, <1>2, <3>2 DEF CallsOK, Thinned
    <3> QED
      BY <3>1, <3>3 DEF Asked
  <2>2. CASE mod2.m # mod.m
    <3>1. Bare(mod2) # Bare(mod) /\ mod2.m \in Mods
      BY <2>2, OfIn
    <3>2. Has(new, Bare(mod2)) <=> Has(list, Bare(mod2))
      BY <1>1, <3>1 DEF Thinned
    <3>3. Has(list, Bare(mod2)) <=> Asked(es[mod2.m], mod2, s, "works")
      BY <1>2, <1>4 DEF CallsOK
    <3> QED
      BY <2>2, <3>1, <3>2, <3>3
  <2> QED
    BY <2>1, <2>2
<1>5. CallsOK(new, "works", s, es2, ms)
  <2>1. /\ \A x : Has(new, x) => x.name = ""
        /\ \A x : x.m # "joinmsg" => Alone(new, x)
    BY <1>1, <1>2 DEF CallsOK, Thinned
  <2> QED
    BY <1>4, <2>1 DEF CallsOK
<1> QED
  BY <1>1, <1>2, <1>3, <1>5 DEF Fit, new

\* A worker that is done.
LEMMA CallDoneKeeps == ASSUME MInv, CallDone PROVE MInv'
<1> DEFINE list == lists[walk.s][walk.list]
           c    == walk.current
           e    == Next1
           called == walk.called
           s    == walk.s
           n    == EntryOf(e.m, s)
           es2  == IF n = 0 THEN entries ELSE [entries EXCEPT ![e.m] = Used(entries[e.m], n, FALSE)]
           new  == Del(list, e)
           called2 == Append(called, e)
<1>1. /\ More /\ walk.list = "works" /\ IsIn(e, modules)
      /\ UNCHANGED <<conf, server_num, modules, loads, status>>
  BY DEF CallDone
<1>2. /\ walk \in Walk /\ walk # NULL /\ s \in 1..server_num /\ walk.list \in Hooks
      /\ c \in Nat /\ called \in Seq(Element)
      /\ list \in Seq(Element) /\ DOMAIN list = 1..Len(list) /\ Len(list) \in Nat
      /\ c + 1 \in 1..Len(list) /\ e = list[c + 1] /\ e \in Element
      /\ CallsOK(list, walk.list, s, entries, modules)
      /\ \A i \in 1..Len(list) : i <= c => Has(called, list[i])
      /\ \A i \in 1..Len(list) : i > c /\ list[i].m # "joinmsg" => ~Has(called, list[i])
      /\ \A x : x.m # "joinmsg" => Alone(called, x)
  BY <1>1, MoreIs
<1>3. /\ lists' = PutList(lists, s, "works", new) /\ entries' = es2
      /\ walk' = AfterDel(Walked, Found(list, e))
  BY <1>1 DEF CallDone, PutList, Found, Used
<1>4. PICK mod \in Loaded : Has(modules, mod) /\ mod.m = e.m /\ mod.load = e.load
  BY <1>1, InvIs, IsInIs
<1>5. mod.m \in Mods /\ e = Bare(mod)
  <2>1. Has(list, e)
    BY <1>2 DEF Has
  <2>2. e.name = ""
    BY <1>2, <2>1 DEF CallsOK
  <2> QED
    BY <1>2, <1>4, <2>2, ElementIs DEF Loaded
<1>6. /\ es2 \in [Mods -> Seq(EntryIn(server_num))] /\ ~Busy(es2[mod.m], s)
      /\ \A m \in Mods : m # mod.m => es2[m] = entries[m]
      /\ \A m \in Mods : /\ NewestBusy(es2[m]) /\ (entries[m] = << >> => es2[m] = << >>)
                         /\ \A t : Known(es2[m], t) <=> Known(entries[m], t)
                         /\ \A t : t # s => (Busy(es2[m], t) <=> Busy(entries[m], t))
  <2> DEFINE es == entries[e.m]
             no == FALSE
  <2>1. es \in Seq(EntryIn(server_num)) /\ entries \in [Mods -> Seq(EntryIn(server_num))] /\ e.m \in Mods
    BY <1>4, <1>5, InvIs
  <2>2. Tidy(entries, modules) /\ NewestBusy(es)
    BY <2>1, InvIs DEF Sound, Tidy
  <2>3. \/ n = 0 /\ \A i \in 1..Len(es) : es[i].s # s
        \/ n \in 1..Len(es) /\ es[n].s = s /\ \A j \in 1..Len(es) : es[j].s = s => n <= j
    BY <2>1, EntryOfIs
  <2> HIDE DEF n, e
  <2>4. CASE n = 0 /\ \A i \in 1..Len(es) : es[i].s # s
    <3>1. es2 = entries
      BY <2>4
    <3> HIDE DEF es2, es
    <3>2. ~Known(es, s) /\ ~Busy(es, s)
      <4>1. DOMAIN es = 1..Len(es)
        BY <2>1, PlacesIs
      <4> QED
        BY <2>1, <2>4, <4>1, KnownIs
    <3> QED
      BY <1>4, <2>1, <2>2, <3>1, <3>2 DEF Tidy, es
  <2>5. CASE n \in 1..Len(es) /\ es[n].s = s /\ \A j \in 1..Len(es) : es[j].s = s => n <= j
    <3>1. n # 0 /\ es # << >>
      BY <2>5
    <3>2. es2 = [entries EXCEPT ![e.m] = Used(es, n, no)]
      BY <3>1
    <3>3. no \in BOOLEAN /\ ~no
      OBVIOUS
    <3> HIDE DEF es2, es, no
    <3>4. /\ Used(es, n, no) \in Seq(EntryIn(server_num)) /\ NewestBusy(Used(es, n, no))
          /\ \A t : Known(Used(es, n, no), t) <=> Known(es, t)
          /\ \A t : t # s => (Busy(Used(es, n, no), t) <=> Busy(es, t))
          /\ Busy(Used(es, n, no), s) <=> no
      BY <2>1, <2>2, <2>5, <3>3, UsedIs
    <3>5. /\ es2 \in [Mods -> Seq(EntryIn(server_num))] /\ es2[e.m] = Used(es, n, no)
          /\ \A m \in Mods : m # e.m => es2[m] = entries[m]
      BY <2>1, <3>2, <3>4
    <3> QED
      BY <1>4, <2>1, <2>2, <3>1, <3>3, <3>4, <3>5 DEF Tidy, es
  <2> QED
    BY <2>3, <2>4, <2>5
<1> HIDE DEF es2, n
<1>7. new \in Seq(Element) /\ Fit(new, "works", s, es2, modules, loads)
  <2>1. /\ Fit(list, "works", s, entries, modules, loads) /\ modules \in Seq(Loaded) /\ Distinct(modules, loads)
    <3>1. "works" \in Lists
      BY DEF Lists, Hooks
    <3> QED
      BY <1>1, <1>2, <3>1, InvIs
  <2>2. list \in Seq(Element) /\ \A m \in Mods : m # mod.m => es2[m] = entries[m]
    BY <1>2, <1>6
  <2>3. ~Busy(es2[mod.m], s) /\ Has(modules, mod)
    BY <1>4, <1>6
  <2> HIDE DEF list, e, s
  <2>4. /\ Del(list, Bare(mod)) \in Seq(Element)
        /\ Fit(Del(list, Bare(mod)), "works", s, es2, modules, loads)
    BY <2>1, <2>2, <2>3, FitDone
  <2> QED
    BY <1>5, <2>4
<1>8. /\ PutList(lists, s, "works", new) \in ListsIn(server_num)
      /\ Sound(PutList(lists, s, "works", new), es2, modules, loads, server_num)
  <2> HIDE DEF new, s
  <2> QED
    BY <1>2, <1>6, <1>7, InvIs, BothKeep
<1>9. /\ Found(list, e) \in 1..(c + 1) /\ c <= Len(new) /\ Len(new) \in Nat
      /\ DOMAIN new = 1..Len(new) /\ called2 \in Seq(Element)
      /\ \A i \in 1..Len(new) : i <= c => Has(called2, new[i])
      /\ \A i \in 1..Len(new) : i > c /\ new[i].m # "joinmsg" => ~Has(called2, new[i])
      /\ \A x : x.m # "joinmsg" => Alone(called2, x)
  <2>1. \A x : x.m # "joinmsg" => Alone(list, x)
    BY <1>2 DEF CallsOK
  <2> DEFINE e1 == list[c + 1]
  <2>2. e = e1
    BY <1>2
  <2>4. /\ list \in Seq(Element) /\ c \in Nat /\ c + 1 \in 1..Len(list) /\ called \in Seq(Element)
        /\ \A i \in 1..Len(list) : i <= c => Has(called, list[i])
        /\ \A i \in 1..Len(list) : i > c /\ list[i].m # "joinmsg" => ~Has(called, list[i])
        /\ \A x : x.m # "joinmsg" => Alone(called, x)
    BY <1>2
  <2> HIDE DEF list, c, called, e
  <2>3. StillWalks(list, c, called, list[c + 1])
    BY <2>1, <2>4, WalkDone
  <2> QED
    BY <2>2, <2>3 DEF StillWalks
<1> HIDE DEF new, called2
<1>10. /\ walk' \in Walk /\ walk'.s = s /\ walk'.list = "works" /\ walk'.current = c
       /\ walk'.called = called2
  <2> DEFINE k == Found(list, e)
             w == Goes(walk, c + 1, called2)
  <2>1. Walked = w
    BY DEF Walked, Goes, called2
  <2>2. k \in 1..(c + 1)
    BY <1>9
  <2> HIDE DEF k
  <2>3. walk' = [w EXCEPT !.current = IF w.current >= k THEN w.current - 1 ELSE w.current]
    BY <1>3, <2>1 DEF AfterDel, k
  <2>4. w \in Walk /\ w.s = s /\ w.list = "works" /\ w.current = c + 1 /\ w.called = called2
    <3>1. c + 1 \in Nat
      BY <1>2
    <3>2. walk \in Walk /\ called2 \in Seq(Element)
      BY <1>2, <1>9
    <3> HIDE DEF c
    <3>3. w \in Walk /\ w.s = walk.s /\ w.list = walk.list /\ w.current = c + 1 /\ w.called = called2
      BY <3>1, <3>2, WalkIs
    <3> QED
      BY <1>1, <3>3
  <2> HIDE DEF w
  <2>5. (IF w.current >= k THEN w.current - 1 ELSE w.current) = c
    BY <1>2, <2>2, <2>4
  <2>6. walk' = At(w, c)
    BY <2>3, <2>5 DEF At
  <2>7. c \in Nat
    BY <1>2
  <2> HIDE DEF c
  <2> QED
    BY <2>4, <2>6, <2>7, AtIs
<1>11. lists'[walk'.s][walk'.list] = new
  <2>1. "works" \in Lists
    BY DEF Lists, Hooks
  <2>2. lists \in ListsIn(server_num)
    BY InvIs
  <2> HIDE DEF s
  <2>3. new \in Seq(Element) /\ s \in 1..server_num
    BY <1>2, <1>7
  <2>4. PutList(lists, s, "works", new)[s]["works"] = new
    BY <2>1, <2>2, <2>3, PutIs
  <2> QED
    BY <1>3, <1>10, <2>4
<1>12. Walking'
  BY <1>2, <1>9, <1>10, <1>11 DEF Walking
<1>13. walk' \in Walk /\ walk'.current <= Len(lists'[walk'.s][walk'.list])
  BY <1>9, <1>10, <1>11
<1> QED
  BY <1>1, <1>3, <1>6, <1>8, <1>12, <1>13, InvIs, InvAgain

-----------------------------------------------------------------------------
(* The theorems.                                                              *)

\* Every step keeps the invariant.
LEMMA StepKeeps == MInv /\ [Next]_vars => MInv'
<1> SUFFICES ASSUME MInv, [Next]_vars PROVE MInv'
  OBVIOUS
<1>1. ASSUME NEW m \in Mods, ModAdd(m) PROVE MInv'
  BY <1>1, ModAddKeeps
<1>2. ASSUME NEW m \in Mods, NEW n \in 1..loads, ModDel([m |-> m, load |-> n]) PROVE MInv'
  BY <1>2, ModDelKeeps
<1>3. ASSUME NEW file \in Files \cup {<<>>}, LoadConf(file) PROVE MInv'
  BY <1>3, LoadConfKeeps
<1>4. ASSUME NEW s \in Servers, NEW name \in Names, Unbind(s, name) PROVE MInv'
  BY <1>4, UnbindKeeps
<1>5. ASSUME NEW s \in Servers, NEW name \in Names, Set(s, name) PROVE MInv'
  BY <1>5, SetKeeps
<1>6. ASSUME NEW s \in Servers, NEW name \in Names, Command(s, name) PROVE MInv'
  BY <1>6, CommandKeeps
<1>7. ASSUME NEW s \in Servers, NEW l \in Hooks, Begin(s, l) PROVE MInv'
  BY <1>7, BeginKeeps
<1>8. CASE Call
  BY <1>8, CallKeeps
<1>9. CASE CallDone
  BY <1>9, CallDoneKeeps
<1>10. CASE End
  BY <1>10, EndKeeps
<1>11. CASE UNCHANGED vars
  BY <1>11 DEF vars, MInv, TypeOK, Walking, Servers, Walk, Entry
<1> QED
  BY <1>1, <1>2, <1>3, <1>4, <1>5, <1>6, <1>7, <1>8, <1>9, <1>10, <1>11 DEF Next

\* The invariant holds of the program.
LEMMA AlwaysSound == Spec => []MInv
  BY InitKeeps, StepKeeps, PTL DEF Spec

\* What is once in a list is there as often as it is there.
LEMMA TimesIs ==
  ASSUME NEW S, NEW list \in Seq(S), NEW e, Alone(list, e)
  PROVE  Cardinality({i \in DOMAIN list : list[i] = e}) = IF Has(list, e) THEN 1 ELSE 0
<1> DEFINE I == {i \in DOMAIN list : list[i] = e}
<1>1. CASE Has(list, e)
  <2>1. PICK i \in DOMAIN list : list[i] = e
    BY <1>1 DEF Has
  <2>2. I = {i}
    BY <2>1 DEF Alone
  <2> HIDE DEF I
  <2>3. Cardinality(I) = 1
    BY <2>2, FS_Singleton
  <2> QED
    BY <1>1, <2>3 DEF I
<1>2. CASE ~Has(list, e)
  <2>1. I = {}
    BY <1>2 DEF Has
  <2> HIDE DEF I
  <2>2. Cardinality(I) = 0
    BY <2>1, FS_EmptySet
  <2> QED
    BY <1>2, <2>2 DEF I
<1> QED
  BY <1>1, <1>2

\* A walk calls each function once, and in the end all of them.
LEMMA InvOnce == MInv => EachOnce
<1> SUFFICES ASSUME MInv, walk # NULL PROVE EachOnce
  BY DEF EachOnce
<1> DEFINE list == lists[walk.s][walk.list]
<1>1. walk \in Walk /\ walk.called \in Seq(Element) /\ list \in Seq(Element) /\ walk.current \in Nat
  <2>1. walk \in Walk
    BY DEF MInv, TypeOK
  <2>2. walk.s \in Servers /\ walk.list \in Lists /\ walk.called \in Seq(Element) /\ walk.current \in Nat
    BY <2>1 DEF Walk, Lists
  <2> QED
    BY <2>1, <2>2, InvIs
<1>2. /\ \A i \in DOMAIN list : i <= walk.current => Has(walk.called, list[i])
      /\ \A x : x.m # "joinmsg" => Alone(walk.called, x)
  BY DEF MInv, Walking
<1>3. ASSUME NEW i \in DOMAIN walk.called, NEW j \in DOMAIN walk.called, walk.called[i] = walk.called[j],
             walk.called[i].m # "joinmsg"
      PROVE  i = j
  <2>1. Alone(walk.called, walk.called[i])
    BY <1>2, <1>3
  <2> QED
    BY <1>3, <2>1 DEF Alone
<1>4. ASSUME walk.current = Len(list) PROVE ToSet(list) \subseteq ToSet(walk.called)
  <2>1. \A i \in DOMAIN list : i <= walk.current
    BY <1>1, <1>4, PlacesIs
  <2> HIDE DEF list
  <2> QED
    BY <1>2, <2>1 DEF ToSet, Has
<1> QED
  BY <1>3, <1>4 DEF EachOnce

\* What is to be called of a module, and its variable.
LEMMA InvComplete ==
  ASSUME MInv, NEW mod \in ToSet(modules), NEW s \in Servers, mod.m \notin Careless
  PROVE  /\ \A l \in Hooks : Times(s, l, Bare(mod)) = IF Asked(entries[mod.m], mod, s, l) THEN 1 ELSE 0
         /\ Known(entries[mod.m], s) /\ HasVar(mod.m) => Times(s, "vars", Of(mod, Does[mod.m].var)) = 1
<1>1. mod \in Loaded /\ Has(modules, mod) /\ mod.m # "joinmsg"
  <2>1. modules \in Seq(Loaded)
    BY InvIs
  <2>2. DOMAIN modules = 1..Len(modules) /\ \A i \in 1..Len(modules) : modules[i] \in Loaded
    BY <2>1, PlacesIs
  <2> QED
    BY <2>2 DEF ToSet, Has, Careless
<1>2. ASSUME NEW l \in Hooks
      PROVE  Times(s, l, Bare(mod)) = IF Asked(entries[mod.m], mod, s, l) THEN 1 ELSE 0
  <2> DEFINE list == lists[s][l]
  <2>1. l \in Lists
    BY DEF Lists
  <2>2. list \in Seq(Element) /\ CallsOK(list, l, s, entries, modules)
    BY <2>1, InvIs DEF Fit
  <2>3. Times(s, l, Bare(mod)) = Cardinality({i \in DOMAIN list : list[i] = Bare(mod)})
    BY DEF Times
  <2> HIDE DEF list
  <2>4. Has(list, Bare(mod)) <=> Asked(entries[mod.m], mod, s, l)
    BY <1>1, <2>2 DEF CallsOK
  <2>5. Alone(list, Bare(mod))
    BY <1>1, <2>2, OfIn DEF CallsOK
  <2> QED
    BY <2>2, <2>3, <2>4, <2>5, TimesIs
<1>3. ASSUME Known(entries[mod.m], s), HasVar(mod.m)
      PROVE  Times(s, "vars", Of(mod, Does[mod.m].var)) = 1
  <2> DEFINE list == lists[s]["vars"]
             e    == Of(mod, Does[mod.m].var)
  <2>1. "vars" \in Lists
    BY DEF Lists
  <2>2. list \in Seq(Element) /\ VarsOK(list, s, entries, modules)
    BY <2>1, InvIs DEF Fit
  <2>3. Times(s, "vars", e) = Cardinality({i \in DOMAIN list : list[i] = e})
    BY DEF Times
  <2> HIDE DEF list
  <2>4. Has(list, e)
    BY <1>1, <1>3, <2>2 DEF VarsOK
  <2> HIDE DEF e
  <2>5. Alone(list, e)
    BY <2>2 DEF VarsOK, NamesApart, Alone
  <2> QED
    BY <2>2, <2>3, <2>4, <2>5, TimesIs DEF e
<1> QED
  BY <1>2, <1>3

\* The lists, the entries, the modules and the walk are of their types, and the place of a
\* walk is never past the end of its list: List::next and List::del, whoever deletes.
THEOREM TypeCorrect == Spec => []TypeOK
<1>1. MInv => TypeOK
  BY DEF MInv
<1> QED
  BY <1>1, AlwaysSound, PTL

\* Nothing in the lists of a server, which Script and NetServer call, belongs to a module that
\* has been taken out, but for the careless ones: what !moddel leaves behind.
THEOREM ListsBelong == Spec => []HooksBelong
<1>1. ASSUME MInv PROVE HooksBelong
  <2>1. ASSUME NEW s \in Servers, NEW l \in Lists, NEW e \in ToSet(lists[s][l])
        PROVE  IsIn(e, modules) \/ e.m \in Careless
    <3>1. Has(lists[s][l], e)
      BY DEF ToSet, Has
    <3>2. Whose(lists[s][l], modules, loads)
      BY <1>1, InvIs DEF Fit
    <3> QED
      BY <3>1, <3>2 DEF Whose
  <2> QED
    BY <2>1 DEF HooksBelong
<1>2. MInv => HooksBelong
  BY <1>1
<1> QED
  BY <1>2, AlwaysSound, PTL

\* And a module that is loaded is called once from each list it asked for, has its variable,
\* and a worker exactly while a request goes on; a walk calls each function once.
THEOREM ListsComplete == Spec => []HooksComplete
<1>1. ASSUME MInv PROVE HooksComplete
  <2>1. ASSUME NEW mod \in ToSet(modules), NEW s \in Servers, mod.m \notin Careless
        PROVE  LET d     == Does[mod.m]
                   known == Known(entries[mod.m], s)
                   busy  == \E e \in ToSet(entries[mod.m]) : e.s = s /\ e.in_use
               IN /\ \A l \in Hooks \ {"works"} :
                       Times(s, l, Bare(mod)) = IF known /\ l \in d.hooks THEN 1 ELSE 0
                  /\ Times(s, "works", Bare(mod)) = IF busy THEN 1 ELSE 0
                  /\ known /\ d.var # "" => Times(s, "vars", Of(mod, d.var)) = 1
    <3>1. /\ \A l \in Hooks : Times(s, l, Bare(mod)) = IF Asked(entries[mod.m], mod, s, l) THEN 1 ELSE 0
          /\ Known(entries[mod.m], s) /\ HasVar(mod.m) => Times(s, "vars", Of(mod, Does[mod.m].var)) = 1
      BY <1>1, <2>1, InvComplete
    <3>2. \A l \in Hooks \ {"works"} :
            Asked(entries[mod.m], mod, s, l) <=> Known(entries[mod.m], s) /\ l \in Does[mod.m].hooks
      BY DEF Asked
    <3>3. Asked(entries[mod.m], mod, s, "works") <=> \E e \in ToSet(entries[mod.m]) : e.s = s /\ e.in_use
      BY DEF Asked, Busy
    <3>4. "works" \in Hooks
      BY DEF Hooks
    <3>5. Does[mod.m].var # "" <=> HasVar(mod.m)
      BY DEF HasVar
    <3> QED
      BY <3>1, <3>2, <3>3, <3>4, <3>5
  <2>2. EachOnce
    BY <1>1, InvOnce
  <2> QED
    BY <2>1, <2>2 DEF HooksComplete
<1>2. MInv => HooksComplete
  BY <1>1
<1> QED
  BY <1>2, AlwaysSound, PTL

-----------------------------------------------------------------------------
(* What a step leaves to others.                                              *)

\* x is in the set of what is in a list if the list has it.
LEMMA ToSetIs == \A list, x : x \in ToSet(list) <=> Has(list, x)
  BY DEF ToSet, Has

\* A module that comes or goes, and what others have in the lists.
Untouched ==
  \A mod \in (ToSet(modules) \ ToSet(modules')) \cup (ToSet(modules') \ ToSet(modules)) :
    OthersStay(lists', lists, mod, server_num)

\* !modadd reads the configuration for the module that it loads.
LEMMA AddLeaves == ASSUME MInv, NEW m \in Mods, ModAdd(m) PROVE Untouched
<1> DEFINE mod == [m |-> m, load |-> loads + 1]
           r   == read_conf(mod)
<1>1. lists' = r.lists /\ modules' = r.modules /\ \A i \in DOMAIN modules : modules[i].m # m
  BY DEF ModAdd
<1>2. modules \in Seq(Loaded) /\ loads \in Nat
  BY InvIs
<1>3. mod \in Loaded /\ mod.load = loads + 1 /\ mod.m = m
  BY <1>2 DEF Loaded
<1> HIDE DEF mod
<1>4. \A mod2 \in Loaded : Has(modules, mod2) => mod2.m # mod.m
  BY <1>1, <1>3 DEF Has
<1>5. r.modules = Add(modules, mod) /\ OthersStay(r.lists, lists, mod, server_num)
  BY <1>3, <1>4, ReadConfKeeps
<1> HIDE DEF r
<1>6. \A x : Has(modules', x) <=> x = mod \/ Has(modules, x)
  BY <1>1, <1>2, <1>3, <1>5, AddHas
<1> QED
  BY <1>1, <1>5, <1>6, ToSetIs DEF Untouched

\* !moddel takes out what is of the module, and nothing else.
LEMMA DelLeaves ==
  ASSUME MInv, NEW m \in Mods, NEW load \in 1..loads, ModDel([m |-> m, load |-> load])
  PROVE  Untouched
<1> DEFINE mod == [m |-> m, load |-> load]
           ls  == Stopped(mod)
           new == unbind_all(ls, mod)
<1>1. lists' = new /\ modules' = Del(modules, mod) /\ Contains(modules, mod)
  BY DEF ModDel
<1>2. /\ lists \in ListsIn(server_num) /\ entries \in [Mods -> Seq(EntryIn(server_num))]
      /\ modules \in Seq(Loaded) /\ server_num \in Nat /\ loads \in Nat
      /\ Sound(lists, entries, modules, loads, server_num) /\ Distinct(modules, loads)
      /\ Servers = 1..server_num
  BY InvIs
<1>3. mod \in Loaded
  BY <1>2 DEF Loaded
<1> HIDE DEF mod
<1>4. Has(modules, mod)
  BY <1>1, <1>2 DEF Contains, Has
<1>5. ls \in ListsIn(server_num) /\ During(ls, lists, mod, server_num)
  BY <1>2, <1>3, <1>4, StoppedIs
<1> HIDE DEF ls
<1>6. \A s \in Servers, l \in Lists : new[s][l] = IF l = "cmds" THEN Others(ls[s][l], mod) ELSE ls[s][l]
  BY <1>5, UnboundIs
<1> HIDE DEF new
<1>7. ASSUME NEW s \in 1..server_num, NEW l \in Lists
      PROVE  Others(new[s][l], mod) = Others(lists[s][l], mod)
  <2>1. ls[s][l] \in Seq(Element) /\ Others(ls[s][l], mod) = Others(lists[s][l], mod)
    BY <1>5 DEF ListsIn, During, Left
  <2>2. Others(Others(ls[s][l], mod), mod) = Others(ls[s][l], mod)
    BY <2>1, OthersTwice
  <2> QED
    BY <1>2, <1>6, <2>1, <2>2
<1>8. \A mod2 \in Loaded : Has(modules', mod2) <=> Has(modules, mod2) /\ mod2 # mod
  BY <1>1, <1>2, <1>3, ModulesLeft
<1>9. \A x : Has(modules, x) \/ Has(modules', x) => x \in Loaded
  <2>1. modules' \in Seq(Loaded)
    BY <1>1, <1>2, <1>3, ModulesLeft
  <2> QED
    BY <1>2, <2>1, HasIn
<1>10. OthersStay(lists', lists, mod, server_num)
  BY <1>1, <1>7 DEF OthersStay
<1> QED
  BY <1>8, <1>9, <1>10, ToSetIs DEF Untouched

\* OwnOnly: loading a module (Module::conf, for each line) or taking one out (its stop, and
\* Module::~Module) leaves what all the others have in the lists as it is, in its order.
THEOREM OthersKeepTheirs == Spec => OwnOnly
<1>1. ASSUME MInv, [Next]_vars
      PROVE  [\A mod \in (ToSet(modules) \ ToSet(modules')) \cup (ToSet(modules') \ ToSet(modules)) :
                \A s \in Servers, l \in Lists : Others(lists'[s][l], mod) = Others(lists[s][l], mod)]_vars
  <2>1. ASSUME NEW m \in Mods, ModAdd(m) PROVE Untouched
    BY <1>1, <2>1, AddLeaves
  <2>2. ASSUME NEW m \in Mods, NEW n \in 1..loads, ModDel([m |-> m, load |-> n]) PROVE Untouched
    BY <1>1, <2>2, DelLeaves
  <2>3. ASSUME modules' = modules PROVE Untouched
    BY <2>3 DEF Untouched
  <2>4. \/ Untouched
        \/ UNCHANGED vars
    BY <1>1, <2>1, <2>2, <2>3
       DEF Next, LoadConf, Unbind, Set, Command, Begin, Call, CallDone, End
  <2>5. Servers = 1..server_num
    BY DEF Servers
  <2> QED
    BY <2>4, <2>5 DEF Untouched, OthersStay
<1> QED
  BY <1>1, AlwaysSound, PTL DEF Spec, OwnOnly

==============================================================================
