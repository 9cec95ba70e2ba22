--------------------------- MODULE UserAccessProofs ---------------------------
(***************************************************************************)
(* Proofs about the registered users, for every list of users and masks,   *)
(* whatever fits what, every number of changes and of crashes: the users   *)
(* of the highest level stay, a level above 1 was earned by a password,    *)
(* and the file has what is in memory, also after a crash.                 *)
(*                                                                         *)
(* The owners: nobody's level is above the highest, so nobody outranks an  *)
(* owner, and nobody gives a level that is not below his own.  The list in *)
(* the file has to be part of the invariant, for it is what a crash leaves;*)
(* it may lose its end, but gains nobody.                                  *)
(*                                                                         *)
(* The access: every entry that is identified, whether it is the first for *)
(* its person or not, is so for one who earned it or who slipped.          *)
(*                                                                         *)
(* The file: identification and its end leave the lines of a list as they  *)
(* are, everything else that changes the list saves it, and a start turns  *)
(* the lines around without losing any, as long as it has to read no mask  *)
(* that the file can not hold.                                             *)
(***************************************************************************)
EXTENDS UserAccess, SequenceLemmas, FiniteSetTheorems

LineT == [mask : Masks, pass : Passwords, level : Int]
UserT == [mask : Masks, pass : Passwords, level : Int, id : BOOLEAN,
          cur_mask : Full \cup {NULL}]

\* No level in a list is above the highest; and the file can hold its masks.
Bounded(list) == \A i \in DOMAIN list : list[i].level <= LEVEL_MAX
Plain(list)   == \A i \in DOMAIN list : ~Odd(list[i].mask)

\* A list has the owners of the first file, or, once torn, some of them.
Keeps(list, cut) ==
  /\ Owners(list) \subseteq Owners(file_users)
  /\ cut \/ Owners(list) = Owners(file_users)

TypeInv ==
  /\ users \in Seq(UserT) /\ file.lines \in Seq(LineT) /\ file.rest \in LineT \cup {NULL}

\* As long as no mask was given that the file can not hold.
OwnersInv ==
  ~odd => /\ Bounded(users) /\ Plain(users) /\ Bounded(file.lines) /\ Plain(file.lines)
          /\ file.rest # NULL => ~Odd(file.rest.mask)
          /\ Keeps(file.lines, torn)
          /\ status = "runs" => Keeps(users, torn)

\* Every entry that is identified is so for somebody who has earned it.
AccessInv ==
  /\ earned \in [Full -> BOOLEAN]
  /\ \A i \in DOMAIN users :
       users[i].id => \E f \in Full : /\ users[i].cur_mask = f
                                      /\ earned[f] \/ f \in slipped

\* Two lists have the same lines, in whatever order.
Alike(lines, ls) == \A l : Often(lines, l) = Often(ls, l)

\* What a crash leaves is of what there was.
FileInv ==
  ~odd => /\ status = "runs" /\ saved = "whole" =>
               file.rest = NULL /\ Alike(file.lines, Lines(users))
          /\ status = "killed" => users = <<>> /\ ToSet(file.lines) \subseteq before

\* new identifies nobody that us does not.
Older(new, us) ==
  \A i \in DOMAIN new :
    new[i].id => \E j \in DOMAIN us : us[j].id /\ us[j].cur_mask = new[i].cur_mask

\* A command saves a list that identifies nobody, and has the same owners.
Saves ==
  \E us \in Seq(UserT) :
    /\ status = "runs" /\ save_users(us) /\ Older(us, users)
    /\ Bounded(users) => Bounded(us) /\ Owners(us) = Owners(users)

\* A step that changes identifications at most, and is neither crash nor start.
KeepsLines ==
  /\ status = "runs" /\ users' \in Seq(UserT) /\ Lines(users') = Lines(users)
  /\ UNCHANGED <<file, status, torn, saved, before, odd>>

-----------------------------------------------------------------------------
(* Lists of users and lines. *)

\* The owners of a list, one by one.
LEMMA OwnersOf ==
  ASSUME NEW list, NEW m
  PROVE  m \in Owners(list) <=>
           \E i \in DOMAIN list : list[i].level = LEVEL_MAX /\ list[i].mask = m
  BY DEF Owners, ToSet

\* The first of a set of numbers is in it, if there is one.
LEMMA FirstIsIn ==
  ASSUME NEW I
  PROVE  FirstOf(I) # 0 => FirstOf(I) \in I
  BY DEF FirstOf

\* What the lookups find is in the list.
LEMMA Found ==
  ASSUME NEW us, NEW x
  PROVE  /\ match_mask2user(us, x) # 0 => match_mask2user(us, x) \in DOMAIN us
         /\ abs_mask2user(us, x) # 0 => abs_mask2user(us, x) \in DOMAIN us
<1>1. match_mask2user(us, x) # 0 => match_mask2user(us, x) \in DOMAIN us
  BY FirstIsIn DEF match_mask2user
<1>2. abs_mask2user(us, x) # 0 => abs_mask2user(us, x) \in DOMAIN us
  BY FirstIsIn DEF abs_mask2user
<1> QED
  BY <1>1, <1>2

\* A level is a number, and nobody's is above the highest.
LEMMA LevelIsBounded ==
  ASSUME NEW us \in Seq(UserT), NEW x
  PROVE  /\ match_mask_level(us, x) \in Int
         /\ Bounded(us) => match_mask_level(us, x) <= LEVEL_MAX
<1> DEFINE i == match_mask2user(us, x)
<1>1. LEVEL_MAX \in Int /\ 1 < LEVEL_MAX
  BY UsersAssumption
<1>2. i # 0 => i \in DOMAIN us
  BY Found
<1> HIDE DEF i
<1>3. i # 0 => us[i].level \in Int /\ (Bounded(us) => us[i].level <= LEVEL_MAX)
  <2>1. i # 0 => us[i] \in UserT
    BY <1>2
  <2> QED
    BY <1>2, <2>1 DEF UserT, Bounded
<1> QED
  BY <1>1, <1>3 DEF match_mask_level, i

\* An entry may be replaced by one that is as little an owner, or the same one.
LEMMA ReplaceKeeps ==
  ASSUME NEW us \in Seq(UserT), NEW i \in DOMAIN us, NEW u \in UserT,
         u.id <=> us[i].id, u.cur_mask = us[i].cur_mask
  PROVE  /\ [us EXCEPT ![i] = u] \in Seq(UserT)
         /\ Older([us EXCEPT ![i] = u], us)
         /\ /\ u.level = LEVEL_MAX <=> us[i].level = LEVEL_MAX
            /\ us[i].level = LEVEL_MAX => u.mask = us[i].mask
            => Owners([us EXCEPT ![i] = u]) = Owners(us)
         /\ Bounded(us) /\ u.level <= LEVEL_MAX => Bounded([us EXCEPT ![i] = u])
<1> DEFINE new == [us EXCEPT ![i] = u]
<1>1. new \in Seq(UserT) /\ DOMAIN new = DOMAIN us
  OBVIOUS
<1>2. \A j \in DOMAIN us : new[j] = IF j = i THEN u ELSE us[j]
  OBVIOUS
<1> HIDE DEF new
<1>3. ASSUME u.level = LEVEL_MAX <=> us[i].level = LEVEL_MAX,
             us[i].level = LEVEL_MAX => u.mask = us[i].mask
      PROVE  Owners(new) = Owners(us)
  <2>1. ASSUME NEW m
        PROVE  m \in Owners(new) <=> m \in Owners(us)
    BY <1>1, <1>2, <1>3, OwnersOf
  <2> QED
    BY <2>1 DEF Owners
<1>4. Older(new, us)
  BY <1>1, <1>2 DEF Older
<1>5. Bounded(us) /\ u.level <= LEVEL_MAX => Bounded(new)
  BY <1>1, <1>2 DEF Bounded
<1> QED
  BY <1>1, <1>3, <1>4, <1>5 DEF new

\* What is in a list.
LEMMA Element ==
  ASSUME NEW T, NEW s \in Seq(T), NEW i \in DOMAIN s
  PROVE  s[i] \in T
  OBVIOUS

\* A concatenation of two lists is one.
LEMMA Joined ==
  ASSUME NEW T, NEW s \in Seq(T), NEW r \in Seq(T)
  PROVE  /\ s \o r \in Seq(T) /\ Len(s \o r) = Len(s) + Len(r)
         /\ \A i \in 1..(Len(s) + Len(r)) :
              (s \o r)[i] = IF i <= Len(s) THEN s[i] ELSE r[i - Len(s)]
<1>1. s \o r \in Seq(T) /\ Len(s \o r) = Len(s) + Len(r)
  OBVIOUS
<1>2. \A i \in 1..(Len(s) + Len(r)) :
        (s \o r)[i] = IF i <= Len(s) THEN s[i] ELSE r[i - Len(s)]
  OBVIOUS
<1> QED
  BY <1>1, <1>2

\* An entry that is no owner may be deleted.
LEMMA RemoveKeeps ==
  ASSUME NEW us \in Seq(UserT), NEW i \in DOMAIN us
  PROVE  /\ RemoveAt(us, i) \in Seq(UserT) /\ Older(RemoveAt(us, i), us)
         /\ us[i].level # LEVEL_MAX => Owners(RemoveAt(us, i)) = Owners(us)
         /\ Bounded(us) => Bounded(RemoveAt(us, i))
<1> DEFINE new  == RemoveAt(us, i)
           head == SubSeq(us, 1, i - 1)
           tail == SubSeq(us, i + 1, Len(us))
<1>1. i \in 1..Len(us) /\ Len(us) \in Nat /\ DOMAIN us = 1..Len(us)
  OBVIOUS
<1>2. /\ head \in Seq(UserT) /\ Len(head) = i - 1
      /\ \A j \in 1..(i - 1) : head[j] = us[j]
  BY <1>1
<1>3. /\ tail \in Seq(UserT) /\ Len(tail) = Len(us) - i
      /\ \A j \in 1..(Len(us) - i) : tail[j] = us[j + i]
  BY <1>1
<1>4. new = head \o tail
  BY DEF RemoveAt
<1> HIDE DEF new, head, tail
<1>5. /\ new \in Seq(UserT) /\ DOMAIN new = 1..(Len(us) - 1)
      /\ \A j \in 1..(Len(us) - 1) : new[j] = IF j < i THEN us[j] ELSE us[j + 1]
  <2>1. new \in Seq(UserT) /\ Len(new) = Len(head) + Len(tail)
    BY <1>2, <1>3, <1>4, Joined
  <2>2. Len(new) = Len(us) - 1
    BY <1>1, <1>2, <1>3, <2>1
  <2>3. DOMAIN new = 1..(Len(us) - 1)
    BY <2>1, <2>2
  <2>4. \A j \in 1..(Len(us) - 1) :
          new[j] = IF j < i THEN head[j] ELSE tail[j - (i - 1)]
    <3> TAKE j \in 1..(Len(us) - 1)
    <3>1. j \in 1..(Len(head) + Len(tail)) /\ (j <= Len(head) <=> j < i)
      BY <1>1, <1>2, <1>3
    <3>2. new[j] = IF j <= Len(head) THEN head[j] ELSE tail[j - Len(head)]
      BY <1>2, <1>3, <1>4, <3>1, Joined
    <3> QED
      BY <1>2, <3>1, <3>2
  <2>5. \A j \in 1..(Len(us) - 1) :
          /\ j < i => j \in 1..(i - 1)
          /\ ~(j < i) => j - (i - 1) \in 1..(Len(us) - i) /\ (j - (i - 1)) + i = j + 1
    BY <1>1
  <2> QED
    BY <1>2, <1>3, <2>1, <2>3, <2>4, <2>5
<1>6. ASSUME NEW m, m \in Owners(new)
      PROVE  m \in Owners(us)
  <2>1. PICK j \in 1..(Len(us) - 1) : new[j].level = LEVEL_MAX /\ new[j].mask = m
    BY <1>5, <1>6, OwnersOf
  <2>2. PICK k \in DOMAIN us : us[k] = new[j]
    BY <1>1, <1>5, <2>1
  <2> QED
    BY <2>1, <2>2, OwnersOf
<1>7. ASSUME NEW m, m \in Owners(us), us[i].level # LEVEL_MAX
      PROVE  m \in Owners(new)
  <2>1. PICK k \in DOMAIN us : us[k].level = LEVEL_MAX /\ us[k].mask = m
    BY <1>7, OwnersOf
  <2>2. k # i
    BY <1>7, <2>1
  <2>3. PICK j \in 1..(Len(us) - 1) : new[j] = us[k]
    <3>1. CASE k < i
      BY <1>1, <1>5, <3>1
    <3>2. CASE k > i
      <4>1. k - 1 \in 1..(Len(us) - 1) /\ ~(k - 1 < i) /\ (k - 1) + 1 = k
        BY <1>1, <3>2
      <4> QED
        BY <1>5, <4>1
    <3> QED
      BY <1>1, <2>2, <3>1, <3>2
  <2> QED
    BY <2>1, <2>3, <1>5, OwnersOf
<1>8. Older(new, us) /\ (Bounded(us) => Bounded(new))
  <2>1. \A j \in DOMAIN new : \E k \in DOMAIN us : us[k] = new[j]
    BY <1>1, <1>5
  <2>2. Older(new, us)
    BY <2>1 DEF Older
  <2>3. Bounded(us) => Bounded(new)
    BY <2>1 DEF Bounded
  <2> QED
    BY <2>2, <2>3
<1>9. us[i].level # LEVEL_MAX => Owners(new) = Owners(us)
  BY <1>6, <1>7 DEF Owners
<1> QED
  BY <1>5, <1>8, <1>9 DEF new

\* An entry that is no owner may be added.
LEMMA AddKeeps ==
  ASSUME NEW us \in Seq(UserT), NEW u \in UserT, ~u.id
  PROVE  /\ Cons(u, us) \in Seq(UserT) /\ Older(Cons(u, us), us)
         /\ u.level # LEVEL_MAX => Owners(Cons(u, us)) = Owners(us)
         /\ Bounded(us) /\ u.level <= LEVEL_MAX => Bounded(Cons(u, us))
<1> DEFINE new == Cons(u, us)
<1>1. /\ new \in Seq(UserT) /\ DOMAIN new = 1..(Len(us) + 1) /\ Len(us) \in Nat
      /\ DOMAIN us = 1..Len(us)
      /\ \A j \in 1..(Len(us) + 1) : new[j] = IF j = 1 THEN u ELSE us[j - 1]
  BY DEF Cons
<1> HIDE DEF new
<1>2. ASSUME NEW m, m \in Owners(new), u.level # LEVEL_MAX
      PROVE  m \in Owners(us)
  <2>1. PICK j \in 1..(Len(us) + 1) : new[j].level = LEVEL_MAX /\ new[j].mask = m
    BY <1>1, <1>2, OwnersOf
  <2>2. j # 1 /\ j - 1 \in DOMAIN us /\ us[j - 1] = new[j]
    BY <1>1, <1>2, <2>1
  <2> QED
    BY <2>1, <2>2, OwnersOf
<1>3. ASSUME NEW m, m \in Owners(us)
      PROVE  m \in Owners(new)
  <2>1. PICK k \in DOMAIN us : us[k].level = LEVEL_MAX /\ us[k].mask = m
    BY <1>3, OwnersOf
  <2>2. k + 1 \in DOMAIN new /\ new[k + 1] = us[k]
    BY <1>1
  <2> QED
    BY <2>1, <2>2, OwnersOf
<1>4. Older(new, us)
  <2>1. \A j \in DOMAIN new : j = 1 \/ (j # 1 /\ j - 1 \in DOMAIN us /\ new[j] = us[j - 1])
    BY <1>1
  <2>2. new[1] = u
    BY <1>1
  <2> QED
    BY <2>1, <2>2 DEF Older
<1>5. Bounded(us) /\ u.level <= LEVEL_MAX => Bounded(new)
  <2>1. \A j \in DOMAIN new : new[j] = u \/ \E k \in DOMAIN us : us[k] = new[j]
    BY <1>1
  <2> QED
    BY <2>1 DEF Bounded
<1>6. u.level # LEVEL_MAX => Owners(new) = Owners(us)
  BY <1>2, <1>3 DEF Owners
<1> QED
  BY <1>1, <1>4, <1>5, <1>6 DEF new

\* The lines of a list have its owners and masks; the first ones some of them.
LEMMA LinesKeep ==
  ASSUME NEW us \in Seq(UserT)
  PROVE  /\ Lines(us) \in Seq(LineT) /\ Owners(Lines(us)) = Owners(us)
         /\ Bounded(us) <=> Bounded(Lines(us))
         /\ Plain(us) <=> Plain(Lines(us))
         /\ DOMAIN Lines(us) = 1..Len(us)
<1>1. /\ Lines(us) \in Seq(LineT) /\ DOMAIN Lines(us) = DOMAIN us /\ Len(Lines(us)) = Len(us)
      /\ \A i \in DOMAIN us : /\ Lines(us)[i].mask = us[i].mask
                              /\ Lines(us)[i].level = us[i].level
  <2>1. \A i \in DOMAIN us : us[i] \in UserT
    OBVIOUS
  <2>2. \A i \in DOMAIN us : /\ LineOf(us[i]) \in LineT
                            /\ LineOf(us[i]).mask = us[i].mask
                            /\ LineOf(us[i]).level = us[i].level
    BY <2>1 DEF LineOf, LineT, UserT
  <2> HIDE DEF LineT
  <2> QED
    BY <2>2 DEF Lines
<1>2. ASSUME NEW m
      PROVE  m \in Owners(Lines(us)) <=> m \in Owners(us)
  BY <1>1, OwnersOf
<1>3. Owners(Lines(us)) = Owners(us)
  BY <1>2 DEF Owners
<1>4. (Bounded(us) <=> Bounded(Lines(us))) /\ (Plain(us) <=> Plain(Lines(us)))
  BY <1>1 DEF Bounded, Plain
<1> QED
  BY <1>1, <1>3, <1>4

\* What writing leaves in the file when it ends early.
LEMMA PartKeeps ==
  ASSUME NEW us \in Seq(UserT), NEW n \in 0..(Len(us) - 1), NEW cut \in BOOLEAN
  PROVE  LET f == Part(us, n, cut)
         IN /\ f.lines \in Seq(LineT) /\ f.rest \in LineT \cup {NULL}
            /\ Owners(f.lines) \subseteq Owners(us)
            /\ ToSet(f.lines) \subseteq ToSet(Lines(us))
            /\ Bounded(us) => Bounded(f.lines)
            /\ Plain(us) /\ f.rest # NULL => ~Odd(f.rest.mask)
            /\ Plain(us) => Plain(f.lines)
<1> DEFINE ls == Lines(us)
           s  == SubSeq(ls, 1, n)
           f  == Part(us, n, cut)
<1>1. /\ ls \in Seq(LineT) /\ Owners(ls) = Owners(us) /\ DOMAIN ls = 1..Len(us)
      /\ Bounded(us) <=> Bounded(ls)
      /\ Plain(us) <=> Plain(ls)
  BY LinesKeep
<1>2. f.lines = s /\ f.rest = IF cut THEN ls[n + 1] ELSE NULL
  BY DEF Part
<1> HIDE DEF ls, f
<1>3. /\ s \in Seq(LineT) /\ DOMAIN s = 1..n
      /\ \A i \in 1..n : s[i] = ls[i] /\ i \in DOMAIN ls
  BY <1>1
<1>4. n + 1 \in DOMAIN ls
  BY <1>1
<1>5. ls[n + 1] \in LineT
  BY <1>1, <1>4, Element
<1> HIDE DEF s
<1>6. \A m : m \in Owners(s) => m \in Owners(ls)
  <2> SUFFICES ASSUME NEW m \in Owners(s) PROVE m \in Owners(ls)
    OBVIOUS
  <2>1. PICK i \in 1..n : s[i].level = LEVEL_MAX /\ s[i].mask = m
    BY <1>3, OwnersOf
  <2> QED
    BY <1>3, <2>1, OwnersOf
<1>7. ToSet(s) \subseteq ToSet(ls)
  BY <1>3 DEF ToSet
<1>8. (Bounded(ls) => Bounded(s)) /\ (Plain(ls) => Plain(s))
  BY <1>3 DEF Bounded, Plain
<1>9. Plain(ls) => ~Odd(ls[n + 1].mask)
  BY <1>4 DEF Plain
<1>10. f.rest \in LineT \cup {NULL} /\ (Plain(us) /\ f.rest # NULL => ~Odd(f.rest.mask))
  BY <1>1, <1>2, <1>5, <1>9
<1> QED
  BY <1>1, <1>2, <1>3, <1>6, <1>7, <1>8, <1>10 DEF f, ls

\* What is read of a line has the types of one; it is the line if that can hold its mask.
LEMMA ReadIs ==
  ASSUME NEW l \in LineT
  PROVE  /\ Entry(Read(l)) \in UserT /\ ~Entry(Read(l)).id
         /\ ~Odd(l.mask) => LineOf(Entry(Read(l))) = l
<1> DEFINE p == parts[l.mask]
<1>1. l.mask \in Masks /\ l.pass \in Passwords /\ l.level \in Int
  BY DEF LineT
<1>2. /\ Len(p) \in Nat \ {0} /\ p[1] \in Masks /\ (Len(p) > 1 => p[2] \in Passwords)
      /\ Len(p) > 2 => atoi[p[3]] \in Int
      /\ atoi[l.pass] \in Int
  BY <1>1, PartsAssumption
<1> HIDE DEF p
<1>3. /\ Len(p) = 1 \/ Len(p) = 2 \/ Len(p) > 2
      /\ ~(Len(p) > 1) => Len(p) = 1
  <2>1. \A n \in Nat \ {0} : (n = 1 \/ n = 2 \/ n > 2) /\ (~(n > 1) => n = 1)
    OBVIOUS
  <2> QED
    BY <1>2, <2>1, Zenon
<1>4. /\ Len(p) = 1 => Read(l) = l
      /\ Len(p) = 2 => Read(l) = [mask |-> p[1], pass |-> p[2], level |-> atoi[l.pass]]
      /\ Len(p) > 2 => Read(l) = [mask |-> p[1], pass |-> p[2], level |-> atoi[p[3]]]
  <2>1. Len(p) \in Int
    BY <1>2
  <2> QED
    BY <2>1 DEF Read, p
<1>8. Read(l).mask \in Masks /\ Read(l).pass \in Passwords /\ Read(l).level \in Int
  <2>1. CASE Len(p) = 1
    BY <1>1, <1>4, <2>1
  <2>2. CASE Len(p) = 2
    BY <1>1, <1>2, <1>4, <2>2
  <2>3. CASE Len(p) > 2
    BY <1>1, <1>2, <1>4, <2>3
  <2> QED
    BY <1>3, <2>1, <2>2, <2>3
<1>5. Entry(Read(l)) \in UserT /\ ~Entry(Read(l)).id
  BY <1>8 DEF Entry, UserT
<1>6. ~Odd(l.mask) => Read(l) = l
  BY <1>3, <1>4, Zenon DEF Odd, p
<1>7. LineOf(Entry(l)) = l
  BY DEF LineOf, Entry, LineT
<1> QED
  BY <1>5, <1>6, <1>7

\* Loading is a walk over the lines.
LoadIs(g, lines) ==
  /\ g[0] = <<>>
  /\ \A n \in 1..Len(lines) :
       g[n] = IF lines[n].mask \in comments THEN g[n - 1]
              ELSE Cons(Entry(Read(lines[n])), g[n - 1])

\* Whatever is loaded is a list of users, of whom nobody is identified.
LEMMA Walked ==
  ASSUME NEW lines \in Seq(LineT)
  PROVE  /\ load_users(lines) \in Seq(UserT)
         /\ \A i \in DOMAIN load_users(lines) : ~load_users(lines)[i].id
         /\ \E g : LoadIs(g, lines) /\ load_users(lines) = g[Len(lines)]
<1> DEFINE N == Len(lines)
           V == {us \in Seq(UserT) : \A i \in DOMAIN us : ~us[i].id}
           One(us, n) == IF lines[n].mask \in comments THEN us
                         ELSE Cons(Entry(Read(lines[n])), us)
           Body(g, n) == IF n = 0 THEN <<>>
                         ELSE IF lines[n].mask \in comments THEN g[n - 1]
                         ELSE Cons(Entry(Read(lines[n])), g[n - 1])
           Runs(g) == g = [n \in 0..N |-> Body(g, n)]
           list == CHOOSE g : Runs(g)
<1>1. load_users(lines) = list[N]
  BY DEF load_users
<1>2. N \in Nat /\ \A n \in 1..N : lines[n] \in LineT
  OBVIOUS
<1>3. << >> \in V
  OBVIOUS
<1>4. ASSUME NEW n \in 1..N, NEW us \in V PROVE One(us, n) \in V
  <2> DEFINE u == Entry(Read(lines[n]))
  <2>1. u \in UserT /\ ~u.id
    BY <1>2, ReadIs
  <2> HIDE DEF u
  <2>2. us \in Seq(UserT) /\ \A i \in DOMAIN us : ~us[i].id
    OBVIOUS
  <2>3. Cons(u, us) \in Seq(UserT) /\ Older(Cons(u, us), us)
    BY <2>1, <2>2, AddKeeps
  <2>4. Cons(u, us) \in V
    BY <2>2, <2>3 DEF Older
  <2> HIDE DEF V
  <2> QED
    BY <2>4 DEF u
<1>5. \A g, n : Body(g, n) = IF n = 0 THEN <<>> ELSE One(g[n - 1], n)
  OBVIOUS
<1> HIDE DEF V, One, N, Body
<1>6. \E g : Runs(g)
  <2> DEFINE step == [n \in 1..N |-> [us \in V |-> One(us, n)]]
  <2>1. step \in [1..N -> [V -> V]] /\ \A n \in 1..N : \A us \in V : step[n][us] = One(us, n)
    BY <1>4
  <2> HIDE DEF step
  <2>2. PICK g : Stepwise(g, V, << >>, N, step)
    BY <1>2, <1>3, <2>1, StepsExist
  <2>3. g[0] = << >> /\ g \in [0..N -> V] /\ \A n \in 1..N : g[n] = step[n][g[n - 1]]
    BY <2>2 DEF Stepwise
  <2>4. \A n \in 1..N : n - 1 \in 0..N
    BY <1>2
  <2>5. \A n \in 1..N : g[n] = One(g[n - 1], n)
    BY <2>1, <2>3, <2>4
  <2>6. ASSUME NEW n \in 0..N PROVE g[n] = Body(g, n)
    <3>1. n # 0 => n \in 1..N
      BY <1>2
    <3> QED
      BY <1>5, <2>3, <2>5, <3>1
  <2>7. g = [n \in 0..N |-> g[n]]
    BY <2>3
  <2> QED
    BY <2>6, <2>7
<1>7. Runs(list)
  BY <1>6, Zenon
<1> HIDE DEF list
<1>8. \A n \in 0..N : list[n] = Body(list, n)
  <2>1. \A g : Runs(g) => \A n \in 0..N : g[n] = Body(g, n)
    OBVIOUS
  <2> HIDE DEF Runs
  <2> QED
    BY <1>7, <2>1
<1>9. list[0] = << >> /\ list[0] \in V
  BY <1>2, <1>3, <1>5, <1>8
<1>10. \A n \in 1..N : list[n] = One(list[n - 1], n)
  <2> TAKE n \in 1..N
  <2>1. n \in 0..N /\ n # 0
    BY <1>2
  <2> QED
    BY <1>5, <1>8, <2>1
<1>11. list[N] \in V
  <2>1. \A n \in 1..N : list[n - 1] \in V => list[n] \in V
    BY <1>4, <1>10
  <2>2. \A n \in 0..N : list[n] \in V
    BY <1>2, <1>9, <2>1, StaysIn
  <2> QED
    BY <1>2, <2>2
<1>12. LoadIs(list, lines)
  BY <1>9, <1>10 DEF LoadIs, One, N
<1> QED
  BY <1>1, <1>11, <1>12 DEF V, N

\* What is loaded of plain lines, entry by entry: the last is the first.
LEMMA Loaded ==
  ASSUME NEW lines \in Seq(LineT), Plain(lines)
  PROVE  /\ DOMAIN load_users(lines) = 1..Len(lines)
         /\ \A i \in 1..Len(lines) :
              LineOf(load_users(lines)[i]) = lines[Len(lines) - i + 1]
<1> DEFINE N == Len(lines)
           Rev(n) == [i \in 1..n |-> Entry(Read(lines[n - i + 1]))]
<1>1. N \in Nat /\ DOMAIN lines = 1..N /\ \A n \in 1..N : lines[n] \in LineT
  OBVIOUS
<1>2. PICK g : LoadIs(g, lines) /\ load_users(lines) = g[N]
  BY Walked
<1>3. \A n \in 1..N : ~Odd(lines[n].mask) /\ Entry(Read(lines[n])) \in UserT
  BY <1>1, ReadIs DEF Plain
<1> HIDE DEF N
<1>4. g[0] = Rev(0)
  <2>1. Rev(0) = <<>>
    OBVIOUS
  <2> QED
    BY <1>2, <2>1 DEF LoadIs
<1>5. ASSUME NEW n \in 1..N, g[n - 1] = Rev(n - 1)
      PROVE  g[n] = Rev(n)
  <2> DEFINE u == Entry(Read(lines[n]))
             r == Rev(n - 1)
  <2>1. lines[n].mask \notin comments
    BY <1>3 DEF Odd
  <2>2. g[n] = Cons(u, r)
    BY <1>2, <1>5, <2>1 DEF LoadIs, N
  <2>3. n - 1 \in Nat /\ \A i \in 1..(n - 1) : (n - 1) - i + 1 \in 1..N
    BY <1>1
  <2>4. r \in Seq(UserT) /\ Len(r) = n - 1
        /\ \A i \in 1..(n - 1) : r[i] = Entry(Read(lines[(n - 1) - i + 1]))
    <3>1. \A i \in 1..(n - 1) : Entry(Read(lines[(n - 1) - i + 1])) \in UserT
      BY <1>3, <2>3
    <3> QED
      BY <2>3, <3>1
  <2>5. u \in UserT
    BY <1>3
  <2> HIDE DEF u, r
  <2>6. /\ Cons(u, r) = [i \in 1..n |-> Cons(u, r)[i]]
        /\ \A i \in 1..n : Cons(u, r)[i] = IF i = 1 THEN u ELSE r[i - 1]
    <3>1. /\ Cons(u, r) \in Seq(UserT) /\ Len(Cons(u, r)) = n
          /\ \A i \in 1..n : Cons(u, r)[i] = IF i = 1 THEN u ELSE r[i - 1]
      BY <2>3, <2>4, <2>5 DEF Cons
    <3> QED
      BY <3>1
  <2>7. \A i \in 1..n : Cons(u, r)[i] = Entry(Read(lines[n - i + 1]))
    <3> TAKE i \in 1..n
    <3>1. CASE i = 1
      <4>1. n - i + 1 = n
        BY <3>1
      <4> QED
        BY <2>6, <3>1, <4>1 DEF u
    <3>2. CASE i # 1
      <4>1. i - 1 \in 1..(n - 1) /\ (n - 1) - (i - 1) + 1 = n - i + 1
        BY <3>2
      <4> QED
        BY <2>4, <2>6, <3>2, <4>1
    <3> QED
      BY <3>1, <3>2
  <2> QED
    BY <2>2, <2>6, <2>7
<1>6. g[N] = Rev(N)
  <2> DEFINE W == {1}
             h == [n \in 0..N |-> IF g[n] = Rev(n) THEN 1 ELSE 0]
  <2> HIDE DEF Rev
  <2>1. h[0] \in W
    BY <1>1, <1>4
  <2>2. \A n \in 1..N : h[n - 1] \in W => h[n] \in W
    BY <1>1, <1>5
  <2>3. \A n \in 0..N : (h[n] \in W => g[n] = Rev(n))
    OBVIOUS
  <2> HIDE DEF h, W
  <2>4. \A n \in 0..N : h[n] \in W
    BY <1>1, <2>1, <2>2, StaysIn
  <2> QED
    BY <1>1, <2>3, <2>4
<1>7. \A i \in 1..N : N - i + 1 \in 1..N
  BY <1>1
<1>8. \A n \in 1..N : LineOf(Entry(Read(lines[n]))) = lines[n]
  BY <1>1, <1>3, ReadIs
<1>9. DOMAIN load_users(lines) = 1..N
  BY <1>2, <1>6
<1>10. \A i \in 1..N : load_users(lines)[i] = Entry(Read(lines[N - i + 1]))
  BY <1>2, <1>6
<1> QED
  BY <1>7, <1>8, <1>9, <1>10 DEF N

\* The lines of what is loaded are those of the file, turned around.
LEMMA LoadedLines ==
  ASSUME NEW lines \in Seq(LineT), Plain(lines)
  PROVE  /\ DOMAIN Lines(load_users(lines)) = 1..Len(lines)
         /\ \A i \in 1..Len(lines) :
              Lines(load_users(lines))[i] = lines[Len(lines) - i + 1]
<1>1. /\ DOMAIN load_users(lines) = 1..Len(lines)
      /\ \A i \in 1..Len(lines) : LineOf(load_users(lines)[i]) = lines[Len(lines) - i + 1]
  BY Loaded
<1> QED
  BY <1>1 DEF Lines

\* A list that is turned around has the same members, each as often.
LEMMA TurnedAround ==
  ASSUME NEW n \in Nat, NEW a, NEW b, DOMAIN a = 1..n, DOMAIN b = 1..n,
         \A i \in 1..n : b[i] = a[n - i + 1]
  PROVE  Alike(a, b) /\ ToSet(b) = ToSet(a)
<1>1. \A i \in 1..n : n - i + 1 \in 1..n /\ n - (n - i + 1) + 1 = i
  OBVIOUS
<1>2. ASSUME NEW l
      PROVE  Often(a, l) = Often(b, l)
  <2> DEFINE A == {i \in 1..n : a[i] = l}
             B == {i \in 1..n : b[i] = l}
             turn == [i \in A |-> n - i + 1]
  <2>1. IsFiniteSet(A)
    <3>1. IsFiniteSet(1..n)
      BY FS_Interval
    <3> QED
      BY <3>1, FS_Subset
  <2>2. \A i \in A : n - i + 1 \in B
    <3> TAKE i \in A
    <3>1. b[n - i + 1] = a[n - (n - i + 1) + 1]
      BY <1>1
    <3> QED
      BY <1>1, <3>1
  <2>3. \A j \in B : n - j + 1 \in A /\ n - (n - j + 1) + 1 = j
    BY <1>1
  <2>4. A \subseteq Int
    OBVIOUS
  <2> HIDE DEF A, B
  <2>5. turn \in [A -> B]
    BY <2>2
  <2>6. \A i, j \in A : turn[i] = turn[j] => i = j
    BY <2>4
  <2>7. \A j \in B : \E i \in A : turn[i] = j
    BY <2>3
  <2> HIDE DEF turn
  <2>8. turn \in Bijection(A, B)
    BY <2>5, <2>6, <2>7 DEF Bijection, Injection, Surjection, IsInjective
  <2>9. Cardinality(A) = Cardinality(B)
    BY <2>1, <2>8, FS_Bijection DEF ExistsBijection
  <2> QED
    BY <2>9 DEF Often, A, B
<1>3. ToSet(b) = ToSet(a)
  <2>1. \A i \in 1..n : \E j \in 1..n : a[i] = b[j]
    <3> TAKE i \in 1..n
    <3>1. b[n - i + 1] = a[n - (n - i + 1) + 1]
      BY <1>1
    <3> QED
      BY <1>1, <3>1
  <2>2. \A i \in 1..n : \E j \in 1..n : b[i] = a[j]
    BY <1>1
  <2> QED
    <3>1. \A x : x \in ToSet(a) <=> \E i \in 1..n : a[i] = x
      BY DEF ToSet
    <3>2. \A x : x \in ToSet(b) <=> \E i \in 1..n : b[i] = x
      BY DEF ToSet
    <3>3. \A x : x \in ToSet(b) <=> x \in ToSet(a)
      BY <2>1, <2>2, <3>1, <3>2, Zenon
    <3> QED
      BY <3>3, Zenon DEF ToSet
<1> QED
  BY <1>2, <1>3 DEF Alike

\* What is loaded of plain lines has the lines of the file, and its owners.
LEMMA LoadKeeps ==
  ASSUME NEW lines \in Seq(LineT), Plain(lines)
  PROVE  /\ Alike(lines, Lines(load_users(lines)))
         /\ ToSet(Lines(load_users(lines))) = ToSet(lines)
         /\ Owners(load_users(lines)) = Owners(lines)
         /\ Plain(load_users(lines))
         /\ Bounded(lines) => Bounded(load_users(lines))
<1> DEFINE new == load_users(lines)
<1>1. Len(lines) \in Nat /\ DOMAIN lines = 1..Len(lines)
  OBVIOUS
<1>2. Alike(lines, Lines(new)) /\ ToSet(Lines(new)) = ToSet(lines)
  BY <1>1, LoadedLines, TurnedAround
<1>3. new \in Seq(UserT)
  BY Walked
<1>4. /\ Owners(Lines(new)) = Owners(new)
      /\ Bounded(new) <=> Bounded(Lines(new))
      /\ Plain(new) <=> Plain(Lines(new))
  BY <1>3, LinesKeep
<1>5. Owners(Lines(new)) = Owners(lines)
  BY <1>2 DEF Owners
<1>6. \A i \in DOMAIN Lines(new) : \E j \in DOMAIN lines : lines[j] = Lines(new)[i]
  BY <1>2 DEF ToSet
<1>7. Plain(Lines(new)) /\ (Bounded(lines) => Bounded(Lines(new)))
  BY <1>6 DEF Plain, Bounded
<1> QED
  BY <1>2, <1>4, <1>5, <1>7

\* A list that differs in identifications only has the same lines and owners.
LEMMA SameLines ==
  ASSUME NEW us \in Seq(UserT), NEW new \in Seq(UserT), DOMAIN new = DOMAIN us,
         \A i \in DOMAIN us : LineOf(new[i]) = LineOf(us[i])
  PROVE  Lines(new) = Lines(us)
  BY DEF Lines

\* Identification does not change masks and levels, and no person is NULL.
LEMMA SetIdKeeps ==
  ASSUME NEW us \in Seq(UserT), NEW x, NEW id \in BOOLEAN, id => x \in Full
  PROVE  /\ match_set_id(us, x, id) \in Seq(UserT)
         /\ Lines(match_set_id(us, x, id)) = Lines(us)
<1> DEFINE i == match_mask2user(us, x)
           u == [us[i] EXCEPT !.id = id, !.cur_mask = IF id THEN x ELSE NULL]
<1>1. i # 0 => i \in DOMAIN us
  BY Found
<1>2. match_set_id(us, x, id) = IF i = 0 THEN us ELSE [us EXCEPT ![i] = u]
  BY <1>1 DEF match_set_id
<1>3. ASSUME i # 0
      PROVE  u \in UserT /\ LineOf(u) = LineOf(us[i])
  <2> HIDE DEF i
  <2>1. us[i] \in UserT
    BY <1>1, <1>3
  <2>2. (IF id THEN x ELSE NULL) \in Full \cup {NULL}
    OBVIOUS
  <2> QED
    BY <2>1, <2>2 DEF UserT, LineOf
<1> HIDE DEF i, u
<1>4. CASE i = 0
  BY <1>2, <1>4
<1>5. CASE i # 0
  <2>1. i \in DOMAIN us /\ u \in UserT /\ LineOf(u) = LineOf(us[i])
    BY <1>1, <1>3, <1>5
  <2> DEFINE new == [us EXCEPT ![i] = u]
  <2>2. new \in Seq(UserT) /\ DOMAIN new = DOMAIN us
    BY <2>1
  <2>3. \A j \in DOMAIN us : LineOf(new[j]) = LineOf(us[j])
    BY <2>1
  <2> HIDE DEF new
  <2>4. Lines(new) = Lines(us)
    BY <2>2, <2>3, SameLines
  <2> QED
    BY <1>2, <1>5, <2>2, <2>4 DEF new
<1> QED
  BY <1>4, <1>5

\* Nor does forgetting all of them.
LEMMA ForgetKeeps ==
  ASSUME NEW us \in Seq(UserT)
  PROVE  /\ [i \in DOMAIN us |-> [us[i] EXCEPT !.id = FALSE]] \in Seq(UserT)
         /\ Lines([i \in DOMAIN us |-> [us[i] EXCEPT !.id = FALSE]]) = Lines(us)
<1> DEFINE new == [i \in DOMAIN us |-> [us[i] EXCEPT !.id = FALSE]]
<1>1. ASSUME NEW i \in DOMAIN us
      PROVE  new[i] \in UserT /\ LineOf(new[i]) = LineOf(us[i])
  <2>1. us[i] \in UserT
    BY Element
  <2> QED
    BY <2>1 DEF UserT, LineOf
<1>2. DOMAIN new = 1..Len(us) /\ DOMAIN us = 1..Len(us) /\ new = [i \in DOMAIN new |-> new[i]]
  OBVIOUS
<1> HIDE DEF new
<1>3. new \in Seq(UserT)
  BY <1>1, <1>2
<1>4. Lines(new) = Lines(us)
  BY <1>1, <1>2, <1>3, SameLines
<1> QED
  BY <1>3, <1>4 DEF new

-----------------------------------------------------------------------------
(* The steps. *)

\* A step that changes identifications at most keeps the owners.
LEMMA LinesStep ==
  ASSUME TypeInv, OwnersInv, KeepsLines
  PROVE  TypeInv' /\ OwnersInv'
<1>1. /\ users \in Seq(UserT) /\ users' \in Seq(UserT) /\ Lines(users') = Lines(users)
      /\ UNCHANGED <<file, status, torn>>
  BY DEF TypeInv, KeepsLines
<1>2. odd' <=> odd
  BY Zenon DEF KeepsLines
<1>3. /\ Owners(users') = Owners(users)
      /\ Bounded(users) <=> Bounded(users')
      /\ Plain(users) <=> Plain(users')
  <2>1. /\ Owners(Lines(users')) = Owners(users')
        /\ Bounded(users') <=> Bounded(Lines(users'))
        /\ Plain(users') <=> Plain(Lines(users'))
    BY <1>1, LinesKeep
  <2>2. /\ Owners(Lines(users)) = Owners(users)
        /\ Bounded(users) <=> Bounded(Lines(users))
        /\ Plain(users) <=> Plain(Lines(users))
    BY <1>1, LinesKeep
  <2> QED
    BY <1>1, <2>1, <2>2
<1>4. Owners(users)' = Owners(users) /\ (Bounded(users) => Bounded(users)') /\ (Plain(users) => Plain(users)')
  BY <1>3 DEF Owners, Bounded, Plain
<1>5. Keeps(users, torn) => Keeps(users, torn)'
  BY <1>1, <1>4 DEF Keeps, Owners
<1>6. Keeps(file.lines, torn) => Keeps(file.lines, torn)'
  BY <1>1 DEF Keeps, Owners
<1>7. (Bounded(file.lines) => Bounded(file.lines)') /\ (Plain(file.lines) => Plain(file.lines)')
  BY <1>1 DEF Bounded, Plain
<1>8. (file.rest # NULL => ~Odd(file.rest.mask)) => (file.rest # NULL => ~Odd(file.rest.mask))'
  BY <1>1 DEF Odd
<1>9. (status = "runs" => Keeps(users, torn)) => (status = "runs" => Keeps(users, torn))'
  BY <1>1, <1>5
<1>10. TypeInv'
  BY <1>1 DEF TypeInv
<1> HIDE DEF KeepsLines
<1>11. OwnersInv'
  BY <1>2, <1>4, <1>6, <1>7, <1>8, <1>9 DEF OwnersInv
<1> QED
  BY <1>10, <1>11

\* What becomes of the list and the file when us is saved.
SavedAs(us) ==
  \/ /\ users' = us /\ UNCHANGED <<status, before>>
     /\ \/ file' = [lines |-> Lines(us), rest |-> NULL] /\ saved' = "whole" /\ torn' = torn
        \/ file' = file /\ saved' = "not" /\ torn' = torn
        \/ /\ saved' = "short" /\ torn' = TRUE
           /\ \E n \in 0..(Len(us) - 1), cut \in BOOLEAN : file' = Part(us, n, cut)
  \/ /\ users' = <<>> /\ status' = "killed" /\ torn' = TRUE
     /\ before' = UNION {ToSet(l) : l \in {Lines(users), Lines(us), file.lines}}
     /\ \E n \in 0..(Len(us) - 1), cut \in BOOLEAN : file' = Part(us, n, cut)

LEMMA SaveIs ==
  ASSUME NEW us, save_users(us)
  PROVE  SavedAs(us) /\ (~odd' => ~odd /\ Plain(us))
<1>1. ~odd' => ~odd /\ Plain(us)
  <2>1. odd' = (odd \/ \E i \in DOMAIN us : Odd(us[i].mask))
    BY DEF save_users
  <2>2. odd' <=> (odd \/ \E i \in DOMAIN us : Odd(us[i].mask))
    BY <2>1, Zenon
  <2> QED
    BY <2>2 DEF Plain
<1>2. \/ /\ users' = us /\ UNCHANGED <<status, before>>
         /\ \/ file' = [lines |-> Lines(us), rest |-> NULL] /\ saved' = "whole" /\ UNCHANGED torn
            \/ UNCHANGED <<file, torn>> /\ saved' = "not"
            \/ /\ \E n \in 0..(Len(us) - 1), cut \in BOOLEAN : file' = Part(us, n, cut)
               /\ saved' = "short" /\ torn' = TRUE
      \/ /\ Kill(us, TRUE)
         /\ \E n \in 0..(Len(us) - 1), cut \in BOOLEAN : file' = Part(us, n, cut)
  BY DEF save_users
<1>3. ASSUME Kill(us, TRUE),
             \E n \in 0..(Len(us) - 1), cut \in BOOLEAN : file' = Part(us, n, cut)
      PROVE  SavedAs(us)
  <2>1. /\ users' = <<>> /\ status' = "killed" /\ torn' = (torn \/ TRUE)
        /\ before' = UNION {ToSet(l) : l \in {Lines(users), Lines(us), file.lines}}
    BY <1>3 DEF Kill
  <2>2. torn' = TRUE
    BY <2>1
  <2> QED
    BY <1>3, <2>1, <2>2 DEF SavedAs
<1>4. SavedAs(us)
  BY <1>2, <1>3 DEF SavedAs
<1> QED
  BY <1>1, <1>4

\* A save of a list with the same owners, whatever becomes of it.
LEMMA SaveStep ==
  ASSUME TypeInv, OwnersInv, Saves
  PROVE  TypeInv' /\ OwnersInv'
<1>1. PICK us \in Seq(UserT) :
        /\ status = "runs" /\ save_users(us)
        /\ Bounded(users) => Bounded(us) /\ Owners(us) = Owners(users)
  BY DEF Saves
<1>2. SavedAs(us) /\ (~odd' => ~odd /\ Plain(us))
  BY <1>1, SaveIs
<1>3. /\ Lines(us) \in Seq(LineT) /\ Owners(Lines(us)) = Owners(us)
      /\ Bounded(us) <=> Bounded(Lines(us))
      /\ Plain(us) <=> Plain(Lines(us))
  BY LinesKeep
<1>4. << >> \in Seq(UserT) /\ Bounded(<< >>) /\ Plain(<< >>)
  <2>1. DOMAIN << >> = {}
    OBVIOUS
  <2> QED
    BY <2>1 DEF Bounded, Plain
<1>5. users' \in Seq(UserT) /\ (users' = us \/ (users' = << >> /\ status' = "killed"))
  BY <1>2, <1>4 DEF SavedAs
<1>6. \/ file' = [lines |-> Lines(us), rest |-> NULL] /\ torn' = torn
      \/ file' = file /\ torn' = torn
      \/ /\ torn' = TRUE
         /\ \E n \in 0..(Len(us) - 1), cut \in BOOLEAN : file' = Part(us, n, cut)
  BY <1>2 DEF SavedAs
<1> DEFINE Good(f, t) ==
      /\ Bounded(f.lines) /\ Plain(f.lines) /\ Keeps(f.lines, t)
      /\ f.rest # NULL => ~Odd(f.rest.mask)
           Typed(f) == f.lines \in Seq(LineT) /\ f.rest \in LineT \cup {NULL}
<1>7. ~odd' => /\ Bounded(us) /\ Plain(us) /\ Bounded(users) /\ Keeps(us, torn)
               /\ Good(file, torn)
  BY <1>1, <1>2 DEF OwnersInv, Keeps
<1>8. Keeps(us, torn) => \A t : (((t <=> torn) \/ t) => Keeps(us, t))
  BY DEF Keeps
<1>9. Typed(file') /\ (~odd' => Good(file', torn') /\ Keeps(us, torn'))
  <2>1. CASE file' = [lines |-> Lines(us), rest |-> NULL] /\ torn' = torn
    <3>1. file'.lines = Lines(us) /\ file'.rest = NULL
      BY <2>1
    <3>2. ~odd' => Keeps(Lines(us), torn)
      BY <1>3, <1>7 DEF Keeps
    <3> QED
      BY <1>3, <1>7, <2>1, <3>1, <3>2
  <2>2. CASE file' = file /\ torn' = torn
    BY <1>7, <2>2 DEF TypeInv
  <2>3. CASE torn' = TRUE /\ \E n \in 0..(Len(us) - 1), cut \in BOOLEAN : file' = Part(us, n, cut)
    <3>1. PICK n \in 0..(Len(us) - 1), cut \in BOOLEAN : file' = Part(us, n, cut)
      BY <2>3
    <3>2. /\ file'.lines \in Seq(LineT) /\ file'.rest \in LineT \cup {NULL}
          /\ Owners(file'.lines) \subseteq Owners(us)
          /\ Bounded(us) => Bounded(file'.lines)
          /\ Plain(us) /\ file'.rest # NULL => ~Odd(file'.rest.mask)
          /\ Plain(us) => Plain(file'.lines)
      BY <3>1, PartKeeps
    <3>3. ~odd' => Keeps(file'.lines, torn') /\ Keeps(us, torn')
      BY <1>7, <2>3, <3>2 DEF Keeps
    <3> QED
      BY <1>7, <3>2, <3>3
  <2> QED
    BY <1>6, <2>1, <2>2, <2>3
<1>10. TypeInv'
  BY <1>5, <1>9 DEF TypeInv
<1>11. ~odd' => Bounded(users') /\ Plain(users') /\ (status' = "runs" => Keeps(users', torn'))
  BY <1>4, <1>5, <1>7, <1>9
<1>12. ~odd' => Good(file', torn')
  BY <1>9
<1>13. OwnersInv'
  BY <1>11, <1>12 DEF OwnersInv, Bounded, Plain, Keeps, Owners, Odd
<1> QED
  BY <1>10, <1>13

\* Who is outranked has not the highest level, and nor has what may be given.
LEMMA OutrankedIsNoOwner ==
  ASSUME TypeInv, NEW f, NEW mask, NEW i \in DOMAIN users, Outranks(f, mask, i), Bounded(users)
  PROVE  users[i].level # LEVEL_MAX /\ users[i].level <= LEVEL_MAX
<1>1. users \in Seq(UserT) /\ LEVEL_MAX \in Int
  BY UsersAssumption DEF TypeInv
<1>2. match_mask_level(users, f) \in Int /\ match_mask_level(users, f) <= LEVEL_MAX
  BY <1>1, LevelIsBounded
<1>3. users[i] \in UserT
  BY <1>1
<1> QED
  BY <1>1, <1>2, <1>3 DEF Outranks, UserT

\* A save of the list with an entry replaced that f outranks.
LEMMA OutrankedSaves ==
  ASSUME TypeInv, status = "runs", NEW f, NEW mask, NEW i \in DOMAIN users,
         Outranks(f, mask, i), NEW u \in UserT,
         u.id <=> users[i].id, u.cur_mask = users[i].cur_mask,
         Bounded(users) => u.level # LEVEL_MAX /\ u.level <= LEVEL_MAX,
         save_users([users EXCEPT ![i] = u])
  PROVE  Saves
<1>1. users \in Seq(UserT) /\ (Bounded(users) => users[i].level # LEVEL_MAX)
  BY OutrankedIsNoOwner DEF TypeInv
<1> DEFINE new == [users EXCEPT ![i] = u]
<1>2. /\ new \in Seq(UserT) /\ Older(new, users)
      /\ /\ u.level = LEVEL_MAX <=> users[i].level = LEVEL_MAX
         /\ users[i].level = LEVEL_MAX => u.mask = users[i].mask
         => Owners(new) = Owners(users)
      /\ Bounded(users) /\ u.level <= LEVEL_MAX => Bounded(new)
  BY <1>1, ReplaceKeeps
<1>3. save_users(new)
  OBVIOUS
<1> HIDE DEF new
<1>4. Bounded(users) => Bounded(new) /\ Owners(new) = Owners(users)
  BY <1>1, <1>2
<1> QED
  BY <1>2, <1>3, <1>4 DEF Saves

-----------------------------------------------------------------------------
(* The commands, by person, and everything else. *)

\* What !useradd and !userlevel accept is below the highest level.
LEMMA GivenIsLower ==
  ASSUME TypeInv, NEW f, NEW l \in Int, match_mask_level(users, f) > l, Bounded(users)
  PROVE  l <= LEVEL_MAX /\ l # LEVEL_MAX
<1>1. /\ match_mask_level(users, f) \in Int /\ match_mask_level(users, f) <= LEVEL_MAX
      /\ LEVEL_MAX \in Int
  BY LevelIsBounded, UsersAssumption DEF TypeInv
<1> QED
  BY <1>1

\* !useradd saves a list with one entry more, not of an owner.
LEMMA UseraddSaves ==
  ASSUME TypeInv, NEW f, NEW mask \in Masks, NEW l \in NewLevels,
         scriptcmd_useradd(f, mask, l)
  PROVE  Saves
<1> DEFINE u == Entry([mask |-> mask, pass |-> "", level |-> l])
<1>1. /\ status = "runs" /\ match_mask_level(users, f) > l
      /\ save_users(Cons(u, users))
  BY DEF scriptcmd_useradd, Dispatched
<1>2. l \in Int
  BY UsersAssumption
<1>3. Bounded(users) => l <= LEVEL_MAX /\ l # LEVEL_MAX
  BY <1>1, <1>2, GivenIsLower
<1>4. u \in UserT /\ u.level = l /\ ~u.id
  <2>1. mask \in Masks /\ "" \in Passwords
    BY UsersAssumption
  <2> QED
    BY <1>2, <2>1 DEF Entry, UserT
<1> HIDE DEF u
<1>5. /\ Cons(u, users) \in Seq(UserT) /\ Older(Cons(u, users), users)
      /\ u.level # LEVEL_MAX => Owners(Cons(u, users)) = Owners(users)
      /\ Bounded(users) /\ u.level <= LEVEL_MAX => Bounded(Cons(u, users))
  BY <1>4, AddKeeps DEF TypeInv
<1> QED
  BY <1>1, <1>3, <1>4, <1>5 DEF Saves

\* !userdel saves the list without an entry, not of an owner.
LEMMA UserdelSaves ==
  ASSUME TypeInv, NEW f, NEW mask, scriptcmd_userdel(f, mask)
  PROVE  Saves
<1>1. PICK i \in DOMAIN users :
        status = "runs" /\ Outranks(f, mask, i) /\ save_users(RemoveAt(users, i))
  BY DEF scriptcmd_userdel, Dispatched
<1>2. Bounded(users) => users[i].level # LEVEL_MAX
  BY <1>1, OutrankedIsNoOwner
<1>3. /\ RemoveAt(users, i) \in Seq(UserT) /\ Older(RemoveAt(users, i), users)
      /\ users[i].level # LEVEL_MAX => Owners(RemoveAt(users, i)) = Owners(users)
      /\ Bounded(users) => Bounded(RemoveAt(users, i))
  BY RemoveKeeps DEF TypeInv
<1> QED
  BY <1>1, <1>2, <1>3 DEF Saves

\* The three commands that change a field of an entry that f outranks.
LEMMA UserchangeSaves ==
  ASSUME TypeInv, NEW f, NEW mask,
         \/ \E pass \in NewPasswords : scriptcmd_userpass(f, mask, pass)
         \/ \E new \in Masks : scriptcmd_usermask(f, mask, new)
         \/ \E l \in NewLevels : scriptcmd_userlevel(f, mask, l)
  PROVE  Saves
<1>1. \A i \in DOMAIN users : users[i] \in UserT
  BY DEF TypeInv
<1>2. NewPasswords \subseteq Passwords /\ NewLevels \subseteq Int
  BY UsersAssumption
<1>3. CASE \E pass \in NewPasswords : scriptcmd_userpass(f, mask, pass)
  <2>1. PICK pass \in NewPasswords, i \in DOMAIN users :
          /\ status = "runs" /\ Outranks(f, mask, i)
          /\ save_users([users EXCEPT ![i].pass = pass])
    BY <1>3 DEF scriptcmd_userpass, Dispatched
  <2> DEFINE u == [users[i] EXCEPT !.pass = pass]
  <2>2. /\ u \in UserT /\ u.level = users[i].level
        /\ (u.id <=> users[i].id) /\ u.cur_mask = users[i].cur_mask
    BY <1>1, <1>2 DEF UserT
  <2>3. save_users([users EXCEPT ![i] = u])
    BY <2>1
  <2> HIDE DEF u
  <2> QED
    BY <2>1, <2>2, <2>3, OutrankedIsNoOwner, OutrankedSaves
<1>4. CASE \E new \in Masks : scriptcmd_usermask(f, mask, new)
  <2>1. PICK new \in Masks, i \in DOMAIN users :
          /\ status = "runs" /\ Outranks(f, mask, i)
          /\ save_users([users EXCEPT ![i].mask = new])
    BY <1>4 DEF scriptcmd_usermask, Dispatched
  <2> DEFINE u == [users[i] EXCEPT !.mask = new]
  <2>2. /\ u \in UserT /\ u.level = users[i].level
        /\ (u.id <=> users[i].id) /\ u.cur_mask = users[i].cur_mask
    BY <1>1 DEF UserT
  <2>3. save_users([users EXCEPT ![i] = u])
    BY <2>1
  <2> HIDE DEF u
  <2> QED
    BY <2>1, <2>2, <2>3, OutrankedIsNoOwner, OutrankedSaves
<1>5. CASE \E l \in NewLevels : scriptcmd_userlevel(f, mask, l)
  <2>1. PICK l \in NewLevels, i \in DOMAIN users :
          /\ status = "runs" /\ Outranks(f, mask, i)
          /\ match_mask_level(users, f) > l
          /\ save_users([users EXCEPT ![i].level = l])
    BY <1>5 DEF scriptcmd_userlevel, Dispatched
  <2> DEFINE u == [users[i] EXCEPT !.level = l]
  <2>2. l \in Int /\ (Bounded(users) => l <= LEVEL_MAX /\ l # LEVEL_MAX)
    BY <1>2, <2>1, GivenIsLower
  <2>3. /\ u \in UserT /\ u.level = l
        /\ (u.id <=> users[i].id) /\ u.cur_mask = users[i].cur_mask
    BY <1>1, <2>2 DEF UserT
  <2>4. save_users([users EXCEPT ![i] = u])
    BY <2>1
  <2> HIDE DEF u
  <2> QED
    BY <2>1, <2>2, <2>3, <2>4, OutrankedSaves
<1> QED
  BY <1>3, <1>4, <1>5

\* A password of one's own, and messages, change no mask and no level.
LEMMA OwnEntrySaves ==
  ASSUME TypeInv, NEW f,
         \/ \E pass \in NewPasswords : scriptcmd_setpass(f, pass)
         \/ scriptcmd_setmsg(f)
         \/ \E mask \in Masks : scriptcmd_usermsg(f, mask)
  PROVE  Saves
<1>1. CASE \E pass \in NewPasswords : scriptcmd_setpass(f, pass)
  <2> DEFINE i == match_mask2user(users, f)
  <2>1. PICK pass \in NewPasswords :
          status = "runs" /\ i # 0 /\ save_users([users EXCEPT ![i].pass = pass])
    BY <1>1 DEF scriptcmd_setpass, Dispatched
  <2>2. i \in DOMAIN users
    BY <2>1, Found
  <2> DEFINE u == [users[i] EXCEPT !.pass = pass]
  <2> HIDE DEF i
  <2>3. users[i] \in UserT
    BY <2>2, Element DEF TypeInv
  <2> HIDE DEF u
  <2>4. pass \in Passwords
    BY UsersAssumption
  <2>5. /\ u \in UserT /\ u.level = users[i].level /\ u.mask = users[i].mask
        /\ (u.id <=> users[i].id) /\ u.cur_mask = users[i].cur_mask
    BY <2>3, <2>4 DEF UserT, u
  <2>6. save_users([users EXCEPT ![i] = u])
    BY <2>1 DEF u
  <2>7. /\ [users EXCEPT ![i] = u] \in Seq(UserT)
        /\ Owners([users EXCEPT ![i] = u]) = Owners(users)
        /\ Older([users EXCEPT ![i] = u], users)
        /\ Bounded(users) /\ u.level <= LEVEL_MAX => Bounded([users EXCEPT ![i] = u])
    BY <2>2, <2>5, ReplaceKeeps DEF TypeInv
  <2>8. Bounded(users) => u.level <= LEVEL_MAX
    BY <2>2, <2>5 DEF Bounded
  <2> QED
    BY <2>1, <2>6, <2>7, <2>8 DEF Saves
<1>2. CASE scriptcmd_setmsg(f) \/ \E mask \in Masks : scriptcmd_usermsg(f, mask)
  <2>1. status = "runs" /\ save_users(users)
    BY <1>2 DEF scriptcmd_setmsg, scriptcmd_usermsg, Dispatched
  <2> QED
    BY <2>1 DEF TypeInv, Saves, Older
<1> QED
  BY <1>1, <1>2

\* Who comes, goes or gives a password changes identifications only.
LEMMA PeopleKeep ==
  ASSUME TypeInv, NEW f \in Full,
         \/ \E pass \in Passwords : scriptcmd_pass(f, pass) \/ dcc_chat_pass(f, pass)
         \/ scriptcmd_chat(f) \/ dcc_stop(f) \/ Comes(f) \/ Quits(f)
         \/ \E g \in Full : TakesNick(f, g)
  PROVE  KeepsLines
<1> DEFINE Same(us) == us \in Seq(UserT) /\ Lines(us) = Lines(users)
<1>1. Same(users)
  BY DEF TypeInv
<1>2. ASSUME NEW us, Same(us), NEW x
      PROVE  Same(match_set_id(us, x, FALSE))
  BY <1>2, SetIdKeeps
<1>3. Same(match_set_id(users, f, TRUE))
  BY <1>1, SetIdKeeps
<1>4. Same(event_quit(users, f)) /\ Same(event_nick(users, f))
  BY <1>1, <1>2 DEF event_quit, event_nick
<1>5. ASSUME NEW seen, Same(seen), NEW unheard, Gone(f, seen, unheard)
      PROVE  Same(users') /\ UNCHANGED <<file, status, torn, saved, before, odd>>
  <2> DEFINE us == IF where[f] = "channel" THEN seen ELSE users
  <2>1. Same(us)
    BY <1>1, <1>5
  <2>2. Same(reply_watchoffline(us, f))
    BY <1>2, <2>1 DEF reply_watchoffline
  <2>3. /\ users' = reply_watchoffline(us, f) \/ users' = us
        /\ UNCHANGED <<file, status, torn, saved, before, odd>>
    BY <1>5 DEF Gone
  <2> HIDE DEF us, Same
  <2> QED
    BY <2>1, <2>2, <2>3
<1>6. /\ status = "runs" /\ Same(users')
      /\ UNCHANGED <<file, status, torn, saved, before, odd>>
  <2>1. CASE \E pass \in Passwords : scriptcmd_pass(f, pass) \/ dcc_chat_pass(f, pass)
    <3>1. /\ status = "runs" /\ UNCHANGED <<file, status, torn, saved, before, odd>>
          /\ users' = match_set_id(users, f, TRUE) \/ users' = users
      BY <2>1 DEF scriptcmd_pass, dcc_chat_pass, Dispatched, Identify, history
    <3> HIDE DEF Same
    <3> QED
      BY <1>1, <1>3, <3>1
  <2>2. CASE scriptcmd_chat(f) \/ dcc_stop(f) \/ Comes(f)
    <3>1. status = "runs" /\ UNCHANGED <<file, status, torn, saved, before, odd, users>>
      BY <2>2 DEF scriptcmd_chat, dcc_stop, Comes, Moves, Dispatched, memory, history
    <3> HIDE DEF Same
    <3> QED
      BY <1>1, <3>1
  <2>3. CASE Quits(f)
    <3>1. status = "runs" /\ \E unheard : Gone(f, event_quit(users, f), unheard)
      BY <2>3 DEF Quits, Moves
    <3> HIDE DEF Same
    <3> QED
      BY <1>4, <1>5, <3>1
  <2>4. CASE \E g \in Full : TakesNick(f, g)
    <3>1. status = "runs" /\ \E unheard : Gone(f, event_nick(users, f), unheard)
      BY <2>4 DEF TakesNick
    <3> HIDE DEF Same
    <3> QED
      BY <1>4, <1>5, <3>1
  <2> QED
    BY <2>1, <2>2, <2>3, <2>4
<1> QED
  BY <1>6 DEF KeepsLines

\* So does the end of the connection.
LEMMA RestartKeeps ==
  ASSUME TypeInv, irc_restart
  PROVE  KeepsLines
<1>1. /\ status = "runs" /\ UNCHANGED <<file, status, torn, saved, before, odd>>
      /\ users' = [i \in DOMAIN users |-> [users[i] EXCEPT !.id = FALSE]]
  BY DEF irc_restart
<1>2. users' \in Seq(UserT) /\ Lines(users') = Lines(users)
  BY <1>1, ForgetKeeps DEF TypeInv
<1> QED
  BY <1>1, <1>2 DEF KeepsLines

\* Every command that changes something saves the list, but !cmdlevel.
LEMMA CommandSaves ==
  ASSUME TypeInv, NEW f \in Full, Changes(f)
  PROVE  Saves \/ \E c \in Adjusted, l \in 0..LEVEL_MAX : scriptcmd_cmdlevel(f, c, l)
  BY UseraddSaves, UserdelSaves, UserchangeSaves, OwnEntrySaves DEF Changes

\* Every step saves a list, leaves the lines alone, is a crash or a start.
LEMMA Kinds ==
  ASSUME TypeInv, [Next]_vars
  PROVE  Saves \/ KeepsLines \/ Killed \/ Start \/ UNCHANGED vars
<1>1. ASSUME NEW f \in Full, Changes(f)
      PROVE  Saves \/ KeepsLines
  <2>1. CASE \E c \in Adjusted, l \in 0..LEVEL_MAX : scriptcmd_cmdlevel(f, c, l)
    <3>1. /\ status = "runs"
          /\ UNCHANGED <<users, file, status, torn, saved, before, odd>>
      BY <2>1 DEF scriptcmd_cmdlevel, Dispatched, history
    <3> QED
      BY <3>1 DEF TypeInv, KeepsLines
  <2> QED
    BY <1>1, <2>1, CommandSaves
<1>2. ASSUME NEW f \in Full,
             \/ scriptcmd_chat(f) \/ dcc_stop(f)
             \/ \E pass \in Passwords \ {""} : \/ scriptcmd_pass(f, pass)
                                             \/ dcc_chat_pass(f, pass)
             \/ Comes(f) \/ Quits(f) \/ \E g \in Full : TakesNick(f, g)
      PROVE  KeepsLines
  BY <1>2, PeopleKeep
<1> QED
  BY <1>1, <1>2, RestartKeeps DEF Next

-----------------------------------------------------------------------------
(* The owners. *)

\* A crash and a start.
LEMMA BreakStep ==
  ASSUME TypeInv, OwnersInv, Killed \/ Start
  PROVE  TypeInv' /\ OwnersInv'
<1>1. << >> \in Seq(UserT) /\ Bounded(<< >>) /\ Plain(<< >>)
  <2>1. DOMAIN << >> = {}
    OBVIOUS
  <2> QED
    BY <2>1 DEF Bounded, Plain
<1>2. CASE Killed
  <2>1. /\ users' = <<>> /\ status' = "killed" /\ UNCHANGED file
        /\ torn' = (torn \/ FALSE)
    BY <1>2 DEF Killed, Kill
  <2>2. odd' <=> odd
    BY <1>2, Zenon DEF Killed
  <2>3. Keeps(file.lines, torn) => Keeps(file.lines, torn)'
    BY <2>1 DEF Keeps, Owners
  <2>4. Bounded(users)' /\ Plain(users)'
    BY <1>1, <2>1 DEF Bounded, Plain
  <2>5. (Bounded(file.lines) => Bounded(file.lines)') /\ (Plain(file.lines) => Plain(file.lines)')
    BY <2>1 DEF Bounded, Plain
  <2>6. (file.rest # NULL => ~Odd(file.rest.mask)) => (file.rest # NULL => ~Odd(file.rest.mask))'
    BY <2>1 DEF Odd
  <2>7. ~(status = "runs")'
    BY <2>1
  <2>8. OwnersInv'
    BY <2>2, <2>3, <2>4, <2>5, <2>6, <2>7 DEF OwnersInv
  <2>9. TypeInv'
    BY <1>1, <2>1 DEF TypeInv
  <2> QED
    BY <2>8, <2>9
<1>3. CASE Start
  <2>1. /\ UNCHANGED <<file, torn>>
        /\ \/ users' = load_users(file.lines)
           \/ /\ file.rest # NULL /\ Odd(file.rest.mask)
              /\ users' = load_users(Append(file.lines, file.rest))
           \/ UNCHANGED users /\ status' = "exited"
    BY <1>3 DEF Start, history
  <2>2. odd' <=> odd
    BY <1>3, Zenon DEF Start, history
  <2>3. file.rest # NULL => Append(file.lines, file.rest) \in Seq(LineT)
    BY DEF TypeInv
  <2>4. users' \in Seq(UserT)
    BY <2>1, <2>3, Walked DEF TypeInv
  <2>5. ~odd => \/ users' = load_users(file.lines)
                \/ UNCHANGED users /\ status' = "exited"
    BY <2>1 DEF OwnersInv
  <2>6. Plain(file.lines) => /\ Owners(load_users(file.lines)) = Owners(file.lines)
                             /\ Plain(load_users(file.lines))
                             /\ Bounded(file.lines) => Bounded(load_users(file.lines))
    BY LoadKeeps DEF TypeInv
  <2>7. ~odd => Bounded(users') /\ Plain(users')
    BY <2>5, <2>6 DEF OwnersInv
  <2>8. ~odd => (status' = "runs" => Keeps(users', torn))
    <3>1. CASE users' = load_users(file.lines)
      BY <2>6, <3>1 DEF OwnersInv, Keeps
    <3>2. CASE status' = "exited"
      BY <3>2
    <3> QED
      BY <2>5, <3>1, <3>2
  <2>9. Keeps(file.lines, torn) => Keeps(file.lines, torn)'
    BY <2>1 DEF Keeps, Owners
  <2>10. (Bounded(file.lines) => Bounded(file.lines)') /\ (Plain(file.lines) => Plain(file.lines)')
    BY <2>1 DEF Bounded, Plain
  <2>11. (file.rest # NULL => ~Odd(file.rest.mask)) => (file.rest # NULL => ~Odd(file.rest.mask))'
    BY <2>1 DEF Odd
  <2>12. ~odd => Bounded(users)' /\ Plain(users)'
    BY <2>7 DEF Bounded, Plain
  <2>13. ~odd => (status = "runs" => Keeps(users, torn))'
    BY <2>1, <2>8 DEF Keeps, Owners
  <2>14. OwnersInv'
    BY <2>2, <2>9, <2>10, <2>11, <2>12, <2>13 DEF OwnersInv
  <2>15. TypeInv'
    BY <2>1, <2>4 DEF TypeInv
  <2> QED
    BY <2>14, <2>15
<1> QED
  BY <1>2, <1>3

\* The first file has only masks that a file can hold, and no level above the highest.
LEMMA FirstFile == file_users \in Seq(LineT) /\ Plain(file_users) /\ Bounded(file_users)
<1>1. /\ file_users \in Seq([mask : Masks, pass : Passwords, level : Int])
      /\ \A i \in DOMAIN file_users : /\ file_users[i].level <= LEVEL_MAX
                                      /\ file_users[i].mask \notin comments
                                      /\ Len(parts[file_users[i].mask]) = 1
  BY UsersAssumption
<1>2. Plain(file_users)
  <2>1. ASSUME NEW i \in DOMAIN file_users PROVE ~Odd(file_users[i].mask)
    <3> DEFINE n == Len(parts[file_users[i].mask])
    <3>1. n = 1 /\ file_users[i].mask \notin comments
      BY <1>1
    <3>2. ~(n > 1)
      <4> HIDE DEF n
      <4> QED
        BY <3>1
    <3> QED
      BY <3>1, <3>2, Zenon DEF Odd
  <2> QED
    BY <2>1 DEF Plain
<1>3. Bounded(file_users)
  BY <1>1 DEF Bounded
<1> QED
  BY <1>1, <1>2, <1>3 DEF LineT

\* What the bot has loaded from the first file satisfies the invariant.
LEMMA OwnersInit == Init => TypeInv /\ OwnersInv
<1> SUFFICES ASSUME Init PROVE TypeInv /\ OwnersInv
  OBVIOUS
<1>1. /\ load_users(file_users) \in Seq(UserT)
      /\ Owners(load_users(file_users)) = Owners(file_users)
      /\ Plain(load_users(file_users)) /\ Bounded(load_users(file_users))
  BY FirstFile, Walked, LoadKeeps
<1>2. file.lines = file_users /\ file.rest = NULL /\ users = load_users(file_users)
  BY DEF Init
<1>3. TypeInv
  BY <1>1, <1>2, FirstFile DEF TypeInv
<1>4. OwnersInv
  BY <1>1, <1>2, FirstFile DEF OwnersInv, Keeps
<1> QED
  BY <1>3, <1>4

\* Every step of the specification keeps it.
LEMMA OwnersNext == TypeInv /\ OwnersInv /\ [Next]_vars => TypeInv' /\ OwnersInv'
<1> SUFFICES ASSUME TypeInv, OwnersInv, [Next]_vars PROVE TypeInv' /\ OwnersInv'
  OBVIOUS
<1>1. CASE Saves
  BY <1>1, SaveStep
<1>2. CASE UNCHANGED vars
  <2>1. UNCHANGED <<users, file, status, torn>>
    BY <1>2 DEF vars, memory, history
  <2>2. odd' <=> odd
    BY <1>2, Zenon DEF vars, history
  <2>3. TypeInv'
    BY <2>1 DEF TypeInv
  <2>4. OwnersInv'
    BY <2>1, <2>2 DEF OwnersInv, Bounded, Plain, Keeps, Owners, Odd
  <2> QED
    BY <2>3, <2>4
<1> QED
  BY <1>1, <1>2, Kinds, LinesStep, BreakStep

(* No sequence of commands, with any number of people, entries, masks,       *)
(* crashes and full disks, makes a user of the highest level, takes one out  *)
(* or changes his mask: scriptcmd_useradd and the others compare levels with *)
(* a strict ">".  That is as long as no mask is given that has a ":" or      *)
(* starts with "#": such a user may have the highest level after a start.    *)
THEOREM UsersKeepOwners == Spec => []OwnersStay
<1>1. OwnersInv => OwnersStay
  BY DEF OwnersInv, Keeps, OwnersStay
<1> QED
  BY <1>1, OwnersInit, OwnersNext, PTL DEF Spec

-----------------------------------------------------------------------------
(* Who is identified. *)

\* new differs from old only in that some are identified no more; that f is.
Less(new, old) ==
  /\ DOMAIN new = DOMAIN old
  /\ \A i \in DOMAIN old :
       /\ new[i].mask = old[i].mask
       /\ new[i].id => old[i].id /\ new[i].cur_mask = old[i].cur_mask
More(new, old, f) ==
  /\ DOMAIN new = DOMAIN old
  /\ \A i \in DOMAIN old :
       new[i].id => \/ new[i].cur_mask = f
                    \/ old[i].id /\ new[i].cur_mask = old[i].cur_mask

\* Forgetting who x is resets the first entry that fits, and no other.
LEMMA Forgotten ==
  ASSUME NEW us \in Seq(UserT), NEW x
  PROVE  /\ Less(match_set_id(us, x, FALSE), us)
         /\ \A i \in DOMAIN us :
              match_set_id(us, x, FALSE)[i].id => i # match_mask2user(us, x)
<1> DEFINE new == match_set_id(us, x, FALSE)
           k == match_mask2user(us, x)
           u == [us[k] EXCEPT !.id = FALSE, !.cur_mask = NULL]
<1>1. new = IF k = 0 THEN us ELSE [us EXCEPT ![k] = u]
  BY DEF match_set_id
<1>2. k # 0 => k \in DOMAIN us
  BY Found
<1>3. 0 \notin DOMAIN us
  OBVIOUS
<1>4. k # 0 => u.mask = us[k].mask /\ ~u.id
  <2> HIDE DEF k
  <2>1. k # 0 => us[k] \in UserT
    BY <1>2
  <2> QED
    BY <2>1 DEF UserT
<1> HIDE DEF k, u, new
<1>5. CASE k = 0
  BY <1>1, <1>3, <1>5 DEF k, new, Less
<1>6. CASE k # 0
  <2>1. DOMAIN new = DOMAIN us /\ \A i \in DOMAIN us : new[i] = IF i = k THEN u ELSE us[i]
    BY <1>1, <1>6
  <2> QED
    BY <1>2, <1>4, <1>6, <2>1 DEF k, new, Less
<1> QED
  BY <1>5, <1>6

\* A password identifies who gave it, and nobody else anew.
LEMMA Identified ==
  ASSUME NEW us \in Seq(UserT), NEW f
  PROVE  More(match_set_id(us, f, TRUE), us, f)
<1> DEFINE new == match_set_id(us, f, TRUE)
           k == match_mask2user(us, f)
           u == [us[k] EXCEPT !.id = TRUE, !.cur_mask = f]
<1>1. new = IF k = 0 THEN us ELSE [us EXCEPT ![k] = u]
  BY DEF match_set_id
<1>2. k # 0 => k \in DOMAIN us
  BY Found
<1>3. k # 0 => u.cur_mask = f
  <2> HIDE DEF k
  <2>1. k # 0 => us[k] \in UserT
    BY <1>2
  <2> QED
    BY <2>1 DEF UserT
<1> HIDE DEF k, u, new
<1>4. CASE k = 0
  BY <1>1, <1>4 DEF new, More
<1>5. CASE k # 0
  <2>1. DOMAIN new = DOMAIN us /\ \A i \in DOMAIN us : new[i] = IF i = k THEN u ELSE us[i]
    BY <1>1, <1>5
  <2> QED
    BY <1>3, <1>5, <2>1 DEF new, More
<1> QED
  BY <1>4, <1>5

\* The first entry that fits depends on the masks only.
LEMMA FirstByMask ==
  ASSUME NEW us, NEW new, DOMAIN new = DOMAIN us,
         \A i \in DOMAIN us : new[i].mask = us[i].mask, NEW x
  PROVE  match_mask2user(new, x) = match_mask2user(us, x)
<1>1. {i \in DOMAIN new : x \in fits[new[i].mask]} = {i \in DOMAIN us : x \in fits[us[i].mask]}
  OBVIOUS
<1> QED
  BY <1>1 DEF match_mask2user

\* Nobody new is identified, and those who are have as much reason as before.
LEMMA OlderAccess ==
  ASSUME AccessInv, Older(users', users), earned' \in [Full -> BOOLEAN],
         \A i \in DOMAIN users' : users'[i].id =>
           \A f \in Full : users'[i].cur_mask = f /\ (earned[f] \/ f \in slipped)
                            => earned'[f] \/ f \in slipped'
  PROVE  AccessInv'
<1>1. ASSUME NEW i \in DOMAIN users', users'[i].id
      PROVE  \E f \in Full : users'[i].cur_mask = f /\ (earned'[f] \/ f \in slipped')
  <2>1. PICK j \in DOMAIN users : users[j].id /\ users[j].cur_mask = users'[i].cur_mask
    BY <1>1 DEF Older
  <2>2. PICK f \in Full : users[j].cur_mask = f /\ (earned[f] \/ f \in slipped)
    BY <2>1 DEF AccessInv
  <2> QED
    BY <1>1, <2>1, <2>2
<1> QED
  BY <1>1 DEF AccessInv

\* A list that identifies nobody is in order.
LEMMA NobodyAccess ==
  ASSUME \A i \in DOMAIN users' : ~users'[i].id, earned' \in [Full -> BOOLEAN]
  PROVE  AccessInv'
  BY DEF AccessInv

\* A crash leaves nobody identified.
LEMMA KillAccess ==
  ASSUME NEW us, NEW saving, Kill(us, saving)
  PROVE  AccessInv'
<1>1. users' = <<>> /\ earned' = [f \in Full |-> FALSE]
  BY DEF Kill
<1>2. DOMAIN users' = {}
  BY <1>1
<1>3. earned' \in [Full -> BOOLEAN]
  BY <1>1, Zenon
<1> QED
  BY <1>2, <1>3, NobodyAccess

\* A list that is saved identifies nobody anew.
LEMMA SavesAccess ==
  ASSUME AccessInv, Saves
  PROVE  AccessInv'
<1>1. PICK us : Older(us, users) /\ save_users(us)
  BY DEF Saves
<1>2. CASE users' = us /\ UNCHANGED <<earned, slipped>>
  BY <1>1, <1>2, OlderAccess DEF AccessInv
<1>3. CASE Kill(us, TRUE)
  BY <1>3, KillAccess
<1> QED
  BY <1>1, <1>2, <1>3 DEF save_users

\* A password is what earns it.
LEMMA IdentifyAccess ==
  ASSUME TypeInv, AccessInv, NEW f \in Full, Identify(f)
  PROVE  AccessInv'
<1>1. /\ users \in Seq(UserT) /\ users' = match_set_id(users, f, TRUE)
      /\ earned' = [earned EXCEPT ![f] = TRUE] /\ slipped' = slipped
  BY DEF Identify, TypeInv
<1>2. More(users', users, f)
  BY <1>1, Identified
<1>3. earned' \in [Full -> BOOLEAN]
  BY <1>1, Zenon DEF AccessInv
<1>4. \A g \in Full : earned[g] => earned'[g]
  BY <1>1 DEF AccessInv
<1>5. earned'[f]
  BY <1>1 DEF AccessInv
<1>6. ASSUME NEW i \in DOMAIN users', users'[i].id
      PROVE  \E g \in Full : users'[i].cur_mask = g /\ (earned'[g] \/ g \in slipped')
  <2>1. CASE users'[i].cur_mask = f
    BY <1>5, <2>1
  <2>2. CASE users[i].id /\ users'[i].cur_mask = users[i].cur_mask
    <3>1. PICK g \in Full : users[i].cur_mask = g /\ (earned[g] \/ g \in slipped)
      BY <1>2, <1>6, <2>2 DEF AccessInv, More
    <3> QED
      BY <1>1, <1>4, <2>2, <3>1
  <2> QED
    BY <1>2, <1>6, <2>1, <2>2 DEF More
<1> QED
  BY <1>3, <1>6 DEF AccessInv

\* Who goes and has not slipped is identified no more.
LEMMA GoneAccess ==
  ASSUME TypeInv, AccessInv, NEW f \in Full, NEW seen, NEW unheard,
         Gone(f, seen, unheard),
         seen = users \/ seen = match_set_id(users, f, FALSE),
         ~unheard => ~Shadowed(f, f) /\ seen = match_set_id(users, f, FALSE)
  PROVE  AccessInv'
<1> DEFINE shared == where[f] = "channel"
           asked == nick[f] \in watched
           us == IF shared THEN seen ELSE users
<1>1. users \in Seq(UserT)
  BY DEF TypeInv
<1>2. Less(users, users) /\ Less(match_set_id(users, f, FALSE), users)
  BY <1>1, Forgotten DEF Less
<1>3. us \in Seq(UserT) /\ Less(us, users)
  <2>1. match_set_id(users, f, FALSE) \in Seq(UserT)
    BY <1>1, SetIdKeeps
  <2>2. us = users \/ us = match_set_id(users, f, FALSE)
    OBVIOUS
  <2> HIDE DEF us
  <2> QED
    BY <1>1, <1>2, <2>1, <2>2
<1>4. /\ users' = IF asked THEN match_set_id(us, offline[f], FALSE) ELSE us
      /\ earned' = [earned EXCEPT ![f] = @ /\ ~shared /\ ~asked]
      /\ slipped' = IF (shared => unheard) /\ (asked => Shadowed(f, offline[f]))
                    THEN slipped \cup {f} ELSE slipped
  BY DEF Gone, reply_watchoffline
<1>5. \A x : match_mask2user(us, x) = match_mask2user(users, x)
  BY <1>3, FirstByMask DEF Less
<1> HIDE DEF us
<1>6. Less(users', us)
  <2>1. CASE asked
    BY <1>3, <1>4, <2>1, Forgotten
  <2>2. CASE ~asked
    BY <1>4, <2>2 DEF Less
  <2> QED
    BY <2>1, <2>2
<1>7. Less(users', users)
  BY <1>3, <1>6 DEF Less
<1>8. ASSUME NEW i \in DOMAIN users', users'[i].id, f \notin slipped'
      PROVE  users'[i].cur_mask # f
  <2>1. /\ i \in DOMAIN users /\ i \in DOMAIN us
        /\ users[i].id /\ users'[i].cur_mask = users[i].cur_mask
    BY <1>3, <1>7, <1>8 DEF Less
  <2>2. CASE shared /\ ~unheard
    <3>1. us = match_set_id(users, f, FALSE) /\ ~Shadowed(f, f)
      BY <2>2 DEF us
    <3>2. us[i].id
      BY <1>6, <1>8, <2>1 DEF Less
    <3>3. i # match_mask2user(users, f)
      BY <1>1, <2>1, <3>1, <3>2, Forgotten
    <3> QED
      BY <2>1, <3>1, <3>3 DEF Shadowed
  <2>3. CASE asked /\ ~Shadowed(f, offline[f])
    <3>1. users' = match_set_id(us, offline[f], FALSE)
      BY <1>4, <2>3
    <3>2. i # match_mask2user(us, offline[f])
      BY <1>3, <1>8, <2>1, <3>1, Forgotten
    <3> QED
      BY <1>5, <2>1, <2>3, <3>2 DEF Shadowed
  <2>4. ~((shared => unheard) /\ (asked => Shadowed(f, offline[f])))
    BY <1>4, <1>8
  <2> QED
    BY <2>2, <2>3, <2>4
<1>9. earned' \in [Full -> BOOLEAN] /\ \A g \in Full : g # f => (earned'[g] <=> earned[g])
  <2>1. earned' \in [Full -> BOOLEAN]
    BY <1>4, Zenon DEF AccessInv
  <2>2. \A g \in Full : g # f => (earned'[g] <=> earned[g])
    BY <1>4 DEF AccessInv
  <2> QED
    BY <2>1, <2>2
<1>10. slipped \subseteq slipped'
  BY <1>4
<1>11. Older(users', users)
  BY <1>7 DEF Older, Less
<1> HIDE DEF shared, asked, us
<1> QED
  BY <1>8, <1>9, <1>10, <1>11, OlderAccess

\* A number is positive or not.
LEMMA PositiveOrNot == \A l \in Int : ~(l <= 0) => l > 0
  OBVIOUS

\* Those who come, go, open a chat or give a password.
LEMMA PeopleAccess ==
  ASSUME TypeInv, AccessInv, NEW f \in Full,
         \/ scriptcmd_chat(f) \/ dcc_stop(f)
         \/ \E pass \in Passwords \ {""} : scriptcmd_pass(f, pass) \/ dcc_chat_pass(f, pass)
         \/ Comes(f) \/ Quits(f) \/ \E g \in Full : TakesNick(f, g)
  PROVE  AccessInv'
<1>1. CASE UNCHANGED <<users, earned, slipped>>
  BY <1>1 DEF AccessInv
<1>2. CASE Identify(f)
  BY <1>2, IdentifyAccess
<1>3. CASE Quits(f)
  <2> DEFINE unheard == Shadowed(f, f) \/ match_mask_level(users, f) <= 0
  <2>1. Gone(f, event_quit(users, f), unheard)
    BY <1>3 DEF Quits
  <2>2. ~(match_mask_level(users, f) <= 0) => match_mask_level(users, f) > 0
    <3>1. match_mask_level(users, f) \in Int
      BY LevelIsBounded DEF TypeInv
    <3> QED
      BY <3>1, PositiveOrNot, Zenon
  <2>3. ~unheard => ~Shadowed(f, f) /\ event_quit(users, f) = match_set_id(users, f, FALSE)
    BY <2>2, Zenon DEF event_quit
  <2>4. event_quit(users, f) = users \/ event_quit(users, f) = match_set_id(users, f, FALSE)
    BY DEF event_quit
  <2> HIDE DEF unheard
  <2> QED
    BY <2>1, <2>3, <2>4, GoneAccess
<1>4. CASE \E g \in Full : TakesNick(f, g)
  <2> DEFINE unheard == Shadowed(f, f) \/ match_mask_level(users, f) = 0
  <2>1. Gone(f, event_nick(users, f), unheard)
    BY <1>4 DEF TakesNick
  <2>2. ~unheard => ~Shadowed(f, f) /\ event_nick(users, f) = match_set_id(users, f, FALSE)
    BY DEF event_nick
  <2>3. event_nick(users, f) = users \/ event_nick(users, f) = match_set_id(users, f, FALSE)
    BY DEF event_nick
  <2> HIDE DEF unheard
  <2> QED
    BY <2>1, <2>2, <2>3, GoneAccess
<1> QED
  BY <1>1, <1>2, <1>3, <1>4
     DEF scriptcmd_chat, dcc_stop, scriptcmd_pass, dcc_chat_pass, Comes, memory, history

\* Every step of the specification.
LEMMA AccessNext == TypeInv /\ AccessInv /\ [Next]_vars => AccessInv'
<1> SUFFICES ASSUME TypeInv, AccessInv, [Next]_vars PROVE AccessInv'
  OBVIOUS
<1>1. ASSUME NEW f \in Full, Changes(f)
      PROVE  AccessInv'
  <2>1. CASE \E c \in Adjusted, l \in 0..LEVEL_MAX : scriptcmd_cmdlevel(f, c, l)
    BY <2>1 DEF scriptcmd_cmdlevel, history, AccessInv
  <2> QED
    BY <1>1, <2>1, CommandSaves, SavesAccess
<1>2. CASE irc_restart
  <2>1. /\ earned' = [f \in Full |-> FALSE]
        /\ users' = [i \in DOMAIN users |-> [users[i] EXCEPT !.id = FALSE]]
    BY <1>2 DEF irc_restart
  <2>2. earned' \in [Full -> BOOLEAN]
    BY <2>1, Zenon
  <2>3. \A i \in DOMAIN users : users[i] \in UserT
    BY Element DEF TypeInv
  <2>4. \A i \in DOMAIN users' : ~users'[i].id
    BY <2>1, <2>3 DEF UserT
  <2> QED
    BY <2>2, <2>4, NobodyAccess
<1>3. CASE Killed
  BY <1>3, KillAccess DEF Killed
<1>4. CASE Start
  <2>1. /\ UNCHANGED <<earned, slipped>>
        /\ \/ users' = load_users(file.lines)
           \/ file.rest # NULL /\ users' = load_users(Append(file.lines, file.rest))
           \/ UNCHANGED users
    BY <1>4 DEF Start, history
  <2>2. file.rest # NULL => Append(file.lines, file.rest) \in Seq(LineT)
    BY DEF TypeInv
  <2>3. CASE UNCHANGED users
    BY <2>1, <2>3 DEF AccessInv
  <2>4. CASE ~UNCHANGED users
    <3>1. \A i \in DOMAIN users' : ~users'[i].id
      BY <2>1, <2>2, <2>4, Walked DEF TypeInv
    <3> QED
      BY <2>1, <3>1, NobodyAccess DEF AccessInv
  <2> QED
    BY <2>3, <2>4
<1>5. CASE UNCHANGED vars
  BY <1>5 DEF vars, memory, history, AccessInv
<1> QED
  BY <1>1, <1>2, <1>3, <1>4, <1>5, PeopleAccess DEF Next

(* A level above 1 is that of somebody who has given a password since the    *)
(* bot was last told that he had gone, or who slipped by it: the cases in    *)
(* which event_quit, event_nick and reply_watchoffline reset no entry or     *)
(* that of somebody else, for any masks that overlap in any way.             *)
THEOREM AccessIsEarned == Spec => []AccessEarned
<1>1. Init => AccessInv
  <2> SUFFICES ASSUME Init PROVE AccessInv
    OBVIOUS
  <2>1. file_users \in Seq(LineT)
    BY FirstFile
  <2>2. users = load_users(file_users) /\ earned = [f \in Full |-> FALSE]
    BY DEF Init
  <2>3. earned \in [Full -> BOOLEAN]
    BY <2>2, Zenon
  <2>4. \A i \in DOMAIN users : ~users[i].id
    BY <2>1, <2>2, Walked
  <2> QED
    BY <2>3, <2>4 DEF AccessInv
<1>2. TypeInv /\ AccessInv => AccessEarned
  <2> SUFFICES ASSUME TypeInv, AccessInv, NEW f \in Full, match_mask_level(users, f) > 1
               PROVE  earned[f] \/ f \in slipped
    BY DEF AccessEarned
  <2> DEFINE i == match_mask2user(users, f)
  <2>1. i # 0 => i \in DOMAIN users
    BY Found
  <2> HIDE DEF i
  <2>2. i # 0 /\ users[i].id /\ users[i].cur_mask = f
    <3>1. i # 0 => users[i].level \in Int
      <4>1. i # 0 => users[i] \in UserT
        BY <2>1, Element DEF TypeInv
      <4> QED
        BY <4>1 DEF UserT
    <3> QED
      BY <3>1 DEF match_mask_level, i
  <2> QED
    BY <2>1, <2>2 DEF AccessInv
<1> QED
  BY <1>1, <1>2, OwnersInit, OwnersNext, AccessNext, PTL DEF Spec

-----------------------------------------------------------------------------
(* The file. *)

\* A saved list is in the file, or the save failed, or what a crash left is.
LEMMA SavesFile ==
  ASSUME TypeInv, FileInv, Saves
  PROVE  FileInv'
<1>1. PICK us \in Seq(UserT) : status = "runs" /\ save_users(us)
  BY DEF Saves
<1>2. SavedAs(us) /\ (~odd' => ~odd /\ Plain(us))
  BY <1>1, SaveIs
<1>3. CASE /\ users' = us /\ UNCHANGED <<status, before>>
           /\ \/ file' = [lines |-> Lines(us), rest |-> NULL] /\ saved' = "whole"
              \/ saved' # "whole"
  <2>1. saved' = "whole" => file'.rest = NULL /\ file'.lines = Lines(users')
    BY <1>3
  <2>2. Alike(Lines(users'), Lines(users'))
    BY DEF Alike
  <2>3. status' # "killed"
    BY <1>1, <1>3
  <2> QED
    BY <2>1, <2>2, <2>3 DEF FileInv, Alike, Lines
<1>4. CASE /\ users' = <<>> /\ status' = "killed"
           /\ before' = UNION {ToSet(l) : l \in {Lines(users), Lines(us), file.lines}}
           /\ \E n \in 0..(Len(us) - 1), cut \in BOOLEAN : file' = Part(us, n, cut)
  <2>1. PICK n \in 0..(Len(us) - 1), cut \in BOOLEAN : file' = Part(us, n, cut)
    BY <1>4
  <2>2. ToSet(file'.lines) \subseteq ToSet(Lines(us))
    BY <2>1, PartKeeps
  <2>3. ToSet(Lines(us)) \subseteq before'
    BY <1>4
  <2> QED
    BY <1>4, <2>2, <2>3 DEF FileInv
<1> QED
  BY <1>2, <1>3, <1>4 DEF SavedAs

\* What a start finds in the file was there before the crash.
LEMMA StartLoads ==
  ASSUME TypeInv, OwnersInv, FileInv, Start, ~odd
  PROVE  ToSet(Lines(users')) \subseteq before
<1>1. /\ file.lines \in Seq(LineT) /\ Plain(file.lines)
      /\ users = <<>> /\ ToSet(file.lines) \subseteq before
      /\ users' = load_users(file.lines) \/ users' = users
  BY DEF Start, TypeInv, OwnersInv, FileInv
<1>2. CASE users' = load_users(file.lines)
  BY <1>1, <1>2, LoadKeeps
<1>3. CASE users' = users
  <2>1. DOMAIN Lines(users') = {}
    BY <1>1, <1>3 DEF Lines
  <2> QED
    BY <2>1 DEF ToSet
<1> QED
  BY <1>1, <1>2, <1>3

\* Every step of the specification.
LEMMA FileNext == TypeInv /\ OwnersInv /\ FileInv /\ [Next]_vars => FileInv'
<1> SUFFICES ASSUME TypeInv, OwnersInv, FileInv, [Next]_vars PROVE FileInv'
  OBVIOUS
<1>1. CASE KeepsLines
  <2>1. status' = "runs" /\ file' = file /\ Lines(users') = Lines(users) /\ saved' = saved
    BY <1>1 DEF KeepsLines
  <2>2. odd' <=> odd
    BY <1>1, Zenon DEF KeepsLines
  <2>3. status = "runs"
    BY <1>1 DEF KeepsLines
  <2> QED
    BY <2>1, <2>2, <2>3 DEF FileInv, Alike, Lines
<1>2. CASE Killed
  <2>1. /\ users' = <<>> /\ status' = "killed" /\ UNCHANGED file
        /\ before' = UNION {ToSet(l) : l \in {Lines(users), file.lines}}
    BY <1>2 DEF Killed, Kill
  <2>2. ToSet(file.lines) \subseteq before'
    BY <2>1
  <2> QED
    BY <2>1, <2>2 DEF FileInv
<1>3. CASE Start
  <2>1. /\ UNCHANGED file /\ saved' = saved
        /\ \/ status' = "runs" /\ file.rest = NULL /\ users' = load_users(file.lines)
           \/ status' = "runs" /\ file.rest # NULL /\ Odd(file.rest.mask)
           \/ status' = "exited"
    BY <1>3 DEF Start, history
  <2>2. odd' <=> odd
    BY <1>3, Zenon DEF Start, history
  <2>3. ~odd => Alike(file.lines, Lines(load_users(file.lines)))
    BY LoadKeeps DEF TypeInv, OwnersInv
  <2>4. ~odd => \/ status' = "runs" /\ file.rest = NULL /\ users' = load_users(file.lines)
                \/ status' = "exited"
    BY <2>1 DEF OwnersInv
  <2> QED
    BY <2>1, <2>2, <2>3, <2>4 DEF FileInv, Alike, Lines
<1>4. CASE UNCHANGED vars
  <2>1. UNCHANGED <<users, file, status, before, saved>>
    BY <1>4 DEF vars, memory, history
  <2>2. odd' <=> odd
    BY <1>4, Zenon DEF vars, history
  <2> QED
    BY <2>1, <2>2 DEF FileInv, Alike, Lines
<1> QED
  BY <1>1, <1>2, <1>3, <1>4, Kinds, SavesFile

\* What is loaded at first is what is in the file.
LEMMA FileInit == Init => FileInv
<1> SUFFICES ASSUME Init PROVE FileInv
  OBVIOUS
<1>1. Alike(file_users, Lines(load_users(file_users)))
  BY FirstFile, LoadKeeps
<1> QED
  BY <1>1 DEF Init, FileInv

(* Whatever commands are given, and wherever a crash comes, a start would    *)
(* load the lines of the list in memory, each as often, unless the last save *)
(* failed or was cut short: every command that changes an entry ends with    *)
(* save_users, and reading undoes writing as long as no mask was given that  *)
(* has a ":" or starts with "#".                                             *)
THEOREM FileIsKept == Spec => []SavedIsKept
<1>1. TypeInv /\ OwnersInv /\ FileInv => SavedIsKept
  <2> SUFFICES ASSUME TypeInv, OwnersInv, FileInv, status = "runs", saved = "whole", ~odd
               PROVE  /\ file.rest = NULL
                      /\ \A l : Often(Lines(load_users(file.lines)), l) = Often(Lines(users), l)
    BY DEF SavedIsKept
  <2>1. file.rest = NULL /\ Alike(file.lines, Lines(users))
    BY DEF FileInv
  <2>2. Alike(file.lines, Lines(load_users(file.lines)))
    BY LoadKeeps DEF TypeInv, OwnersInv
  <2> QED
    BY <2>1, <2>2 DEF Alike
<1> QED
  BY <1>1, OwnersInit, OwnersNext, FileInit, FileNext, PTL DEF Spec

(* load_users makes no user out of what is left of a line that was cut off:  *)
(* after a crash at any point of a save, each user was there before it, with *)
(* his mask, password and level, as long as no mask was given that has a     *)
(* ":" or starts with "#".                                                   *)
THEOREM LoadedWasThere == Spec => LoadsWhatWas
<1>1. ASSUME TypeInv, OwnersInv, FileInv, [Next]_vars
      PROVE  [status = "killed" /\ ~odd => ToSet(Lines(users')) \subseteq before]_vars
  <2>1. Saves \/ KeepsLines => status = "runs"
    BY DEF Saves, KeepsLines
  <2>2. Killed => status = "runs"
    BY DEF Killed
  <2>3. Saves \/ KeepsLines \/ Killed \/ Start \/ UNCHANGED vars
    BY <1>1, Kinds
  <2>4. CASE Start
    BY <1>1, <2>4, StartLoads
  <2> QED
    BY <2>1, <2>2, <2>3, <2>4
<1> QED
  BY <1>1, OwnersInit, OwnersNext, FileInit, FileNext, PTL DEF Spec, LoadsWhatWas
===============================================================================
