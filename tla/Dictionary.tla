------------------------------ MODULE Dictionary ------------------------------
(***************************************************************************)
(* What the module word promises to the people on IRC: each word has a     *)
(* definition or none, a command changes the word it names and no other,   *)
(* and its answer says what it did, but that more than a definition has    *)
(* room for is cut.  If the program is killed, the word it was changing    *)
(* may have lost its definition, and no other word has, unless only a part *)
(* of the lines behind it were copied.  Of a damaged file nothing else is  *)
(* promised.                                                               *)
(***************************************************************************)
EXTENDS Naturals, SequencesExt

CONSTANTS
  Keys,   \* words that may be defined
  Texts,  \* what they are given as definition: sequences
  Nums,   \* how many words of a definition are deleted
  Size,        \* Size[s]: the length of a word of a definition
  First(_, _), \* First(s, n): the first n bytes of it
  Room(_)      \* whether a definition is short enough

VARIABLES
  meaning, \* meaning[w]: the words of w's definition, << >> for none
  torn,    \* whether it was killed at a moment that left the file damaged: "no"; "tail", at
           \* its end; or "mixed", the lines behind the word
  answer   \* the answer to the last command

Init == meaning \in [Keys -> Seq(UNION {{t[i] : i \in DOMAIN t} : t \in Texts})]
        /\ torn = "no" /\ answer = << >>

Change(w, d) == meaning' = [meaning EXCEPT ![w] = d]
Same == UNCHANGED meaning
Has(w) == meaning[w] # << >>

\* A temporary file that cannot be made: nothing changes.
Error(w) == answer' = <<"error", w>> /\ Has(w) /\ Same

Learned(w) == answer' = <<IF Has(w) THEN "changed" ELSE "added", w>>

Learn(w, t) == (Learned(w) /\ Change(w, t)) \/ Error(w)

\* The beginnings of d, with the first bytes of the word that follows or without.
Beginnings(d) ==
  UNION {{SubSeq(d, 1, n), SubSeq(d, 1, n) \o <<First(d[n + 1], b)>>} :
           n \in 0..(Len(d) - 1), b \in UNION {0..(Size[d[i]] - 1) : i \in DOMAIN d}}

LearnPlus(w, t) ==
  \/ /\ Learned(w)
     /\ LET d == meaning[w] \o t IN
          \E m \in {d} \cup (IF Room(d) THEN {} ELSE Beginnings(d)) : Change(w, m)
  \/ Error(w)

\* The words of a definition: it may end with an empty one.
Said(d) == IF d # << >> /\ Size[Last(d)] = 0 THEN Front(d) ELSE d

LearnMinus(w, num) ==
  \/ /\ answer' = <<"changed", w>>
     /\ LET d == Said(meaning[w]) IN num < Len(d) /\ Change(w, SubSeq(d, 1, Len(d) - num))
  \/ answer' = <<"refused", w, num>> /\ Same
  \/ Error(w)

Forget(w) ==
  \/ answer' = <<"deleted", w>> /\ Has(w) /\ Change(w, << >>)
  \/ Error(w)

Absent(w) == answer' = <<"absent", w>> /\ ~Has(w) /\ Same

Ask(w) == answer' = <<"is", w, meaning[w]>> /\ Same

\* A word that has no definition may get one from the end of a damaged file.
Killed(w) ==
  /\ answer' = << >>
  /\ \/ torn' = "no" /\ (Same \/ Change(w, << >>))
     \/ torn' = "tail" /\ \A v \in Keys \ {w} : Has(v) => meaning'[v] = meaning[v]
     \/ torn' = "mixed"

Damaged == torn # "no" /\ UNCHANGED torn

Next ==
  \/ Damaged
  \/ \E w \in Keys :
       \/ Killed(w)
       \/ /\ UNCHANGED torn
          /\ \/ \E t \in Texts : Learn(w, t) \/ LearnPlus(w, t)
             \/ \E num \in Nums : LearnMinus(w, num)
             \/ Forget(w) \/ Absent(w) \/ Ask(w)

Spec == Init /\ [][Next]_<<meaning, torn, answer>>

================================================================================
