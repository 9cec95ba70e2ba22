--------------------------------- MODULE Words ---------------------------------
(***************************************************************************)
(* The module word: a file with a line for each word, and a table of the   *)
(* words in memory that knows at which byte each line begins.  A word is   *)
(* changed by deleting its line, for which the lines behind it are copied  *)
(* over it and the file is cut, and by adding a line at the end.  After a  *)
(* deletion the places of all words are read anew from the file.           *)
(*                                                                         *)
(* The table is a sequence in the order of registration: a lookup searches *)
(* one hash list, where that order is kept, by the whole word, so that     *)
(* which words share a list makes no difference.  A definition is a        *)
(* sequence of words with one space between them; it may begin with one,   *)
(* and end with one where it was cut at the size of a message: its last    *)
(* word is then First(s, 0).  The program may be killed while the file is  *)
(* half rewritten; what it makes of such a file is left out, but for what  *)
(* it finds there at the next start.                                       *)
(***************************************************************************)
EXTENDS Naturals, SequencesExt

CONSTANTS
  Keys,     \* words that may be defined
  Piece,    \* what is left of a line whose beginning was overwritten
  Size,     \* Size[s]: the length of each key and of each word of a text
  First(_, _), \* First(s, n): the first n bytes of a word of a text
  Texts,    \* what is learned
  Nums,     \* of words to delete
  Files,    \* word files to start with
  MSG_SIZE, \* of a definition with its end
  Buffer,   \* bytes that the stream keeps before it writes them to the file
  MaxOps,   \* bound: commands that change the file
  MaxKills  \* bound: times the program is killed

VARIABLES
  file,     \* the lines of the file
  words,    \* the table: where each word's line begins
  up,       \* whether the program runs
  torn,     \* history: how it was killed with a file half rewritten: "no", "tail" when the
            \* file was not cut yet, "mixed" when not all lines were copied
  answer,   \* the answer to the last command
  ops, kills

wordVars == <<file, words, up, torn, answer, ops, kills>>

Text(lead, toks) == [lead |-> lead, toks |-> toks]
None == Text(FALSE, << >>)

\* Bytes of a definition, and of a line with its space and line end and what is left in it
\* of another line.
Length(d) ==
  (IF d.lead THEN 1 ELSE 0) + Len(d.toks) - 1 + FoldLeft(LAMBDA n, t : n + Size[t], 0, d.toks)
Bytes(line) == line.stale + IF line.text = None THEN 0 ELSE Size[line.word] + Length(line.text) + 2
Offset(lines, k) == FoldLeft(LAMBDA n, l : n + Bytes(l), 0, SubSeq(lines, 1, k - 1))
End(lines) == Offset(lines, Len(lines) + 1)
Line(w, d) == [word |-> w, text |-> d, stale |-> 0]

PlacesOf(table, w) == {i \in DOMAIN table : table[i].word = w}

get_word(table, w) == PlacesOf(table, w) # {}

\* The line that is read from where the table says it begins.
LineNo(w) ==
  LET index == words[Min(PlacesOf(words, w))].index IN
    CHOOSE k \in DOMAIN file : Offset(file, k) = index

word2text(w) == IF get_word(words, w) THEN file[LineNo(w)].text ELSE None

setup_words(lines) ==
  [k \in DOMAIN lines |-> [word |-> lines[k].word, index |-> Offset(lines, k)]]

\* The indexes are those from before the deletion.
Rearranged_Wrong(table, lines) == table

\* Each line's beginning is given to the first entry of its word: of lines with
\* the same word the last one counts, and other entries keep what they had.
Rearranged(table, lines) ==
  [i \in DOMAIN table |->
     LET ks == PlacesOf(lines, table[i].word) IN
       IF ks # {} /\ i = Min(PlacesOf(table, table[i].word))
         THEN [table[i] EXCEPT !.index = Offset(lines, Max(ks))]
         ELSE table[i]]

\* The file without line k, and the table after del_word.
Without(k) == RemoveAt(file, k)
Unregistered(w) == RemoveAt(words, Min(PlacesOf(words, w)))

\* The file is cut before the lines are copied.
Overwritten_Wrong(k, first) == SubSeq(file, 1, k - 1)

\* The lines behind k are copied over it, but the file is not cut yet: at its
\* end are the last bytes of the old one, as many as line k had.  If these
\* begin inside of a line, this one is taken for the definition of first.
Overwritten(k, first) ==
  LET bytes == Bytes(file[k])
      whole == {j \in DOMAIN file : End(file) - Offset(file, j) <= bytes}
      left  == IF whole = {} THEN bytes ELSE bytes - (End(file) - Offset(file, Min(whole)))
      piece == IF left = 0 THEN << >> ELSE << [word |-> first, text |-> None, stale |-> left] >>
  IN Without(k) \o piece \o (IF whole = {} THEN << >> ELSE SubSeq(file, Min(whole), Len(file)))

\* The lines behind k are copied as far as the text of line j, where the buffer
\* of the stream was full.  The old bytes go on behind it: the end of some line
\* b, and the lines after that one.
Mixed(k, j) ==
  LET at == Offset(file, j + 1) - Bytes(file[k]) - 1
      b  == CHOOSE i \in DOMAIN file : Offset(file, i) <= at /\ at < Offset(file, i + 1)
  IN SubSeq(file, 1, k - 1) \o SubSeq(file, k + 1, j - 1)
       \o << [file[j] EXCEPT !.stale = Offset(file, b + 1) - 1 - at] >>
       \o SubSeq(file, b + 1, Len(file))

Init ==
  /\ file \in Files /\ words = setup_words(file)
  /\ up = TRUE /\ torn = "no" /\ answer = << >>
  /\ ops = 0 /\ kills = 0

\* del_word succeeds, and add_word follows unless the definition is empty.
Replace(w, d) ==
  LET lines == Without(LineNo(w))
      table == Rearranged(Unregistered(w), lines) IN
    IF d = None
      THEN file' = lines /\ words' = table
      ELSE /\ file' = Append(lines, Line(w, d))
           /\ words' = Append(table, [word |-> w, index |-> End(lines)])

add_word(w, d) ==
  /\ file' = Append(file, Line(w, d))
  /\ words' = Append(words, [word |-> w, index |-> End(file)])

\* The temporary file cannot be created: del_word returns before it changes anything.
Error(w) ==
  get_word(words, w) /\ answer' = <<"error", w>> /\ UNCHANGED <<file, words>>

-----------------------------------------------------------------------------
(* Commands.                                                                *)

Running == up /\ UNCHANGED <<up, torn, kills>>
Changing == Running /\ ops < MaxOps /\ ops' = ops + 1

\* !learn word text
learn(w, t) ==
  /\ Changing
  /\ \/ /\ get_word(words, w) /\ Replace(w, Text(FALSE, t))
        /\ answer' = <<"changed", w>>
     \/ ~get_word(words, w) /\ add_word(w, Text(FALSE, t)) /\ answer' = <<"added", w>>
     \/ Error(w)

\* snprintf: what there is room for in MSG_SIZE bytes with the end of the string.
Cut(d) ==
  IF Length(d) < MSG_SIZE THEN d
  ELSE LET upto(n) == [d EXCEPT !.toks = SubSeq(@, 1, n)]
           n == Max({m \in 0..(Len(d.toks) - 1) : m = 0 \/ Length(upto(m)) <= MSG_SIZE - 1})
           room == MSG_SIZE - 1 - (IF n = 0 THEN IF d.lead THEN 1 ELSE 0 ELSE Length(upto(n)) + 1)
       IN  IF room < 0 THEN upto(n)
           ELSE [d EXCEPT !.toks = Append(SubSeq(@, 1, n), First(@[n + 1], room))]

\* !learn+ word text: a new definition begins with the space that separates the
\* text from the old one.  The answer is sent before the text is cut.
learn_plus(w, t) ==
  LET old == word2text(w)
      new == Cut(Text(IF old = None THEN TRUE ELSE old.lead, old.toks \o t)) IN
    /\ Changing
    /\ \/ old # None /\ Replace(w, new) /\ answer' = <<"changed", w>>
       \/ old = None /\ add_word(w, new) /\ answer' = <<"added", w>>
       \/ Error(w)

\* The loop ends before the first byte: a word of one letter at the beginning
\* is not found.
learn_minus_num(d, num) ==
  /\ num < Len(d.toks)
  /\ Len(d.toks) - num = 1 => d.lead \/ Size[d.toks[1]] > 1

\* The words of a definition; a space at its end begins none.
Said(toks) == IF toks # << >> /\ Size[Last(toks)] = 0 THEN Front(toks) ELSE toks

\* !learn- word num
learn_minus(w, num) ==
  LET old == word2text(w)
      d   == [old EXCEPT !.toks = Said(@)]
      new == [d EXCEPT !.toks = SubSeq(@, 1, Len(@) - num)] IN
    /\ Changing /\ old # None
    /\ \/ /\ ~learn_minus_num(d, num)
          /\ answer' = <<"refused", w, num>> /\ UNCHANGED <<file, words>>
       \/ learn_minus_num(d, num) /\ Replace(w, new) /\ answer' = <<"changed", w>>
       \/ learn_minus_num(d, num) /\ Error(w)

\* !forget word, and !learn word without a text
forget(w) ==
  /\ Changing /\ get_word(words, w)
  /\ \/ Replace(w, None) /\ answer' = <<"deleted", w>>
     \/ Error(w)

\* !forget, !learn without a text, and !learn- of a word that is not there.
absent(w) ==
  /\ Running /\ ~get_word(words, w)
  /\ answer' = <<"absent", w>>
  /\ UNCHANGED <<file, words, ops>>

\* ?? word
ask(w) ==
  /\ Running
  /\ answer' = <<"is", w, word2text(w).toks>>
  /\ UNCHANGED <<file, words, ops>>

\* The program is killed while a command deletes the line of w, or between that
\* and the addition of the new one.  The lines copied leave the buffer of the
\* stream when it is full, and at the latest when it is closed, before the file
\* is cut.
Killed(w) ==
  /\ up /\ kills < MaxKills /\ get_word(words, w)
  /\ LET k == LineNo(w) IN
       \/ UNCHANGED <<file, torn>>
       \/ /\ \E j \in (k + 1)..Len(file) :
               /\ Offset(file, j + 1) - 1 - Offset(file, k + 1) >= Buffer
               /\ file' = Mixed(k, j)
          /\ torn' = "mixed"
       \/ /\ \E first \in Keys \cup {Piece} : file' = Overwritten(k, first)
          /\ torn' = "tail"
       \/ file' = Without(k) /\ UNCHANGED torn
  /\ words' = << >> /\ up' = FALSE /\ answer' = << >>
  /\ kills' = kills + 1
  /\ UNCHANGED ops

Start ==
  /\ ~up /\ torn = "no" /\ up' = TRUE
  /\ words' = setup_words(file)
  /\ UNCHANGED <<file, torn, answer, ops, kills>>

Command(w) ==
  \/ \E t \in Texts : learn(w, t) \/ learn_plus(w, t)
  \/ \E num \in Nums : learn_minus(w, num)
  \/ forget(w) \/ absent(w) \/ ask(w)

Next == Start \/ \E w \in Keys : Command(w) \/ Killed(w)

Spec == Init /\ [][Next]_wordVars

-----------------------------------------------------------------------------
(* Properties                                                               *)

\* What is found for a word now, or after the next start.
Table == IF up THEN words ELSE setup_words(file)
Found(w) ==
  IF get_word(Table, w)
    THEN LET index == Table[Min(PlacesOf(Table, w))].index
             ks    == {k \in DOMAIN file : Offset(file, k) = index} IN
           IF ks = {} THEN <<Piece>>
           ELSE LET line == file[Min(ks)] IN
                  line.text.toks \o (IF line.stale = 0 THEN << >> ELSE <<Piece>>)
    ELSE << >>

\* A definition that is not cut, with or without a space before it.
HasRoom(toks) == Length(Text(TRUE, toks)) < MSG_SIZE

Promised == INSTANCE Dictionary WITH
  meaning <- [w \in Keys |-> Found(w)], Room <- HasRoom

(* The commands do to the words what they say, to no other word anything, and *)
(* a kill takes at most the definition that was being changed, if the lines   *)
(* behind it fit into the buffer of the stream; words that had none may then  *)
(* have one.                                                                  *)
IsDictionary == Promised!Spec

================================================================================
