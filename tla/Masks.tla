---------------------------------- MODULE Masks ----------------------------------
(***************************************************************************)
(* Masks: which patterns fit which masks, that is, whose entry of the list *)
(* of users, and which bind of a script, is found; and the mask by which a *)
(* nick is banned.  A pattern is read once from the left to the right.     *)
(* A mask is a sequence of characters.                                     *)
(***************************************************************************)
EXTENDS Naturals, Sequences, FiniteSetsExt

CONSTANTS
  Symbols,   \* of patterns, with "*" and "?"
  Letters,   \* of what they are compared with
  Lower,     \* Lower[c]: the lower case of c
  Digits,
  Banned,    \* the nick to ban, and what
  UserChars, HostChars, \* his user and host are made of
  NICK_SIZE, USER_SIZE, HOST_SIZE,
  MaxPattern, MaxText, MaxUser, MaxHost \* bounds: lengths

VARIABLES
  pattern, text, \* that are compared
  user, host     \* of the nick to ban

maskVars == <<pattern, text, user, host>>

Init == pattern = << >> /\ text = << >> /\ user = << >> /\ host = << >>

-----------------------------------------------------------------------------
(* The comparison.                                                          *)

\* The end of a string is a character that is none of the others.
End == "0"
At(s, i) == IF i \in DOMAIN s THEN s[i] ELSE End
Same(c, d) == c = d \/ (c # End /\ d # End /\ Lower[c] = Lower[d])

\* Behind a "*": where both are when the character of the pattern is found, or the
\* text is over.  A "?" takes the character at which it was not found.
Skip(mask2, mask1) ==
  LET skip[i \in Nat, i2 \in Nat] ==
        IF i2 > Len(mask2) \/ mask2[i2] = At(mask1, i) THEN <<i, i2>>
        ELSE skip[IF At(mask1, i) = "?" THEN i + 1 ELSE i, i2 + 1]
  IN  skip

\* A text that is longer than the pattern fits.
match_mask_Wrong(mask2, mask1) ==
  LET skip == Skip(mask2, mask1)
      fits[i \in Nat, i2 \in Nat] ==
        IF i > Len(mask1) THEN TRUE
        ELSE IF At(mask1, i) = "*" THEN fits[skip[i + 1, i2]]
        ELSE Same(At(mask1, i), At(mask2, i2)) /\ fits[i + 1, i2 + 1]
  IN  fits[1, 1]

\* A "?" elsewhere is a character like any other.
match_mask(mask2, mask1) ==
  LET skip == Skip(mask2, mask1)
      fits[i \in Nat, i2 \in Nat] ==
        IF i > Len(mask1) /\ i2 > Len(mask2) THEN TRUE
        ELSE IF At(mask1, i) = "*" THEN fits[skip[i + 1, i2]]
        ELSE Same(At(mask1, i), At(mask2, i2)) /\ fits[i + 1, i2 + 1]
  IN  fits[1, 1]

-----------------------------------------------------------------------------
(* The mask of a ban.                                                       *)

Places(s, c) == {i \in DOMAIN s : s[i] = c}
Before(s, n) == SubSeq(s, 1, IF Len(s) > n THEN n ELSE Len(s))

\* The last character is lost.
mask2user_Wrong(mask) ==
  LET ex == Places(mask, "!")
      from == IF ex = {} THEN 1 ELSE Min(ex) + 1
      to == {i \in Places(mask, "@") : i >= from}
  IN  IF to = {} THEN << >> ELSE Before(SubSeq(mask, from, Min(to) - 1), USER_SIZE - 1)

\* From "!", or else from the beginning, to "@".
mask2user(mask) ==
  LET ex == Places(mask, "!")
      from == IF ex = {} THEN 1 ELSE Min(ex) + 1
      to == {i \in Places(mask, "@") : i >= from}
  IN  IF to = {} THEN << >> ELSE Before(SubSeq(mask, from, Min(to) - 1), USER_SIZE)

mask2host(mask) ==
  LET at == Places(mask, "@")
  IN  IF at = {} THEN << >> ELSE Before(SubSeq(mask, Min(at) + 1, Len(mask)), HOST_SIZE)

\* A host that is a name and has no point: the loop leaves the string.
Undefined == <<"undefined">>

\* The host without its last part if it is an address, without its first if it is a name.
make_generic_mask(mask) ==
  LET u == mask2user(mask)
      h == mask2host(mask)
      start == <<"*", "!", "*">> \o u \o <<"@">>
      points == Places(h, ".")
  IN  IF u = << >> \/ h = << >> \/ Len(mask) > NICK_SIZE + USER_SIZE + HOST_SIZE + 5 THEN << >>
      ELSE IF h[Len(h)] \in Digits
        THEN start \o SubSeq(h, 1, IF points = {} THEN 0 ELSE Max(points)) \o <<"*">>
      ELSE IF points = {} THEN Undefined
      ELSE start \o <<"*">> \o SubSeq(h, Min(points), Len(h))

-----------------------------------------------------------------------------
(* Any pattern and any text, and any user, a character at a time.           *)

Next ==
  \/ /\ Len(pattern) < MaxPattern /\ text = << >> /\ user = << >>
     /\ \E c \in Symbols : pattern' = Append(pattern, c)
     /\ UNCHANGED <<text, user, host>>
  \/ /\ Len(text) < MaxText /\ user = << >>
     /\ \E c \in Letters : text' = Append(text, c)
     /\ UNCHANGED <<pattern, user, host>>
  \/ /\ Len(user) < MaxUser /\ pattern = << >> /\ text = << >> /\ host = << >>
     /\ \E c \in UserChars : user' = Append(user, c)
     /\ UNCHANGED <<pattern, text, host>>
  \/ /\ Len(host) < MaxHost /\ user # << >>
     /\ \E c \in HostChars : host' = Append(host, c)
     /\ UNCHANGED <<pattern, text, user>>

-----------------------------------------------------------------------------
(* What masks mean.                                                         *)

\* "*" is for any characters, "?" for one, a letter for itself in both cases.
Covers(p, s) ==
  LET covers[i \in 1..(Len(p) + 1), j \in 1..(Len(s) + 1)] ==
        IF i > Len(p) THEN j > Len(s)
        ELSE IF p[i] = "*" THEN \E k \in j..(Len(s) + 1) : covers[i + 1, k]
        ELSE j <= Len(s) /\ (p[i] = "?" \/ Lower[p[i]] = Lower[s[j]]) /\ covers[i + 1, j + 1]
  IN  covers[1, 1]

\* No "?", and no "*" but the last character.
Plain(p) == \A i \in DOMAIN p : p[i] # "?" /\ (p[i] = "*" => i = Len(p))

(* A pattern fits only what it covers, so that no one has the level of an      *)
(* entry that is not for him, although match_mask steps over several           *)
(* characters of pattern and text at once; and a plain one, as a complete mask *)
(* or a command, fits all that it covers (utils.cpp match_mask).               *)
FitsWhatItCovers ==
  /\ match_mask(text, pattern) => Covers(pattern, text)
  /\ Plain(pattern) /\ Covers(pattern, text) => match_mask(text, pattern)

(* The ban for a nick is one for his own mask (utils.cpp make_generic_mask),   *)
(* whatever characters his user has, unless his user or host is cut off.       *)
BanCoversNick ==
  LET mask == Banned \o <<"!">> \o user \o <<"@">> \o host
      ban  == make_generic_mask(mask)
  IN  user # << >> /\ host # << >> /\ Len(user) <= USER_SIZE /\ ban # Undefined =>
        Covers(ban, mask)

MasksAreRight == FitsWhatItCovers /\ BanCoversNick

==================================================================================
