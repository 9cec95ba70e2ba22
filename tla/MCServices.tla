------------------------------- MODULE MCServices -------------------------------
(***************************************************************************)
(* The modules that answer, remember and watch, on small instances:        *)
(* FloodControl, LogFile, ChatLog, Seen, Presence and Calculator; and      *)
(* Masks, by which they know people.  They share no state, so that one of  *)
(* them makes the steps of a behaviour, and the others stay at one of      *)
(* their initial states.  The .cfg has the constants of the first five.    *)
(***************************************************************************)
EXTENDS FloodControl, LogFile, ChatLog, Seen, Presence

VARIABLES
  part, \* whose steps are made
  exp, calcs, ans, typed, roman,
  pattern, text, user, host

calcVars == <<exp, calcs, ans, typed, roman>>
maskVars == <<pattern, text, user, host>>
vars == <<part, floodVars, logVars, chatVars, seenVars, watchVars, calcVars, maskVars>>

ASSUME FloodAssumption /\ LogAssumption /\ SeenAssumption /\ WatchAssumption

MCLoggers == <<"c1", "c2", "<privmsg>", "ann">>
MCWatchList == <<"ann">>
MCFinds == [ann |-> {"ann"}, bob |-> {"ann"}, mbot |-> {}]

Ops == {"-", "*", "^"}
Values == {"1", "a", "ans"}

\* Symbols that cannot follow each other in an expression.
Misplaced(e) ==
  \E i \in 1..(Len(e) - 1) :
    \/ "?" \in {e[i], e[i + 1]}
    \/ e[i] = "(" /\ e[i + 1] \in {"*", "^", "=", ")"}
    \/ e[i] \in Ops \cup {"="} /\ e[i + 1] \in Ops \cup {"=", ")"}
    \/ e[i] \in Values \cup {")"} /\ e[i + 1] \in Values \cup {"(", "f"}

\* Any four symbols, in one expression or several, five that are well placed, and
\* seven if they are the first expression and have no names.
Continued(e, k) ==
  \/ k < 4
  \/ k < 5 /\ ~Misplaced(e)
  \/ /\ k < 7 /\ Len(e) = k /\ ~Misplaced(e)
     /\ \A i \in DOMAIN e : e[i] \in Ops \cup {"1", "(", ")"}

C == INSTANCE Calculator WITH
  Numbers <- {"1"}, Names <- {"a"}, Consts <- {}, Funcs <- {"f"}, Operators <- Ops,
  Priority <- [o \in Ops \cup {"="} |->
                 CASE o = "=" -> 0 [] o = "-" -> 1 [] o = "*" -> 2 [] o = "^" -> 3],
  Signs <- {"-"}, More <- Continued,
  Shown <- (-120..-100) \cup 0..1999 \cup 9990..10000, vars <- calcs

M == INSTANCE Masks WITH
  Symbols <- {"*", "?", "a"}, Letters <- {"a", "A", "b", "?"},
  Lower <- [c \in {"a", "A", "b", "1", ".", "*", "?", "!", "@"} |-> IF c = "A" THEN "a" ELSE c],
  Digits <- {"1"}, Banned <- <<"b">>, UserChars <- {"a", "*", "?"}, HostChars <- {"a", "1", "."},
  NICK_SIZE <- 1, USER_SIZE <- 2, HOST_SIZE <- 4,
  MaxPattern <- 4, MaxText <- 4, MaxUser <- 3, MaxHost <- 4

\* A part that makes no step has one of its initial states only.
Init ==
  /\ part \in {"flood", "log", "chat", "seen", "watch", "calc", "masks"}
  /\ FloodInit /\ (part # "flood" => last_msg = "x" /\ maxmsg = 0 /\ maxmask = 0 /\ maxwarn = 0)
  /\ LogInit /\ (part # "log" => flush /\ has_old /\ stamp)
  /\ ChatInit /\ (part # "chat" => present = [c \in Channels |-> {}])
  /\ SeenInit
  /\ WatchInit /\ (part # "watch" => online = {} /\ ~has_ircop)
  /\ C!Init
  /\ M!Init

Next ==
  /\ part' = part
  /\ IF part = "flood" THEN FloodNext ELSE UNCHANGED floodVars
  /\ IF part = "log"   THEN LogNext ELSE UNCHANGED logVars
  /\ IF part = "chat"  THEN ChatNext ELSE UNCHANGED chatVars
  /\ IF part = "seen"  THEN SeenNext ELSE UNCHANGED seenVars
  /\ IF part = "watch" THEN WatchNext ELSE UNCHANGED watchVars
  /\ IF part = "calc"  THEN C!Next ELSE UNCHANGED calcVars
  /\ IF part = "masks" THEN M!Next ELSE UNCHANGED maskVars

Spec == Init /\ [][Next]_vars

(* The calculator accepts the expressions and nothing else and evaluates each  *)
(* as it reads, unless what is assigned begins with a sign, "=" or another     *)
(* assignment; it shows an integer by the Roman numeral that is worth it.      *)
CalcIsRight == C!CalcIsRight /\ C!RomanIsRight

(* README:453-454: a name, "=" and an expression define the name.              *)
\* The code does not keep this promise (README, section 7).
NamesAreDefined == C!NamesAreDefined

(* A mask fits nobody it does not cover, and a ban covers who is banned.       *)
MasksAreRight == M!MasksAreRight

================================================================================
