----------------------------- MODULE MCUserAccess -----------------------------
(* UserAccess with the owner, and ann under two nicks.  The owner's entry     *)
(* fits his nick from any host, ann's one fits her user and host under any    *)
(* nick, and a third mask fits everybody.                                     *)
EXTENDS UserAccess

People  == {"owner!o@a.pt", "ann!ann@b.pt", "eve!ann@b.pt"}
NickOf  == [f \in People |-> CASE f = "owner!o@a.pt" -> "owner"
                               [] f = "ann!ann@b.pt" -> "ann" [] OTHER -> "eve"]
Off     == [f \in People |-> CASE f = "owner!o@a.pt" -> "owner!o@*"
                               [] f = "ann!ann@b.pt" -> "ann!ann@*" [] OTHER -> "eve!ann@*"]
Changed == {<<"ann!ann@b.pt", "eve!ann@b.pt">>, <<"eve!ann@b.pt", "ann!ann@b.pt">>}

\* The last two are masks that the file can not hold.
Entries == {"owner!*@*", "*!ann@*.pt", "*!*@*", "*!*@*::3:", "#pt!*@*"}
Plain   == {"owner!*@*", "*!ann@*.pt", "*!*@*"}
Fit     == [m \in Entries |->
              CASE m = "owner!*@*"  -> {"owner!o@a.pt", "owner!o@*", m}
                [] m = "*!ann@*.pt" -> {"ann!ann@b.pt", "eve!ann@b.pt", m}
                [] m = "*!*@*"      -> People \cup Entries \cup {Off[f] : f \in People}
                [] OTHER            -> {m}]
Parts   == [m \in Entries |-> IF m = "*!*@*::3:" THEN <<"*!*@*", "", "3", "">> ELSE <<m>>]
Number  == [t \in {"", "p", "q", "3"} |-> IF t = "3" THEN 3 ELSE 0]

User(m, p, l) == [mask |-> m, pass |-> p, level |-> l]
TwoUsers == <<User("owner!*@*", "p", 3), User("*!ann@*.pt", "q", 2)>>

\* The order of the levels is that of the code: !pass and !chat are for all,
\* !setpass for who is identified, !user... for the two highest levels.
Required == [c \in Commands |-> CASE c \in {"!pass", "!chat"} -> 0
                                  [] c = "!cmdlevel" -> 3 [] OTHER -> 2]
\* Only ann opens a chat; the owner stays where he is.
Chats  == {"ann!ann@b.pt"}
Guests == People \ {"owner!o@a.pt"}
\* Two people are enough where nobody moves.
Two    == {"owner!o@a.pt", "ann!ann@b.pt"}
Asked  == {-2, 0, 2, 3}
Given  == {0, 2}
Lowest == -1

===============================================================================
