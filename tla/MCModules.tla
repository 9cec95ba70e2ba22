------------------------------- MODULE MCModules -------------------------------
(* Modules on small instances: configurations of one or two bots, each with   *)
(* lines for some modules only.                                               *)
EXTENDS Modules

Line(w)   == [word |-> w, arg |-> ""]
SetVar(v) == [word |-> "set", arg |-> v]
Load(m)   == [word |-> "module", arg |-> m]

\* Two bots with different modules, whois and flood being loaded from the start.
Two == << Load("whois"), Load("flood"), Line("bot"), Line("seen"), Line("log"), Line("log"),
          Line("watch"), Line("watch"), Line("ircop"), Line("chanstat"), Line("alice"),
          Line("words"), SetVar("flood_maxmsg"), Line("bot"), Line("log") >>
\* The same two bots with other lines.
Changed == << Load("tcl"), Load("seen"), Line("bot"), Line("urlsnifferfile"), Line("shell"),
              Line("bot"), Line("seen"), Line("watch") >>
\* One more bot than those; it loads a module twice, and nothing is started from it.
Three == << Load("joinmsg"), Load("joinmsg"), Line("bot"), Line("joinmsg"), Line("bot"),
            Line("bot"), Line("seen"), SetVar("whois_ripe"), Line("log") >>
Same == {Two, Changed, Three}

All == DOMAIN Does

================================================================================
