-------------------------------- MODULE MCScripts --------------------------------
(***************************************************************************)
(* What can be interrupted, on small instances: walks through the timers   *)
(* and binds of scripts (TclTimers, TclBinds) by what they call, the       *)
(* threads of ShellTimers by the bot, the requests of Web by time, and the *)
(* rewriting of the file of Words by a kill.  They share no state, so that *)
(* one of them makes the steps of a behaviour, and the others stay as they *)
(* were at its beginning.  The .cfg has the constants of the first three.  *)
(***************************************************************************)
EXTENDS TclTimers, TclBinds, ShellTimers

VARIABLES
  part, \* whose steps are made
  wordFile, words, wordsUp, torn, answer, wordOps, kills,
  stream, arrived, webEnded, stage, got, bufread, reading_header, html, webQuiet, result,
  in_use, client, works, loaded, web_pvt, webUp, webOnline, sent, asked, asker

MCOrder == <<"t1", "t2">>

\* Two words, with a definition or none.
Text(toks) == [lead |-> FALSE, toks |-> toks]
Entry(w, toks) == [word |-> w, text |-> Text(toks), stale |-> 0]
FirstBytes(s, n) == IF n = 0 THEN "" ELSE IF s = "bb" /\ n = 1 THEN "b" ELSE s
W == INSTANCE Words WITH
  Keys <- {"tcl", "sp"}, Piece <- "piece", Texts <- {<<"a">>, <<"bb", "a">>}, Nums <- {1, 2},
  Size <- [s \in {"tcl", "sp", "a", "b", "bb", ""} |->
             CASE s = "" -> 0 [] s \in {"a", "b"} -> 1 [] s = "tcl" -> 3 [] OTHER -> 2],
  First <- FirstBytes,
  Files <- {<< >>, <<Entry("sp", <<"a", "bb">>), Entry("tcl", <<"bb">>)>>},
  MSG_SIZE <- 8, Buffer <- 7, MaxOps <- 3, MaxKills <- 1, file <- wordFile, up <- wordsUp,
  ops <- wordOps

H == INSTANCE Web WITH
  MSG_SIZE <- 2, Size <- 3, Timeout <- 1, MaxStream <- 3,
  Askers <- {<<"ann", "#c">>, <<"bob", "#d">>}, MaxAsked <- 2, up <- webUp,
  online <- webOnline, ended <- webEnded, quiet <- webQuiet

wordVars == <<wordFile, words, wordsUp, torn, answer, wordOps, kills>>
webVars  == <<stream, arrived, webEnded, stage, got, bufread, reading_header, html, webQuiet, result,
              in_use, client, works, loaded, web_pvt, webUp, webOnline, sent, asked, asker>>
vars == <<part, tclTimerVars, tclBindVars, shellVars, wordVars, webVars>>

\* A part that makes no step has one of its initial states only.
Init ==
  /\ part \in {"timers", "binds", "shell", "words", "web"}
  /\ TimersInit /\ BindsInit /\ ShellInit
  /\ W!Init /\ (part # "words" => wordFile = << >>)
  /\ H!Init /\ (part # "web" => client = <<"ann", "#c">> /\ web_pvt)

Next ==
  /\ part' = part
  /\ IF part = "timers" THEN TimersNext ELSE UNCHANGED tclTimerVars
  /\ IF part = "binds"  THEN BindsNext  ELSE UNCHANGED tclBindVars
  /\ IF part = "shell"  THEN ShellNext  ELSE UNCHANGED shellVars
  /\ IF part = "words"  THEN W!Next     ELSE UNCHANGED wordVars
  /\ IF part = "web"    THEN H!Next     ELSE UNCHANGED webVars

Spec == Init /\ [][Next]_vars /\ ShellFairness /\ H!Fairness

(* The module word is the dictionary it promises to be, kills included.        *)
IsDictionary == W!IsDictionary

(* News go to who asked for them, and are made of the page as it is.           *)
NewsAreTrue == H!NewsAreTrue

(* A request for news ends, even if the site stops sending.                    *)
RequestEnds == H!RequestEnds

==================================================================================
