---------------------------------- MODULE Web ----------------------------------
(***************************************************************************)
(* The module web: somebody asks for the news of a site, the page is       *)
(* fetched turn by turn (NetHttp) while the bot goes on with its work, and *)
(* when it is there its titles are sent to whom it was asked for.  There   *)
(* is one request at a time.  The commands differ in the names of the      *)
(* elements they look for only, so that there is one here.                 *)
(***************************************************************************)
EXTENDS NetHttp

CONSTANTS
  Askers,   \* pairs of a nick and where it asks
  MaxAsked  \* bound: uses of the command

VARIABLES
  in_use,
  client,   \* source and dest
  works,    \* whether web_work is among the works of the server
  loaded,   \* whether the module is
  web_pvt,  \* whether the answer goes to the nick
  up,       \* whether the program runs
  online,   \* whether the bot is connected to IRC
  sent,     \* the last line sent since the request: to whom, and what
  asked,    \* uses of the command so far
  asker     \* history: whose request is served

modVars == <<in_use, client, works, loaded, web_pvt, up, online, sent, asked, asker>>
webVars == <<httpVars, modVars>>

To(c) == IF web_pvt THEN c[1] ELSE c[2]

Init ==
  /\ HttpInit
  /\ in_use = FALSE /\ client \in Askers /\ works = FALSE /\ loaded = TRUE
  /\ web_pvt \in BOOLEAN /\ up = TRUE /\ online = TRUE
  /\ sent = << >> /\ asked = 0 /\ asker = client

-----------------------------------------------------------------------------
(* Commands.                                                                *)

\* The request in progress is taken over.
web_cmd_Wrong(c) ==
  /\ up /\ loaded /\ online /\ asked < MaxAsked /\ asked' = asked + 1
  /\ client' = c
  /\ IF in_use
       THEN /\ sent' = <<To(client), "busy">>
            /\ UNCHANGED <<httpVars, in_use, works, asker>>
       ELSE /\ NetHttp
            /\ in_use' = TRUE /\ works' = TRUE /\ asker' = c
            /\ sent' = << >>
  /\ UNCHANGED <<loaded, web_pvt, up, online>>

\* A second request is refused; but this is told to whom the first is for.
web_cmd(c) ==
  /\ up /\ loaded /\ online /\ asked < MaxAsked /\ asked' = asked + 1
  /\ IF in_use
       THEN /\ sent' = <<To(client), "busy">>
            /\ UNCHANGED <<httpVars, in_use, client, works, asker>>
       ELSE /\ NetHttp
            /\ in_use' = TRUE /\ works' = TRUE /\ client' = c /\ asker' = c
            /\ sent' = << >>
  /\ UNCHANGED <<loaded, web_pvt, up, online>>

web_var ==
  /\ up /\ loaded /\ online
  /\ web_pvt' = ~web_pvt
  /\ UNCHANGED <<httpVars, in_use, client, works, loaded, up, online, sent, asked, asker>>

\* !moddel web
web_stop ==
  /\ up /\ loaded /\ loaded' = FALSE
  /\ in_use' = FALSE /\ works' = FALSE
  /\ UNCHANGED <<httpVars, client, web_pvt, up, online, sent, asked, asker>>

\* The connection to IRC is lost and made again: in between NetServer::work does
\* not come to the works of the modules, and nobody can ask for anything.
Connection ==
  /\ up /\ online' = ~online
  /\ UNCHANGED <<httpVars, in_use, client, works, loaded, web_pvt, up, sent, asked, asker>>

-----------------------------------------------------------------------------
(* A turn of the server.                                                    *)

Stop == in_use' = FALSE /\ works' = FALSE

\* One that has titles, one that is no XML, or one of which only the root is
\* there: this is freed twice, which the allocator may notice.
Parsed ==
  \/ sent' = <<To(client), "news", html'>> /\ Stop /\ UNCHANGED up
  \/ sent' = <<To(client), "no document">> /\ Stop /\ UNCHANGED up
  \/ sent' = <<To(client), "no document">> /\ Stop /\ up' = FALSE

web_work ==
  /\ up /\ works /\ online
  /\ Refused \/ Connect \/ work
  /\ \/ result' = 0 /\ UNCHANGED <<in_use, works, sent, up>>
     \/ result' = 1 /\ Parsed
     \/ result' > 1 /\ sent' = <<To(client), "no access">> /\ Stop /\ UNCHANGED up
  /\ UNCHANGED <<client, loaded, web_pvt, online, asked, asker>>

\* A line that makes no difference has come, and has been read.
web_drip == up /\ works /\ online /\ Drip /\ UNCHANGED modVars

\* Elsewhere.
Site == up /\ in_use /\ (Arrive \/ Close \/ Reset \/ Second) /\ UNCHANGED modVars

Next ==
  \/ \E c \in Askers : web_cmd(c)
  \/ web_var \/ web_stop \/ Connection \/ web_work \/ web_drip \/ Site

Spec == Init /\ [][Next]_webVars

\* The server has its turns while it is connected, time passes, and the kernel
\* gives up to connect at some time.  Nothing makes the site send.
Fairness ==
  /\ WF_webVars(web_work)
  /\ WF_webVars(Site /\ Second)
  /\ SF_webVars(web_work /\ (stage' = "connected" \/ result' = 4))

FairSpec == Spec /\ Fairness

-----------------------------------------------------------------------------
(* Properties                                                               *)

TypeOK ==
  /\ HttpTypeOK
  /\ {in_use, works, loaded, web_pvt, up, online} \subseteq BOOLEAN
  /\ {client, asker} \subseteq Askers
  /\ asked \in 0..MaxAsked

(* News are sent to whom they were asked for, and made from the page as it is *)
(* at the site, whatever the parts it came in and the turns it was read in,   *)
(* if the site closed the connection and no line is longer than the buffer.   *)
NewsAreSent ==
  (sent # << >> /\ sent[2] = "news" /\ ~in_use) =>
    /\ sent[1] \in {asker[1], asker[2]}
    /\ (ended = "closed" /\ Fits) => sent[3] = Page

(* However long the lines are and in whatever parts they come, the line and   *)
(* the page stay within the buffers they are read into (Net.cpp readln).      *)
BuffersHold == Len(bufread) <= MSG_SIZE /\ Len(html) <= Size

NewsAreTrue == NewsAreSent /\ BuffersHold

(* Every request ends, and the module is free for the next one, even if the   *)
(* site stops sending: unless the bot loses its connection again and again,   *)
(* or for good, or the site sends lines without end, each of them in time.    *)
(* Each line puts back the time (Net.cpp readln), and nothing limits the      *)
(* whole of a request.                                                        *)
RequestEnds ==
  \/ in_use ~> (~in_use \/ ~up)
  \/ []<>~online
  \/ []<><<web_drip>>_webVars

================================================================================
