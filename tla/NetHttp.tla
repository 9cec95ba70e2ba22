-------------------------------- MODULE NetHttp --------------------------------
(***************************************************************************)
(* How a page is fetched: NetHttp::work, called once in every turn of the  *)
(* program until it returns something but 0, and Net::readln, which takes  *)
(* from the socket what is there, one line per call, and keeps what it has *)
(* of an unfinished line.  What the site sends arrives in parts of any     *)
(* size; the site closes the connection at the end of the page, may stop   *)
(* sending, and the connection may break.                                  *)
(***************************************************************************)
EXTENDS Naturals, SequencesExt

CONSTANTS
  MSG_SIZE,  \* bytes bufread has place for
  Size,      \* bytes html has place for
  Timeout,   \* seconds without a line that end a request
  MaxStream  \* bound: bytes the site sends that make a difference

\* CR, LF and any other.
Bytes == {"cr", "lf", "x"}

VARIABLES
  stream,   \* what the site sends
  arrived,  \* how much of it has come
  ended,    \* how it goes on behind that: "no" (still coming), "closed", "reset"
  stage,    \* "new", "connecting", "connected"
  got,      \* bytes taken from the socket
  bufread,  \* the part of a line read so far
  reading_header,
  html,
  quiet,    \* seconds since time_read
  result    \* of the last call of work

httpVars == <<stream, arrived, ended, stage, got, bufread, reading_header, html, quiet, result>>
siteVars == <<stream, arrived, ended>>

Pages == UNION {[1..n -> Bytes] : n \in 0..MaxStream}

HttpInit ==
  /\ stream = << >> /\ arrived = 0 /\ ended = "no"
  /\ stage = "new" /\ got = 0 /\ bufread = << >> /\ reading_header = TRUE
  /\ html = << >> /\ quiet = 0 /\ result = 0

\* A new object; what the site will send is unknown.
NetHttp ==
  /\ stream' \in Pages /\ arrived' = 0 /\ ended' = "no"
  /\ stage' = "new" /\ got' = 0 /\ bufread' = << >> /\ reading_header' = TRUE
  /\ html' = << >> /\ quiet' = 0 /\ result' = 0

strip_crlf(line) ==
  LET kept == {i \in DOMAIN line : line[i] = "x"} IN
    SubSeq(line, 1, IF kept = {} THEN 0 ELSE Max(kept))

\* A StringFixed drops what it has no place for.
Cut(s) == SubSeq(s, 1, Min({Size, Len(s)}))

\* A line is ended by a line end only.
Stops_Wrong == {i \in got + 1 .. arrived : stream[i] = "lf"}

\* The bytes at which readln ends a line: a line end, or the one for which there
\* is no place in the buffer.  It is not kept.
Stops ==
  {i \in got + 1 .. arrived : stream[i] = "lf" \/ Len(bufread) + i - got - 1 = MSG_SIZE}

\* A line is ready.
Take(line) ==
  /\ quiet' = 0 /\ bufread' = << >> /\ result' = 0
  /\ IF reading_header
       THEN reading_header' = (strip_crlf(line) # << >>) /\ UNCHANGED html
       ELSE /\ html' = Cut(html \o strip_crlf(line) \o <<"lf">>)
            /\ UNCHANGED reading_header

\* What had come of a line is forgotten when no more is there.
NoLine_Wrong ==
  /\ bufread' = << >>
  /\ result' = (IF quiet > Timeout THEN 6 ELSE 0)
  /\ UNCHANGED <<quiet, reading_header, html>>

\* One may wait for ever.
NoLine_NoTimeout ==
  /\ bufread' = bufread \o SubSeq(stream, got + 1, arrived)
  /\ result' = 0
  /\ UNCHANGED <<quiet, reading_header, html>>

NoLine ==
  /\ bufread' = bufread \o SubSeq(stream, got + 1, arrived)
  /\ result' = (IF quiet > Timeout THEN 6 ELSE 0)
  /\ UNCHANGED <<quiet, reading_header, html>>

\* -1 from readln, of an error as of the end: the page is taken as complete.
Done == result' = 1 /\ UNCHANGED <<quiet, bufread, reading_header, html>>

Read ==
  IF ended = "reset" THEN Done /\ UNCHANGED got
  ELSE IF Stops # {}
    THEN LET i == Min(Stops) IN
           Take(bufread \o SubSeq(stream, got + 1, i - 1)) /\ got' = i
  ELSE /\ got' = arrived
       /\ LET rest == bufread \o SubSeq(stream, got + 1, arrived) IN
            IF ended = "no" THEN NoLine
            ELSE IF rest # << >> THEN Take(rest)
            ELSE Done

Failed(n) == result' = n /\ UNCHANGED <<got, bufread, reading_header, html, quiet>>

\* The host has no address, or there is no socket.
Refused ==
  /\ stage = "new" /\ result = 0
  /\ Failed(2) \/ Failed(3)
  /\ UNCHANGED <<siteVars, stage>>

\* connect gives an error, is under way, or has succeeded.
Connect ==
  /\ stage # "connected" /\ result = 0
  /\ \/ Failed(4) /\ UNCHANGED stage
     \/ /\ stage' = "connecting"
        /\ quiet' = (IF stage = "new" THEN 0 ELSE quiet)
        /\ UNCHANGED <<got, bufread, reading_header, html, result>>
     \/ stage' = "connected" /\ Read
  /\ UNCHANGED siteVars

work ==
  /\ stage = "connected" /\ result = 0
  /\ Read
  /\ UNCHANGED <<siteVars, stage>>

-----------------------------------------------------------------------------
(* The site and the clock.                                                  *)

Coming == stage = "connected" /\ ended = "no" /\ result = 0

Arrive ==
  /\ Coming
  /\ \E n \in arrived + 1 .. Len(stream) : arrived' = n
  /\ UNCHANGED <<stream, ended, stage, got, bufread, reading_header, html, quiet, result>>

\* A site need never come to an end: behind what makes a difference it may send one
\* header after the other, or lines for which the page has no place, each of which
\* work takes in a turn of its own.
Drip ==
  /\ Coming /\ got = Len(stream) /\ bufread = << >>
  /\ reading_header \/ Len(html) = Size
  /\ quiet' = 0
  /\ UNCHANGED <<siteVars, stage, got, bufread, reading_header, html, result>>

Close ==
  /\ Coming /\ arrived = Len(stream) /\ ended' = "closed"
  /\ UNCHANGED <<stream, arrived, stage, got, bufread, reading_header, html, quiet, result>>

Reset ==
  /\ Coming /\ ended' = "reset"
  /\ UNCHANGED <<stream, arrived, stage, got, bufread, reading_header, html, quiet, result>>

Second ==
  /\ result = 0 /\ quiet <= Timeout /\ quiet' = quiet + 1
  /\ UNCHANGED <<siteVars, stage, got, bufread, reading_header, html, result>>

-----------------------------------------------------------------------------
(* The page, as it is at the site.                                          *)

HttpTypeOK ==
  /\ arrived \in 0..Len(stream) /\ got \in 0..arrived
  /\ ended \in {"no", "closed", "reset"} /\ stage \in {"new", "connecting", "connected"}
  /\ Len(bufread) <= MSG_SIZE /\ Len(html) <= Size
  /\ reading_header \in BOOLEAN /\ quiet \in 0..Timeout + 1 /\ result \in 0..6

\* The lines of what the site sends, the last of which needs no line end.
Ends == {0, Len(stream)} \cup {i \in DOMAIN stream : stream[i] = "lf"}
LineBehind(i) ==
  LET j == Min({k \in Ends : k > i}) IN
    SubSeq(stream, i + 1, IF stream[j] = "lf" THEN j - 1 ELSE j)
Starts == SetToSortSeq(Ends \ {Len(stream)}, LAMBDA i, j : i < j)
Lines  == [k \in DOMAIN Starts |-> LineBehind(Starts[k])]
Fits   == \A k \in DOMAIN Lines : Len(Lines[k]) <= MSG_SIZE

\* What is behind the first empty line.
Page ==
  LET blank == {k \in DOMAIN Lines : strip_crlf(Lines[k]) = << >>}
      body  == IF blank = {} THEN << >> ELSE SubSeq(Lines, Min(blank) + 1, Len(Lines)) IN
    Cut(FoldLeft(LAMBDA s, l : s \o strip_crlf(l) \o <<"lf">>, << >>, body))

================================================================================
