---------------------------------- MODULE Seen ----------------------------------
(***************************************************************************)
(* The module seen: when each nick was last seen, in a table of SEEN_MAX   *)
(* and in a file of records of one size, where the i-th is overwritten in  *)
(* place.  The stream keeps what was written last until it seeks again.    *)
(* The program is stopped and started, and may crash, also between the two *)
(* records of a NICK; and the date may be set back.                        *)
(***************************************************************************)
EXTENDS Naturals, SequencesExt

CONSTANTS
  People,      \* nicks, as they are in the messages, without the Guests of PTnet
  Longest,     \* those whose nick fills NICK_SIZE
  SEEN_MAX,    \* records
  MaxTime,     \* bound: seconds
  MaxRestarts  \* bound: times the program ends

\* What the constants must be for the properties below.
SeenAssumption == SEEN_MAX \in Nat \ {0} /\ MaxTime \in Nat \ {0} /\ MaxRestarts \in Nat

VARIABLES
  seen,      \* the table: nick and time
  disk,      \* the records in the file
  pending,   \* the last change, which the stream keeps: nothing, or what and where
  time_now,
  restarts,
  second,    \* the nick for which update_seen is still to be called in this event
  last,      \* history: when each nick last did something, by the date then; 0 never
  due,       \* history: who did something in this event, and is not recorded yet
  kicked,    \* history: who was kicked in this event
  date       \* history: whether the date only went on, "onward", or was set back, "back"

seenVars == <<seen, disk, pending, time_now, restarts, second, last, due, kicked, date>>

Nothing == << >>

Record(n, t) == [nick |-> n, time |-> t]

\* A record of the file as setup_seen reads it: behind a nick of full size there is
\* no space, so that the time is taken for a part of it and is 0.
Read(r) == IF r.nick \in Longest THEN Record(r.nick, 0) ELSE r

SeenInit ==
  /\ seen = << >> /\ disk = << >> /\ pending = Nothing
  /\ time_now = 1 /\ restarts = 0 /\ second = {}
  /\ last = [n \in People |-> 0] /\ due = {} /\ kicked = {} /\ date = "onward"

-----------------------------------------------------------------------------
(* The table.                                                               *)

At(n) == {i \in DOMAIN seen : seen[i].nick = n}

\* The record to overwrite is the first one of all.
Oldest_Wrong == 1

\* The first of the oldest; the first of all if none is older than now.
Oldest ==
  IF \A i \in DOMAIN seen : seen[i].time >= time_now THEN 1
  ELSE CHOOSE i \in DOMAIN seen :
         /\ \A j \in DOMAIN seen : seen[i].time <= seen[j].time
         /\ \A j \in 1 .. i - 1 : seen[i].time < seen[j].time

\* A record is put at i in a sequence, possibly at its end.
At_i(s, i, r) == IF i = Len(s) + 1 THEN Append(s, r) ELSE [s EXCEPT ![i] = r]

Flushed == IF pending = Nothing THEN disk ELSE At_i(disk, pending[1], pending[2])

\* change_seen and write_seen: the seek takes what was kept to the file.
write_seen(n, i) ==
  /\ seen' = At_i(seen, i, Record(n, time_now))
  /\ disk' = Flushed /\ pending' = <<i, Record(n, time_now)>>

update_seen(n) ==
  write_seen(n, IF At(n) # {} THEN CHOOSE i \in At(n) : TRUE
                ELSE IF Len(seen) = SEEN_MAX THEN Oldest
                ELSE Len(seen) + 1)

\* Who is seen doing something in an event; m is the new nick, or who is kicked.
Doers(kind, n, m) == IF kind = "NICK" THEN {n, m} ELSE {n}

\* Of those who did something, n is recorded.
Recorded(n, those) ==
  /\ last' = (IF n \in those THEN [last EXCEPT ![n] = time_now] ELSE last)
  /\ due' = those \ {n}

\* The new nick is not recorded.
seen_event_Wrong(kind, n, m) ==
  /\ second = {} /\ n # m
  /\ update_seen(n) /\ second' = {}
  /\ Recorded(n, Doers(kind, n, m))
  /\ kicked' = (IF kind = "KICK" THEN {m} ELSE {})
  /\ UNCHANGED <<time_now, restarts, date>>

\* seen_event and seen_reply, up to the second update of a NICK; JOIN, QUIT, PART and
\* an answer to WHO are alike.
seen_event(kind, n, m) ==
  /\ second = {} /\ n # m
  /\ update_seen(n) /\ second' = (IF kind = "NICK" THEN {m} ELSE {})
  /\ Recorded(n, Doers(kind, n, m))
  /\ kicked' = (IF kind = "KICK" THEN {m} ELSE {})
  /\ UNCHANGED <<time_now, restarts, date>>

seen_second(n) ==
  /\ n \in second /\ second' = {}
  /\ update_seen(n)
  /\ Recorded(n, due)
  /\ UNCHANGED <<time_now, restarts, kicked, date>>

Later ==
  /\ second = {} /\ time_now < MaxTime /\ time_now' = time_now + 1
  /\ kicked' = {}
  /\ UNCHANGED <<seen, disk, pending, restarts, second, last, due, date>>

SetBack ==
  /\ second = {} /\ \E t \in 1 .. time_now - 1 : time_now' = t
  /\ date' = "back" /\ kicked' = {}
  /\ UNCHANGED <<seen, disk, pending, restarts, second, last, due>>

\* setup_seen, on what the file is then.
Load(f) ==
  /\ restarts < MaxRestarts /\ restarts' = restarts + 1
  /\ disk' = f /\ pending' = Nothing
  /\ seen' = [i \in DOMAIN f |-> Read(f[i])]
  /\ second' = {} /\ due' = {} /\ kicked' = {}
  /\ UNCHANGED <<time_now, date>>

\* What was lost was never seen: the answer goes back to the record before it.
Restart == second = {} /\ Load(Flushed) /\ UNCHANGED last

Forgotten(f, n) ==
  LET is == {i \in DOMAIN f : f[i].nick = n} IN
    IF is = {} THEN 0 ELSE f[CHOOSE i \in is : TRUE].time

Kill ==
  /\ Load(disk)
  /\ last' = (IF pending = Nothing THEN last
              ELSE [last EXCEPT ![pending[2].nick] = Forgotten(disk, pending[2].nick)])

SeenNext ==
  \/ \E n, m \in People : \E kind \in {"JOIN", "KICK", "NICK"} : seen_event(kind, n, m)
  \/ \E n \in People : seen_second(n)
  \/ Later \/ SetBack \/ Restart \/ Kill

SeenSpec == SeenInit /\ [][SeenNext]_seenVars

-----------------------------------------------------------------------------
(* Properties                                                               *)

Records == [nick : People, time : 0..MaxTime]

SeenTypeOK ==
  /\ seen \in Seq(Records) /\ disk \in Seq(Records) /\ Len(seen) <= SEEN_MAX
  /\ pending = Nothing \/ pending \in (1..SEEN_MAX) \X Records
  /\ time_now \in 1..MaxTime /\ restarts \in 0..MaxRestarts /\ last \in [People -> 0..MaxTime]
  /\ second \subseteq People /\ due \subseteq People /\ kicked \subseteq People
  /\ date \in {"onward", "back"}

(* Everybody who joins, quits, parts, kicks, changes his nick, or is told of   *)
(* by WHO, is recorded once the handler is done, under both nicks if he        *)
(* changes it.  !seen tells of a nick that is in the table when it did any of  *)
(* these last, by the date at that time, however often the program was stopped *)
(* and however the table was overwritten; no nick is there twice; as long as   *)
(* the date is not set back, a nick that was forgotten did nothing later than  *)
(* those that are kept; and the crash of the program takes one record only.    *)
(* Of a nick of full size nothing is said: it is read from the file as one     *)
(* that was never seen.                                                        *)
SeenIsTrue ==
  /\ second = {} => due = {}
  /\ \A i \in DOMAIN seen :
       /\ seen[i].nick \notin Longest => seen[i].time = last[seen[i].nick]
       /\ \A j \in DOMAIN seen : seen[i].nick = seen[j].nick => i = j
  /\ date = "onward" =>
       \A n \in People \ Longest :
         At(n) = {} => \A i \in DOMAIN seen :
                         seen[i].nick \notin Longest => last[n] <= seen[i].time

(* seen.cpp:206: "seach the oldest".  Who is overwritten has the oldest record *)
(* of all.                                                                     *)
\* The code does not keep this promise (README, section 7).
OldestGoes ==
  [][\A i \in DOMAIN seen :
       (restarts' = restarts /\ seen'[i].nick # seen[i].nick) =>
         \A j \in DOMAIN seen : seen[i].time <= seen[j].time]_seenVars

(* README:589-590: "it looks for quit, part, kick, nick and join events and    *)
(* saves the nicks".  Who is kicked is seen, as is who kicks him.              *)
\* The code does not keep this promise (README, section 7).
KickedIsSeen ==
  second = {} => \A n \in kicked : \E i \in At(n) : seen[i].time = time_now

================================================================================
