-------------------------------- MODULE LogFile --------------------------------
(***************************************************************************)
(* A log (class Log): the file, the lines the stream still keeps, and the  *)
(* exchange of the file for a new one, once a day or when it is too long;  *)
(* the file may fail to be renamed, and the new one to be opened.          *)
(* The program may crash: the file stays, what the stream kept is lost.    *)
(***************************************************************************)
EXTENDS Naturals, Sequences

CONSTANTS
  LOG_SIZE,    \* lines with which a file is too long (in the code, bytes)
  MaxLines,    \* bound: lines written
  MaxHalves,   \* bound: parts of days
  MaxCrashes   \* bound: crashes

\* What the constants must be for the properties below.
LogAssumption == LOG_SIZE \in Nat \ {0} /\ MaxLines \in Nat

\* A day has two parts, before and after LOG_HOUR.
Night == 0
Day   == 1

VARIABLES
  flush, stamp, has_old,  \* the configuration: whether each line is flushed and has its time,
                          \* and whether there is an old_filename
  flushmode, timemode,
  hour,       \* the part of the day of the last line
  now,        \* parts of days so far
  is_open,    \* whether the stream is on a file
  there,      \* whether there is a file of that name
  file,       \* the lines in the file
  kept,       \* the lines written to the stream and not yet to the file
  old,        \* the lines in the old file
  written,    \* lines so far, which are numbered
  lost,       \* history: the lines that a crash or a file that could not be opened lost
  stuck,      \* history: the file could not be renamed when it was last to be exchanged
  crashes

logVars == <<flush, stamp, has_old, flushmode, timemode, hour, now, is_open, there, file, kept,
             old, written, lost, stuck, crashes>>
confVars == <<flush, stamp, has_old>>

get_hour == now % 2

\* The file is opened at its end; conf sets the modes when it could be opened.
conf(flushes, times) ==
  /\ flushmode' = flushes /\ timemode' = times /\ hour' = get_hour
  /\ is_open' = TRUE /\ there' = TRUE

\* Bot::log_add, and Log::conf for a line of the configuration.
LogInit ==
  /\ flush \in BOOLEAN /\ stamp \in BOOLEAN /\ has_old \in BOOLEAN
  /\ flushmode = flush /\ timemode = stamp /\ hour = Night /\ now = 0
  /\ is_open = TRUE /\ there = TRUE /\ file = << >> /\ kept = << >> /\ old = << >>
  /\ written = 0 /\ lost = {} /\ stuck = FALSE /\ crashes = 0

-----------------------------------------------------------------------------
(* Writing.                                                                 *)

\* The night is over since the last line, or the file is too long (a stream that is
\* not open is at no position).
TooOld ==
  \/ hour = Night /\ get_hour = Day
  \/ is_open /\ Len(file) + Len(kept) >= LOG_SIZE

\* The line is written, in a file of its own modes.
Put(f, k, opened, flushes) ==
  /\ written < MaxLines /\ written' = written + 1
  /\ IF ~opened THEN file' = f /\ kept' = k /\ lost' = lost \cup {written'}
     ELSE /\ UNCHANGED lost
          /\ IF flushes THEN file' = f \o k \o <<written'>> /\ kept' = << >>
             ELSE file' = f /\ kept' = Append(k, written')

\* The file, which has the lines f, is opened at its end, with the two modes in each
\* other's place, or cannot be opened.
Reopen(f, left) ==
  \/ conf(timemode, flushmode) /\ Put(f, << >>, TRUE, timemode)
  \/ /\ is_open' = FALSE /\ there' = left /\ hour' = get_hour
     /\ UNCHANGED <<flushmode, timemode>>
     /\ Put(f, << >>, FALSE, flushmode)

\* The file is opened from its beginning.
change_log_Wrong ==
  \/ there /\ old' = file \o kept /\ stuck' = FALSE /\ Reopen(<< >>, FALSE)
  \/ UNCHANGED old /\ stuck' = there /\ Reopen(<< >>, there)

\* The stream is closed, the file becomes the old one, and another is opened.  Whether
\* it could be renamed is not looked at: if not, the same file is opened again.
change_log ==
  \/ there /\ old' = file \o kept /\ stuck' = FALSE /\ Reopen(<< >>, FALSE)
  \/ UNCHANGED old /\ stuck' = there /\ Reopen(file \o kept, there)

Line ==
  /\ IF has_old /\ TooOld THEN change_log
     ELSE /\ Put(file, kept, is_open, flushmode)
          /\ hour' = get_hour
          /\ UNCHANGED <<old, is_open, there, flushmode, timemode, stuck>>
  /\ UNCHANGED <<confVars, now, crashes>>

-----------------------------------------------------------------------------
(* The stream, the clock and the machine.                                   *)

\* The stream has no more place.
Drain ==
  /\ kept # << >>
  /\ file' = file \o kept /\ kept' = << >>
  /\ UNCHANGED <<confVars, flushmode, timemode, hour, now, is_open, there, old, written, lost,
                 stuck, crashes>>

Time ==
  /\ now < MaxHalves /\ now' = now + 1
  /\ UNCHANGED <<confVars, flushmode, timemode, hour, is_open, there, file, kept, old, written,
                 lost, stuck, crashes>>

\* The program ends with no call of a destructor, and is started again.
Crash ==
  /\ crashes < MaxCrashes /\ crashes' = crashes + 1
  /\ lost' = lost \cup {kept[i] : i \in DOMAIN kept}
  /\ kept' = << >>
  /\ conf(flush, stamp)
  /\ UNCHANGED <<confVars, now, file, old, written, stuck>>

LogNext == Line \/ Drain \/ Time \/ Crash

LogSpec == LogInit /\ [][LogNext]_logVars

-----------------------------------------------------------------------------
(* Properties                                                               *)

LogTypeOK ==
  /\ {flush, stamp, has_old, flushmode, timemode, is_open, there, stuck} \subseteq BOOLEAN
  /\ hour \in {Night, Day} /\ now \in 0..MaxHalves
  /\ {file, kept, old} \subseteq Seq(1..MaxLines)
  /\ written \in 0..MaxLines /\ lost \subseteq 1..MaxLines /\ crashes \in 0..MaxCrashes

(* The old file, the file and what the stream keeps hold the lines in the      *)
(* order in which they were written, and from the first of them on no line is  *)
(* missing but those that a crash or a file that could not be opened lost; and *)
(* where there is an old file, the file grows no further than LOG_SIZE unless  *)
(* it could not be renamed: then it grows, and is closed and opened for every  *)
(* line, until it can be.                                                      *)
Kept ==
  LET all == old \o file \o kept IN
    /\ \A i, j \in DOMAIN all : i < j => all[i] < all[j]
    /\ all # << >> => {all[i] : i \in DOMAIN all} = (all[1]..written) \ lost
    /\ (has_old /\ ~stuck) => Len(file) + Len(kept) <= LOG_SIZE

(* A log that is configured to be flushed after each line keeps none that a    *)
(* crash could lose, the rotating one too: README:231-232 has a log that       *)
(* "rotates to mychannel.old.log ..., always flushed".                         *)
AlwaysFlushed == flush => kept = << >>

================================================================================
