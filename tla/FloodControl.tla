------------------------------ MODULE FloodControl ------------------------------
(***************************************************************************)
(* The module flood, on one channel (the counters of two channels never    *)
(* meet): lines of one mask in a row, and the same line in a row, are      *)
(* counted up to limits that !set may change at any time.  Who goes on is  *)
(* warned flood_maxwarn times and then kicked; users of level 4 and above  *)
(* only have the counters put back.                                        *)
(***************************************************************************)
EXTENDS Naturals

CONSTANTS
  Masks,     \* of those who write on the channel
  Trusted,   \* those with a real level of 4 or more
  Msgs,      \* what they write
  Limits,    \* values the limits are given
  NoMask,    \* last_mask of a new channel
  MaxSaid,   \* bound: lines written
  MaxSets    \* bound: uses of !set

VARIABLES
  last_mask, last_msg, mask_num, msg_num, warn_num, \* of the Channel
  maxmsg, maxmask, maxwarn, \* flood_maxmsg, flood_maxmask, flood_maxwarn
  said,     \* lines so far
  sets,     \* uses of !set so far
  did,      \* what was done about the last line: "none", "warn", "kick", "pardon"
  row,      \* history: lines by one mask in a row, and
  same,     \* history: of these, how many at the end are the same line
  rowFree, sameFree, \* history: as these, since the last !set and the last line that was
            \* not let through
  passed    \* history: a !set has left a counter of last_mask above its limit

floodVars == <<last_mask, last_msg, mask_num, msg_num, warn_num, maxmsg, maxmask, maxwarn,
               said, sets, did, row, same, rowFree, sameFree, passed>>

limitVars == <<maxmsg, maxmask, maxwarn>>

\* What the constants must be for the properties below.
FloodAssumption == NoMask \notin Masks /\ Limits \subseteq Nat /\ MaxSaid \in Nat /\ MaxSets \in Nat

FloodInit ==
  /\ last_mask = NoMask /\ last_msg \in Msgs
  /\ mask_num = 0 /\ msg_num = 0 /\ warn_num = 0
  /\ maxmsg \in Limits /\ maxmask \in Limits /\ maxwarn \in Limits
  /\ said = 0 /\ sets = 0 /\ did = "none"
  /\ row = 0 /\ same = 0 /\ rowFree = 0 /\ sameFree = 0
  /\ passed = FALSE

\* A mask other than the last one.  The count of equal lines goes on.
Another_Wrong(mask, msg) ==
  /\ mask # last_mask
  /\ last_mask' = mask /\ last_msg' = msg
  /\ mask_num' = 1 /\ warn_num' = 0
  /\ did' = "none"
  /\ UNCHANGED msg_num

Another(mask, msg) ==
  /\ mask # last_mask
  /\ last_mask' = mask /\ last_msg' = msg
  /\ mask_num' = 1 /\ msg_num' = 1 /\ warn_num' = 0
  /\ did' = "none"

\* What is done once a limit is reached, and whether the counters are put back.
Warns(mask) == mask \notin Trusted /\ maxwarn # 0 /\ warn_num # maxwarn
Verdict(mask) == IF mask \in Trusted THEN "pardon" ELSE "kick"

\* The line that reaches the limit of lines by one mask; it is not compared.
TooMany(mask) ==
  /\ mask = last_mask /\ mask_num = maxmask
  /\ IF Warns(mask)
       THEN did' = "warn" /\ warn_num' = warn_num + 1 /\ UNCHANGED mask_num
       ELSE did' = Verdict(mask) /\ mask_num' = 1 /\ warn_num' = 0
  /\ UNCHANGED <<last_mask, last_msg, msg_num>>

\* A line that repeats the last one: a warning leaves it uncounted.
Repeats(mask, msg) ==
  /\ mask = last_mask /\ mask_num # maxmask /\ msg = last_msg
  /\ IF msg_num = maxmsg
       THEN IF Warns(mask)
              THEN did' = "warn" /\ warn_num' = warn_num + 1 /\ UNCHANGED <<msg_num, mask_num>>
              ELSE /\ did' = Verdict(mask)
                   /\ msg_num' = 1 /\ warn_num' = 0 /\ mask_num' = mask_num + 1
       ELSE /\ did' = "none"
            /\ msg_num' = msg_num + 1 /\ mask_num' = mask_num + 1
            /\ UNCHANGED warn_num
  /\ UNCHANGED <<last_mask, last_msg>>

\* The lines of the mask are no longer counted.
Differs_Wrong(mask, msg) ==
  /\ mask = last_mask /\ mask_num # maxmask /\ msg # last_msg
  /\ last_msg' = msg /\ msg_num' = 1 /\ warn_num' = 0
  /\ did' = "none"
  /\ UNCHANGED <<last_mask, mask_num>>

Differs(mask, msg) ==
  /\ mask = last_mask /\ mask_num # maxmask /\ msg # last_msg
  /\ last_msg' = msg /\ msg_num' = 1 /\ warn_num' = 0
  /\ mask_num' = mask_num + 1
  /\ did' = "none"
  /\ UNCHANGED last_mask

Count(mask, msg) ==
  LET again == mask = last_mask
      echo  == again /\ msg = last_msg
      free  == did' = "none" IN
    /\ row'  = IF again THEN row + 1 ELSE 1
    /\ same' = IF echo THEN same + 1 ELSE 1
    /\ rowFree'  = IF ~free THEN 0 ELSE IF again THEN rowFree + 1 ELSE 1
    /\ sameFree' = IF ~free THEN 0 ELSE IF echo THEN sameFree + 1 ELSE 1
    /\ passed' = (again /\ passed)

flood_event ==
  /\ said < MaxSaid
  /\ \E mask \in Masks, msg \in Msgs :
       /\ Another(mask, msg) \/ TooMany(mask) \/ Repeats(mask, msg) \/ Differs(mask, msg)
       /\ Count(mask, msg)
  /\ said' = said + 1
  /\ UNCHANGED <<limitVars, sets>>

flood_var ==
  /\ sets < MaxSets
  /\ \E n \in Limits :
       \/ maxmsg' = n /\ UNCHANGED <<maxmask, maxwarn>>
       \/ maxmask' = n /\ UNCHANGED <<maxmsg, maxwarn>>
       \/ maxwarn' = n /\ UNCHANGED <<maxmsg, maxmask>>
  /\ sets' = sets + 1
  /\ rowFree' = 0 /\ sameFree' = 0
  /\ passed' = ((maxmask' # 0 /\ mask_num > maxmask') \/ (maxmsg' # 0 /\ msg_num > maxmsg'))
  /\ UNCHANGED <<last_mask, last_msg, mask_num, msg_num, warn_num, said, did, row, same>>

FloodNext == flood_event \/ flood_var

FloodSpec == FloodInit /\ [][FloodNext]_floodVars

-----------------------------------------------------------------------------
(* Properties                                                               *)

FloodTypeOK ==
  /\ last_mask \in Masks \cup {NoMask} /\ last_msg \in Msgs
  /\ {mask_num, msg_num, warn_num} \subseteq 0..MaxSaid
  /\ {maxmsg, maxmask, maxwarn} \subseteq Limits
  /\ did \in {"none", "warn", "kick", "pardon"}

\* More lines than the limits allow, since they were last changed.
TooManyFree ==
  /\ last_mask \notin Trusted
  /\ (maxmask # 0 /\ rowFree > maxmask) \/ (maxmsg # 0 /\ sameFree > maxmsg)

(* Nobody below level 4 gets more than flood_maxmask lines in a row, nor     *)
(* flood_maxmsg equal ones, through without being warned or kicked, whatever *)
(* he mixes and whoever changes the limits, unless a limit is lowered below  *)
(* the counter of him who writes, until another writes: they are compared    *)
(* with = , which a counter above its limit never meets.  0, which they      *)
(* never are, turns a limit off.                                             *)
FloodIsStopped == TooManyFree => passed

(* README:495-500: users are kicked or warned if certain limits are reached. *)
(* Nobody gets more lines through after the last !set than the limits allow. *)
\* The code does not keep this promise (README, section 7).
LimitsHold == ~TooManyFree

(* As long as the limits are not changed, nobody is warned or kicked who has *)
(* not written more lines in a row than one of them allows, with nobody else *)
(* in between: the counters are never those of another.                      *)
KickIsEarned ==
  (did \in {"warn", "kick"} /\ sets = 0) =>
    (maxmask # 0 /\ row > maxmask) \/ (maxmsg # 0 /\ same > maxmsg)

(* A flood is stopped, and nothing else is.                                  *)
FloodIsFair == FloodIsStopped /\ KickIsEarned

================================================================================
