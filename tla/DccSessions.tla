----------------------------- MODULE DccSessions -----------------------------
(***************************************************************************)
(* What the table of DCCs promises to the people on IRC, whatever goes on  *)
(* in its slots: everybody has at most one DCC Chat and one DCC Send at a  *)
(* time, and each goes through its stages one by one, so that nobody is on *)
(* the partyline who was not asked for a password first.                   *)
(***************************************************************************)
CONSTANT Nicks

VARIABLES
  chats,  \* the stages of each nick's DCC Chats
  sends   \* the stages of each nick's DCC Sends

Init ==
  /\ chats = [n \in Nicks |-> {}]
  /\ sends = [n \in Nicks |-> {}]

\* None, waiting for the connection, asking for the password, talking.
ChatStep(old, new) ==
  \/ new = old \/ new = {}
  \/ old = {} /\ new = {"DCC_CHAT_INIT"}
  \/ old = {"DCC_CHAT_INIT"} /\ new = {"DCC_CHAT_AUTH"}
  \/ old = {"DCC_CHAT_AUTH"} /\ new = {"DCC_CHAT"}

SendStep(old, new) ==
  \/ new = old \/ new = {}
  \/ old = {} /\ new = {"DCC_SEND_INIT"}
  \/ old = {"DCC_SEND_INIT"} /\ new = {"DCC_SEND"}

\* One step may end the DCCs of many: a line to the partyline, a lost server.
Next ==
  /\ \A n \in Nicks : ChatStep(chats[n], chats'[n]) /\ SendStep(sends[n], sends'[n])
  /\ DOMAIN chats' = Nicks /\ DOMAIN sends' = Nicks

Spec == Init /\ [][Next]_<<chats, sends>>

=============================================================================
