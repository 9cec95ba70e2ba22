------------------------------ MODULE MCChannels ------------------------------
(* Channels with one channel, the bot, two people and the nicks they have. *)
EXTENDS Channels

=============================================================================
