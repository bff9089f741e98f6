-------------------------- MODULE MCProviderStream -------------------------
(* Three deltas: one passed on, one waiting in the channel, one to come.     *)
EXTENDS ProviderStream
=============================================================================
