-------------------------- MODULE MCDiscordGateway --------------------------
(* Model checking DiscordGateway: its constants are given in the cfgs.     *)
EXTENDS DiscordGateway
=============================================================================
