------------------------------ MODULE MCPlugins ------------------------------
(* Instances of Plugins for TLC.                                           *)
EXTENDS Plugins, TLC

CONSTANTS b, u, official, c1

=============================================================================
