---------------------------- MODULE MCGraceClock ----------------------------
(* TLC instances of GraceClock.  The settings lie below, at and above each *)
(* bound they are compared with, and are left out or misspelt.             *)
EXTENDS GraceClock

CONSTANTS u1

MCUpgrades == {u1}
MCGraceEnv == {Unset, Garbage, -1, 0, 3, 7}
MCMaxGraceEnv == {Unset, 0, 4}
MCWsEnv == {Unset, Garbage, -1, 2}
=============================================================================
