---------------------------- MODULE MCFileVault ----------------------------
(***************************************************************************)
(* FileVault with the option sets the configurations choose from.          *)
(***************************************************************************)
EXTENDS FileVault

Ask(max, once, burn, password) ==
  [max |-> max, once |-> once, burn |-> burn, password |-> password]

(* A limit of one with a password, a one-time upload that leaves the limit  *)
(* to the server, burn after reading without a limit, and a limit of zero.  *)
RaceOptions ==
  {Ask(1, FALSE, FALSE, TRUE), Ask(NotGiven, TRUE, FALSE, FALSE), Ask(-1, FALSE, TRUE, FALSE),
   Ask(0, FALSE, FALSE, FALSE)}

(* A download that burns and one that does not.                             *)
BurnOptions == {Ask(NotGiven, TRUE, FALSE, FALSE), Ask(-1, FALSE, FALSE, FALSE)}

OneTimeOption == {Ask(NotGiven, TRUE, FALSE, FALSE)}
=============================================================================
