---------------------------- MODULE MCShipsSnapshot ----------------------------
(* ShipsSnapshot with small times: a window shorter than maxStaleMs and than a   *)
(* fetch may take, and a token that expires within a few windows.                *)
EXTENDS ShipsSnapshot
===============================================================================
