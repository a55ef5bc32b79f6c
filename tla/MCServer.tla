------------------------------ MODULE MCServer ------------------------------
(***************************************************************************)
(* Constants for the run of Server: three emails to one address, more than *)
(* there are workers; one to each of two; an email and an avatar; and two  *)
(* avatars.                                                                *)
(***************************************************************************)
EXTENDS Server

MCTo == [m \in Emails |-> IF m = "m4" THEN "b" ELSE "a"]
MCBackoff == [n \in 1 .. MaxRetries |-> 2 ^ n]
MCLoads == {{"m1", "m2", "m3"}, {"m1", "m4"}, {"m1", "v1"}, {"v1", "v2"}}
=============================================================================
