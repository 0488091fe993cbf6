------------------------------ MODULE MCSignIn -------------------------------
(***************************************************************************)
(* A small instance of SignIn for TLC.                                     *)
(***************************************************************************)
EXTENDS SignIn

CONSTANTS a1, a2, k2

\* Two addresses, one of them the text that files the other with a user name, as
\* 2001:db8::1 with the name 2 and 2001:db8::1:2 are.
MCPairKey == [p \in Addresses \X Usernames |-> IF p[1] = a1 THEN a2 ELSE k2]
=============================================================================
