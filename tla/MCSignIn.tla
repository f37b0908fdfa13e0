------------------------------ MODULE MCSignIn ------------------------------
(* SignIn on a small instance: two tabs. *)
EXTENDS SignIn

CONSTANTS a, b

MCTabs == {a, b}
=============================================================================
