---------------------------- MODULE MCBootstrap -----------------------------
(* Instances of Bootstrap: a repeated issuance with a file that fails, a    *)
(* lost transaction and a crash, and a series of guesses.                   *)
EXTENDS Bootstrap

Nothing == [e \in Events |-> 0]
ForSetup ==
  {[Nothing EXCEPT !["issue"] = 2, !["register"] = 2, !["fault"] = 1],
   [Nothing EXCEPT !["issue"] = 2, !["register"] = 1, !["lost"] = 1, !["crash"] = 1],
   [Nothing EXCEPT !["issue"] = 1, !["register"] = 4]}
=============================================================================
