---------------------------- MODULE MCAdminAuth -----------------------------
(* Instances of AdminAuth for TLC: threads, session tokens, recovery tokens   *)
(* and passwords are interchangeable.                                         *)
EXTENDS AdminAuth, TLC

Nothing == [e \in Events |-> 0]

\* A session ends while requests are under way; the recovery token and the
\* password; wrong passwords and wrong tokens; all that may
\* go wrong with the token's file.
ForSessions ==
  {[Nothing EXCEPT !["login"] = 2, !["view"] = 1, !["work"] = 2, !["change"] = 1],
   [Nothing EXCEPT !["login"] = 2, !["work"] = 1, !["sensitive"] = 1, !["logout"] = 1],
   [Nothing EXCEPT !["login"] = 2, !["sensitive"] = 1, !["change"] = 2],
   [Nothing EXCEPT !["login"] = 2, !["work"] = 1, !["issue"] = 1, !["recover"] = 1],
   [Nothing EXCEPT !["login"] = 1, !["change"] = 1, !["issue"] = 2, !["recover"] = 1],
   [Nothing EXCEPT !["issue"] = 2, !["recover"] = 2, !["crash"] = 1],
   [Nothing EXCEPT !["login"] = 2, !["recover"] = 3, !["issue"] = 1],
   [Nothing EXCEPT !["issue"] = 2, !["recover"] = 1, !["lost"] = 1],
   [Nothing EXCEPT !["issue"] = 2, !["fault"] = 1, !["lost"] = 1, !["crash"] = 1],
   [Nothing EXCEPT !["login"] = 1, !["issue"] = 1, !["change"] = 1, !["fault"] = 1, !["lost"] = 1]}

Interchangeable ==
  Permutations(Threads) \cup Permutations(Sessions) \cup Permutations(Tokens)
    \cup Permutations(Passwords)

=============================================================================
