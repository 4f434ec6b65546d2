-------------------------- MODULE MCTokenRevocation --------------------------
(* Deployments of the authentication service: one threaded process (the Flask
   development server), or one-thread processes (gunicorn's sync workers).  *)
EXTENDS TokenRevocation, TLC

CONSTANTS w1, w2, t1, t2

OneProcess == (t1 :> w1) @@ (t2 :> w1)
OneThreadEach == (t1 :> w1) @@ (t2 :> w2)
Symmetric == Permutations({t1, t2}) \union Permutations(Jtis)
==============================================================================
