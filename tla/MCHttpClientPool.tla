-------------------------- MODULE MCHttpClientPool --------------------------
(* Instances of HttpClientPool for TLC. *)
EXTENDS HttpClientPool

Symmetry == Permutations(Fds) \cup Permutations(Keys) \cup Permutations(Callers)
=============================================================================
