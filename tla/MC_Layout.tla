----------------------------- MODULE MC_Layout -----------------------------
(* Model-checking instance of Layout: up to one sort, two terms and one    *)
(* theorem, unify streams and proof-stream records of one or two bytes,  *)
(* with and without the index.  Odd lengths make every align_to pad.     *)
EXTENDS Layout
=============================================================================
