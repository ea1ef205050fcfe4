------------------------------ MODULE RestTable ------------------------------
(***************************************************************************)
(* Tables by operation, which the repository writes in several places.     *)
(***************************************************************************)

(* Two tables as one.                                                      *)
f ++ g == [x \in DOMAIN f \cup DOMAIN g |-> IF x \in DOMAIN f THEN f[x] ELSE g[x]]
=============================================================================
