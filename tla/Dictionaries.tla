---------------------------- MODULE Dictionaries ----------------------------
(***************************************************************************)
(* Python's dictionaries, as functions: what the options and the details   *)
(* of errors are kept in.  The merge is spelt out, where the module TLC    *)
(* has @@ and :>, so that it can be reasoned about.                        *)
(***************************************************************************)

Has(f, k) == k \in DOMAIN f
Get(f, k, default) == IF Has(f, k) THEN f[k] ELSE default
Only(f, keys) == [k \in DOMAIN f \cap keys |-> f[k]]
Without(f, keys) == Only(f, DOMAIN f \ keys)
Entry(k, v) == [key \in {k} |-> v]

\* f, and behind it the entries of g that f has no entry for.
f ++ g == [k \in DOMAIN f \cup DOMAIN g |-> IF k \in DOMAIN f THEN f[k] ELSE g[k]]
=============================================================================
