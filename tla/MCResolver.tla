----------------------------- MODULE MCResolver -----------------------------
(* Resolver for TLC: two addresses, in both orders, and one of them twice.   *)
EXTENDS Resolver

Lists == {<<1, 2>>, <<2, 1>>, <<1, 1>>}
=============================================================================
