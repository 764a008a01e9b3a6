----------------------------- MODULE MCTenancy -----------------------------
(* Two accounts, three requests of any kind, one of which may register a   *)
(* third account.  The keys the requests create share a prefix, so that it *)
(* may be ambiguous.                                                       *)
EXTENDS Tenancy, TLC

CONSTANTS u1, u2, u3, r1, r2, r3, root, admin, free

MCPrefix == [k \in Keys |-> IF k \in Requests THEN r1 ELSE k]
MCMaxMembers == [p \in Plans |-> 2]
Symmetry == Permutations(Requests)
=============================================================================
