----------------------------- MODULE MCLeasePool -----------------------------
(* A small lease pool for TLC: two slots, two handles, two envelopes.        *)
EXTENDS LeasePool, TLC

MCSizes == {0, 1}

Perms == Permutations(Clients) \cup Permutations(Msgs)

=============================================================================
