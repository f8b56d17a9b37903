---------------------------- MODULE MCArtistSync -----------------------------
(* An instance of ArtistSync for TLC.                                      *)
EXTENDS ArtistSync

CONSTANTS a1, a2, i1, i2, r1, r2, p, q, t1, t2

MCCatalog == [id \in Ids |-> IF id = i1 THEN Releases ELSE {r1}]

=============================================================================
