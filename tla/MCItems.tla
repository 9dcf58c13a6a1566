------------------------------ MODULE MCItems ------------------------------
(* Two slots, the first for bags only, and a bag inside a bag. *)
EXTENDS Items

MCWear == (Bag \X {1}) \cup (Thing \X {2})
=============================================================================
