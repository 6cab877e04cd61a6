---------------------------- MODULE MCRsyncSync ----------------------------
(* Two mirrors whose trees differ, and a local tree with a file of neither. *)
EXTENDS RsyncSync

AllNames == {"a", "b", "x"}
TwoListings == <<<<"a", "b">>, <<"b">>>>
Trees == {[n \in AllNames |-> Old], [n \in AllNames |-> IF n = "b" THEN Dir ELSE None]}
=============================================================================
