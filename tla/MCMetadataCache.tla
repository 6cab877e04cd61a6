-------------------------- MODULE MCMetadataCache ---------------------------
(***************************************************************************)
(* Two goroutines and two versions.  Content 3, the first edit, is written *)
(* in the same second as content 2: only their fractions differ.           *)
(***************************************************************************)
EXTENDS MetadataCache

MCMtime == [c \in Contents |-> IF c = 1 THEN <<1, 0>> ELSE <<2, c>>]
=============================================================================
