------------------------------ MODULE MCFetch ------------------------------
(***************************************************************************)
(* Instances of Fetch.  Mirror m1 is at the root of its host, m2 below a   *)
(* path (like two of the three DefaultMirrors), so that ExtractMirrorBase  *)
(* does not give m2 back; u1 is a SRC_URI location on a host of its own.   *)
(***************************************************************************)
EXTENDS Fetch, TLC

CONSTANTS m1, m2, u1

MCFiles == <<"f">>
MCTwoFiles == <<"f", "g">>
MCSrcURIs == <<u1>>
MCNoURIs == <<>>
MCBaseOf == (m1 :> m1) @@ (m2 :> NoMirror) @@ (u1 :> NoMirror)
=============================================================================
