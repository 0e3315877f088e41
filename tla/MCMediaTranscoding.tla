-------------------------- MODULE MCMediaTranscoding --------------------------
(* MediaTranscoding on small instances: two or three requests that compete *)
(* for one HLS rendition, one download and the direct stream, with a limit *)
(* that moves between none, one and two.                                   *)
EXTENDS MediaTranscoding, TLC

RequestSymmetry == Permutations(Requests)
===============================================================================
