---------------------------- MODULE MC_Pagination ----------------------------
(* Instances of the paginated lists for TLC.  Envelope ids: "B", "a", "b"   *)
(* and "ba", which localeCompare sorts without regard to case.              *)
EXTENDS Pagination, TLC

McIds == {<<1>>, <<11>>, <<12>>, <<12, 11>>}
McCollation == << <<11>>, <<1>>, <<12>>, <<12, 11>> >>
==============================================================================
