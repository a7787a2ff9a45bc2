------------------------------- MODULE MCPipe -------------------------------
(***************************************************************************)
(* Pipe for TLC.  In pages of three bytes, a write of four fills a page    *)
(* and leaves one byte that a write of two can merge with; two writes of   *)
(* two do not share a page.                                                *)
(***************************************************************************)
EXTENDS Pipe

(* Bytes that differ, to see their order; and bytes that only count.       *)
Different == [p \in Source |-> IF p \in Writer THEN {<<1, 0>>, <<0, 1, 1, 1>>} ELSE {<<0, 0>>}]
Same      == [p \in Source |-> {<<0>>, <<0, 0, 0>>}]
=============================================================================
