------------------------- MODULE MCAcunetixCollect -------------------------
(* Lists for TLC, with two cursors to follow at most: an empty one, two of *)
(* three pages, which the cap cuts short if a page comes twice, one with   *)
(* pages that differ in size and one with an item twice, and one of four   *)
(* pages, which the cap always cuts short.                                 *)
EXTENDS AcunetixCollect

SmallLists == {<<<<>>>>,
               <<<<2, 4>>, <<1, 3>>, <<5>>>>,
               <<<<2>>, <<1>>, <<2>>>>,
               <<<<3>>, <<1>>, <<4>>, <<2>>>>}

(* Cursors that come blank, repeated, in any order, or not at all.         *)
AnyCursors == {<<>>} \cup {<<a, b>> : a, b \in NoCursor..2}
=============================================================================
