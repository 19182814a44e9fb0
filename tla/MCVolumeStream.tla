----------------------------- MODULE MCVolumeStream -----------------------------
(***************************************************************************)
(* The native volume engine on a small chain: one ordinary mint that may   *)
(* be created during the run or stand one trade from its end, and a second *)
(* mint that trades already and whose curve the engine must refuse.        *)
(***************************************************************************)
EXTENDS VolumeStream

CONSTANTS m1, m2

Curve(sol, tok) == [vs |-> sol, vt |-> tok, rs |-> sol - 6, rt |-> tok - 6]

\* States of one constant product, sol * tokens = 72.
MCLadder == <<Curve(6, 12), Curve(8, 9), Curve(9, 8), Curve(12, 6)>>

MCWorld(start, other, m, n) ==
  [origin |-> [x \in Mints |-> IF x = m1 THEN start ELSE 1],
   nature |-> [x \in Mints |-> IF x = m1 THEN "normal" ELSE other],
   events |-> [x \in Mints |-> IF x = m1 THEN m ELSE n]]
MCWorlds == {MCWorld(0, "mayhem", 3, 1), MCWorld(3, "foreign", 3, 1)}

==============================================================================
