------------------------------ MODULE MCPicture ------------------------------
(* Instances of Picture for TLC. *)
EXTENDS Picture

(* What meets in the infrared thread, and keys of each other kind.  300    *)
(* fits no register but the mirror, 7 no scene, and 55 is not stored; the  *)
(* thresholds can be crossed, and put below, between or above the light.   *)
FewPairs == {
  {<<"saturation", 90>>, <<"stat", 2>>},
  {<<"saturation", 300>>},
  {<<"stat", 0>>, <<"stat", 1>>, <<"stat", 2>>},
  {<<"imgctow", 4>>, <<"imgctow", 2>>, <<"imgwtoc", 1>>},
  {<<"hue", 300>>, <<"FW", 55>>, <<"FW", 60>>},
  {<<"scene", 3>>, <<"scene", 7>>},
  {<<"mirror", 300>>, <<"brightness", 9>>},
  {<<"contrast", 9>>, <<"flip", 9>>}}

Delivered == [k \in Keys |-> CASE k = "FW" -> 50 [] k \in {"scene", "stat"} -> 0
                               [] k = "imgctow" -> 2 [] k = "imgwtoc" -> 3
                               [] k = "saturation" -> 120 [] OTHER -> 1]
=============================================================================
