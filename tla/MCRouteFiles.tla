---------------------------- MODULE MCRouteFiles ----------------------------
(* RouteFiles for TLC: a waypoint route with a fill route and a keyword, a  *)
(* recorded route with a colour and a fill route that was recorded after it,*)
(* and a route of both kinds; and a file with a section the program does    *)
(* not know.                                                                *)
EXTENDS RouteFiles, TLC

CONSTANTS i1, i2

IdSymmetry == Permutations(Id)

E(kind) == [kind |-> kind]

Elements == {E(kind) : kind \in {"waypoint", "in_car", "on_foot", "keyword", "color"}}

SomeRecordings ==
  {[route |-> [waypoints |-> <<E("waypoint")>>, fill |-> <<E("waypoint")>>, packets |-> <<>>],
    chat |-> [keywords |-> <<E("keyword")>>, colors |-> <<>>]],
   [route |-> [waypoints |-> <<>>, fill |-> <<E("waypoint")>>, packets |-> <<E("in_car")>>],
    chat |-> [keywords |-> <<>>, colors |-> <<E("color")>>]],
   [route |-> [waypoints |-> <<E("waypoint")>>, fill |-> <<>>, packets |-> <<E("on_foot")>>],
    chat |-> NoLists]}

OtherVersions == {<<Put("tag", "other"), Put("count", 0)>>}
=============================================================================
