--------------------------- MODULE MCPacketReplay ---------------------------
(* PacketReplay for TLC: the threads and the routes.                        *)
EXTENDS PacketReplay, TLC

CONSTANTS w1, w2

Workers == {w1, w2}
OneWorker == {w1}
Symmetry == Permutations(Workers)

(* On foot to a vehicle and back, by a recorded PutPlayerInVehicle, through *)
(* an interior, and a route that ends in an RPC.                            *)
SomeRoutes ==
  {<<"foot", "car">>,
   <<"foot", "put", "car", "remove">>,
   <<"key", "interior", "foot">>,
   <<"foot", "freeze", "sent", "foot">>}

(* On foot to a vehicle, with an RPC of the player's on the way. *)
MixedRoutes == {<<"foot", "sent", "car">>}
=============================================================================
