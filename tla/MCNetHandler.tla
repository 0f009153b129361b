---------------------------- MODULE MCNetHandler ----------------------------
(* Small values for the constants of NetHandler: the ports of the programs, *)
(* with none, some and all of the range held by others.                    *)
EXTENDS NetHandler

MCRequests == {0, 5000}
MCRanges == {1, 5, 10}
MCTakenSets == {{}, {5000}, {5001}, {5000, 5001, 5003}, 5000..5004, 5000..5008, 5000..5009}
=============================================================================
