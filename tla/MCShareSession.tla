--------------------------- MODULE MCShareSession ----------------------------
(* Instances of ShareSession for TLC: a session of two services and one of   *)
(* the first of them (outport share web).                                    *)
EXTENDS ShareSession

CONSTANTS s1, s2, web, api

MCTunnelsOf == [s \in Sessions |-> IF s = s1 THEN {web, api} ELSE {web}]
=============================================================================
