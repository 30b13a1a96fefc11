---------------------------- MODULE MCRemoteView ----------------------------
(* Two places whose surroundings overlap: more chunks than fit in a tick,  *)
(* and a hole between them.                                                *)
EXTENDS RemoteView, TLC

Surroundings == "hall" :> <<"c1", "hole", "c2">> @@ "yard" :> <<"hole", "c2", "c3">>

Quiet   == "hall" :> 1 @@ "yard" :> 230
=============================================================================
