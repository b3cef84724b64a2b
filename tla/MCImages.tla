------------------------------ MODULE MCImages ------------------------------
(* Two parts an image passes through that share no state, each explored by *)
(* itself: the hosted registry (an image of every blob), and the unpacking *)
(* of its layers.                                                          *)
EXTENDS MCRegistry, Unpack

VARIABLE part   \* the one that runs

MCUp == ("d" :> Top) @@ ("f" :> "d") @@ ("g" :> "d") @@ ("e" :> Top)

allVars == <<part, vars, unpackVars>>

MCInit == part \in {"registry", "unpack"} /\ Init /\ UnpackInit

MCNext ==
  /\ UNCHANGED part
  /\ \/ part = "registry" /\ Next /\ UNCHANGED unpackVars
     \/ part = "unpack" /\ UnpackNext /\ UNCHANGED vars

MCSpec == MCInit /\ [][MCNext]_allVars
=============================================================================
