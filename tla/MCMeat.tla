------------------------------- MODULE MCMeat -------------------------------
(***************************************************************************)
(* The meat side of the ledger in the preview-v8 layout: two hunters of    *)
(* the south depot and a wolf compete for the corpses of one prey spawn.   *)
(***************************************************************************)
EXTENDS SupplyLedger, TLC

MCDepotSpec == (1 :> [initial |-> 1, capacity |-> 2, target |-> 1, low |-> 1])
MCFieldSpec == <<>>
MCRoster == "h1" :> [kind |-> "hunter", depot |-> 1, capacity |-> 2, allVillages |-> FALSE]
            @@ "h2" :> [kind |-> "hunter", depot |-> 1, capacity |-> 2, allVillages |-> FALSE]
            @@ "w" :> [kind |-> "predator", depot |-> 0, capacity |-> 0, allVillages |-> FALSE]
=============================================================================
