------------------------------ MODULE MCVillage ------------------------------
(***************************************************************************)
(* The living-residents layout: two farmers of one field fill village      *)
(* depot 1, where they also eat, a carrier loads from it for the city and  *)
(* a raider steals from it for the camp.  Two farmers bring the depot      *)
(* close to its capacity.  There is no prey in this layout.                *)
(***************************************************************************)
EXTENDS SupplyLedger, TLC

MCDepotSpec ==
  [d \in 1..6 |-> [initial |-> 0, capacity |-> 2, target |-> 1, low |-> IF d = 1 THEN 1 ELSE 0]]
MCFieldSpec == (1 :> [initial |-> 2, capacity |-> 3, regrow |-> 2])
MCRoster == "farmer" :> [kind |-> "farmer", depot |-> 1, capacity |-> 2, allVillages |-> FALSE]
            @@ "carrier" :> [kind |-> "carrier", depot |-> 5, capacity |-> 2, allVillages |-> FALSE]
            @@ "raider" :> [kind |-> "raider", depot |-> 6, capacity |-> 2, allVillages |-> TRUE]
            @@ "miller" :> [kind |-> "farmer", depot |-> 1, capacity |-> 2, allVillages |-> FALSE]
=============================================================================
