------------------------ MODULE ProvisioningRegistry ------------------------
(* What the provisioning service promises about its two tables, with every  *)
(* operation atomic: an address registers at most once and is then only     *)
(* approved or rejected; a connector name is claimed at most once, by an    *)
(* address that had been approved by then, and keeps its owner.             *)
CONSTANTS Emails, Names

VARIABLES account, owner, vetted

Init ==
    /\ account = [e \in Emails |-> "unknown"]
    /\ owner = [n \in Names |-> "nobody"]
    /\ vetted = {}

Register(e) ==
    /\ account[e] = "unknown"
    /\ account' = [account EXCEPT ![e] = "pending"]
    /\ UNCHANGED <<owner, vetted>>

Decide(e, status) ==
    /\ account[e] # "unknown"
    /\ account' = [account EXCEPT ![e] = status]
    /\ vetted' = IF status = "approved" THEN vetted \cup {e} ELSE vetted
    /\ UNCHANGED owner

Claim(n, e) ==
    /\ owner[n] = "nobody"
    /\ e \in vetted
    /\ owner' = [owner EXCEPT ![n] = e]
    /\ UNCHANGED <<account, vetted>>

Next ==
    \E e \in Emails :
        \/ Register(e)
        \/ \E status \in {"approved", "rejected"} : Decide(e, status)
        \/ \E n \in Names : Claim(n, e)

Spec == Init /\ [][Next]_<<account, owner, vetted>>
=============================================================================
