--------------------------- MODULE DripRefinement ---------------------------
(***************************************************************************)
(* The vault's lazy bookkeeping implements EagerDca: a position's drips    *)
(* left are worked out from its expiry and the vault's last drip, and the  *)
(* A a drip sells is the vault's drip_amount.                              *)
(***************************************************************************)
EXTENDS DripVault

\* A position an earlier version marked closed is as gone as one whose account
\* has been closed.
Phase(p) == IF position[p].status \in {"none", "open"} THEN position[p].status ELSE "gone"

DripsLeft(p) ==
    IF Active(p, position[p].vault)
    THEN Expiry(p) - vault[position[p].vault].last_drip_period
    ELSE 0

Holding == [p \in Positions |->
    [phase |-> Phase(p), vault |-> position[p].vault,
     share |-> position[p].periodic_drip_amount, left |-> DripsLeft(p)]]

Fund == [v \in Vaults |-> balance[v]["A"]]

Eager == INSTANCE EagerDca WITH holding <- Holding, fund <- Fund

\* Whatever instructions are sent, in whatever order, the A of the vaults moves
\* as if every drip had touched every position: the program's O(1) drip, its
\* withdrawals and its closes are an implementation of EagerDca.
EagerSpec == Eager!EagerSpec
=============================================================================
