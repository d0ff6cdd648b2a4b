------------------------------ MODULE EagerDca ------------------------------
(***************************************************************************)
(* What a vault promises about token A, said the direct way: at every drip *)
(* each position that still has drips left spends one share of its own.    *)
(*                                                                         *)
(* The program cannot afford to touch every position at a drip, so it      *)
(* keeps one number per vault and one per period, and works out a          *)
(* position's progress when its holder asks.  That this comes to the same  *)
(* is the refinement of module DripRefinement.                             *)
(***************************************************************************)
EXTENDS DripSums

CONSTANTS Vaults, NumPositions

VARIABLES
    holding,   \* what each position is: its vault, its share and its drips left
    fund       \* the A each vault holds

eager == <<holding, fund>>

Dripping(v) ==
    {p \in 1 .. NumPositions :
        holding[p].phase = "open" /\ holding[p].vault = v /\ holding[p].left > 0}

Shares(v) ==
    [p \in 1 .. NumPositions |-> IF p \in Dripping(v) THEN holding[p].share ELSE 0]

EagerInit ==
    /\ \A p \in 1 .. NumPositions : holding[p].phase \in {"none", "gone"}
    /\ fund = [v \in Vaults |-> 0]

\* A position is opened once, and pays for all its drips beforehand.
Open(p, v) ==
    /\ holding[p].phase = "none"
    /\ holding' = [holding EXCEPT ![p] = holding'[p]]
    /\ holding'[p].phase = "open"
    /\ holding'[p].vault = v
    /\ holding'[p].share > 0 /\ holding'[p].left > 0
    /\ fund' = [fund EXCEPT ![v] = fund'[v]]
    /\ fund'[v] >= fund[v] + holding'[p].left * holding'[p].share

\* Vault v spends n, of which m may come back to a vault: to another or to itself.
Spends(v, n, m, w) ==
    LET spent == [fund EXCEPT ![v] = @ - n] IN fund' = [spent EXCEPT ![w] = @ + m]

\* Everyone with drips left spends one share, and the vault spends nothing else: what
\* part of that it pays for being triggered may go to another vault.
DripAll(v) ==
    /\ Dripping(v) # {}
    /\ holding' = [p \in 1 .. NumPositions |->
         IF p \in Dripping(v) THEN [holding[p] EXCEPT !.left = @ - 1] ELSE holding[p]]
    /\ \E w \in Vaults, fee \in 0 .. SumTo(Shares(v), NumPositions) :
         /\ w = v => fee = 0
         /\ Spends(v, SumTo(Shares(v), NumPositions), fee, w)

Gone(h) == [phase |-> "gone", vault |-> h.vault, share |-> h.share, left |-> 0]

\* A position that is closed gets back the shares it has not spent, wherever it wants.
Close(p) ==
    LET refund == holding[p].left * holding[p].share IN
    /\ holding[p].phase = "open"
    /\ holding' = [holding EXCEPT ![p] = Gone(@)]
    /\ \E w \in Vaults, kept \in {0, refund} : Spends(holding[p].vault, refund, kept, w)

\* The admin may empty a vault in which nobody has drips left.
TakeDust(v) ==
    /\ Dripping(v) = {}
    /\ \E w \in Vaults, kept \in {0, fund[v]} : Spends(v, fund[v], kept, w)
    /\ UNCHANGED holding

EagerNext ==
    \/ \E p \in 1 .. NumPositions, v \in Vaults : Open(p, v)
    \/ \E v \in Vaults : DripAll(v)
    \/ \E p \in 1 .. NumPositions : Close(p)
    \/ \E v \in Vaults : TakeDust(v)

EagerSpec == EagerInit /\ [][EagerNext]_eager
=============================================================================
