-------------------------- MODULE MCSqrtPriceLimit --------------------------
(* Constants for model-checking SqrtPriceLimit. *)
EXTENDS SqrtPriceLimit

\* Every slippage, and values init_vault must reject.
AllSlippages == 0 .. Bps + 1
=============================================================================
