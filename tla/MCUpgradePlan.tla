--------------------------- MODULE MCUpgradePlan ----------------------------
(***************************************************************************)
(* Two vouchers, one with decimals to be read off its source denom, one    *)
(* contract and one account.  With a scale of 2 a raw base fee of 1 is a   *)
(* legacy value or less than one wei, and 2 is one wei.                    *)
(***************************************************************************)
EXTENDS UpgradePlan

MCModules == {"erc20", "erc721"}
MCScale == 2
MCFees == {1, 2}
=============================================================================
