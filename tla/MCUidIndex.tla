----------------------------- MODULE MCUidIndex -----------------------------
(* Small instances of UidIndex. *)
EXTENDS UidIndex, TLC

\* One class, paired with each contract at some time: what the earlier releases
\* left of a contract that is gone is still there.
MCClassNfts == [c \in Contracts |-> Nfts]

MCSymmetry == Permutations(Nfts) \cup Permutations(Contracts)

=============================================================================
