---------------------------- MODULE MCAuditChain ----------------------------
(* Instances of AuditChain for TLC.                                        *)
EXTENDS AuditChain, TLC

\* Sessions differ in nothing.
Interchangeable == Permutations(Sessions)

=============================================================================
