---------------------------- MODULE RewriteState ----------------------------
(* The components of Parts that rewrite what a channel sends, and send it:  *)
(* those that Rewrites_proofs is about.                                     *)
EXTENDS PartsState

Sdt == INSTANCE SdtRewrite
Eit == INSTANCE EitRewrite
Pmt == INSTANCE PmtRewrite
D == INSTANCE Datagrams

ASSUME SdtNumbered == Sdt!SdtAssumption
ASSUME EitNumbered == Eit!EitAssumption
ASSUME PmtCut == Pmt!PmtAssumption
ASSUME DatagramSizes == D!SizesAssumption
=============================================================================
