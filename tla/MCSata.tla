------------------------------- MODULE MCSata -------------------------------
(***************************************************************************)
(* Instances of SataChannel for TLC: two to four CCMs, and up to five      *)
(* contexts whose commands are fixed by the configuration.                 *)
(***************************************************************************)
EXTENDS SataInvariant, TLC

CONSTANTS c1, c2, c3, c4, c5

KindAll   == c1 :> "READ" @@ c2 :> "WRITE" @@ c3 :> "VERIFY" @@ c4 :> "PASS_IN"
               @@ c5 :> "PASS_OUT"
KindReadWrite == c1 :> "READ" @@ c2 :> "WRITE"
KindReads == c1 :> "READ" @@ c2 :> "READ"
KindReset == c1 :> "READ" @@ c2 :> "SRST" @@ c3 :> "HRST"
KindStart == c1 :> "READ" @@ c2 :> "WRITE" @@ c3 :> "VERIFY" @@ c4 :> "PASS_IN"
               @@ c5 :> "HRST"
KindVerify == c1 :> "READ" @@ c2 :> "VERIFY"
=============================================================================
