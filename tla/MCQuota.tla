------------------------------ MODULE MCQuota -------------------------------
(***************************************************************************)
(* Instances of Quota for TLC.                                             *)
(***************************************************************************)
EXTENDS Quota, TLC

CONSTANTS k1, k2

(* k1 has three units, k2 has none.                                        *)
ThreeUnitsOrNone == (k1 :> <<1, 1, 2>>) @@ (k2 :> <<>>)
ThreeUnits == k1 :> <<1, 1, 2>>

(* A negative cent, nothing, half a cent, three cents.                     *)
AllTotals == {-2, 0, 1, 6}

Symmetry == Permutations(QuotaReq)
=============================================================================
