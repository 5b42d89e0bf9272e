---------------------------- MODULE MCBundleOps ----------------------------
(* Three operations, with estimations below and above what they need.      *)
EXTENDS BundleOps

MCFloorOf == <<30000, 50000, 70000>>
MCLocalOf == <<20000, 90000, 90000>>
MCEstimates == {40000, 200000}
=============================================================================
