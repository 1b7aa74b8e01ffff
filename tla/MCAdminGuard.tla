---------------------------- MODULE MCAdminGuard ----------------------------
(* The instances of AdminGuard that TLC explores. *)
EXTENDS AdminGuard, TLC

CONSTANTS ann, bob, cat, r1, r2
=============================================================================
