------------------------------ MODULE MCWakeUps ------------------------------
(***************************************************************************)
(* Instances of WakeUps for TLC.                                           *)
(***************************************************************************)
EXTENDS WakeUps, TLC

\* bookings differ in nothing but their draws
MCSymmetry == Permutations(Bookings)

\* waits shorter and longer than interval_main_loop
MCWaits == {1, 6}
=============================================================================
