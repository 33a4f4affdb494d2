---------------------------- MODULE MCVblDispatch ----------------------------
(* Small instances of the notification.                                      *)
EXTENDS VblDispatch, TLC

CONSTANTS a, b

MCTwo == {a, b}
=============================================================================
