------------------------ MODULE MC_PushNotifications ------------------------
(***************************************************************************)
(* Two users, two devices and two calls: enough for a device that changes  *)
(* hands under a call, and for a call with a dead token among others.      *)
(***************************************************************************)
EXTENDS PushNotifications
=============================================================================
