---------------------------- MODULE MCAlertDelivery ----------------------------
(***************************************************************************)
(* Instances of AlertDelivery for TLC.  AlertDelivery.cfg: a finding and a *)
(* signature, and a list of resolved findings with room for one less than  *)
(* one round can resolve.                                                  *)
(***************************************************************************)
EXTENDS AlertDelivery

===============================================================================
