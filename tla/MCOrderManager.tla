---------------------------- MODULE MCOrderManager ----------------------------
(***************************************************************************)
(* OrderManager with one permit, so that two tasks already wait.           *)
(***************************************************************************)
EXTENDS OrderManager

OnePermit == [s \in Sem |-> 1]

=============================================================================
