-------------------------- MODULE MCStoreAuthority --------------------------
(* The instance of StoreAuthority that StoreAuthority_safety.cfg describes. *)
EXTENDS StoreAuthority
=============================================================================
