----------------------------- MODULE MCStoreFiles -----------------------------
(* Two creates of one name: a new disk, or a cloud-init seed beside a disk made  *)
(* of a download.                                                                *)
EXTENDS StoreFiles

MCRequests ==
  {[seed |-> FALSE, image |-> "none", grows |-> FALSE],
   [seed |-> TRUE, image |-> "remote", grows |-> TRUE]}
=============================================================================
