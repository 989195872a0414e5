---------------------------- MODULE MCQEMUInstance ----------------------------
(* A small instance of QEMUInstance: the configurations of MCVMConfig.            *)
EXTENDS QEMUInstance, MCVMConfig

MCObservers == {"collector"}
=============================================================================
