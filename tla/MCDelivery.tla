----------------------------- MODULE MCDelivery -----------------------------
(* Instances of Delivery for TLC: the snapshots of MCPipeline.              *)
EXTENDS Delivery, MCPipeline
=============================================================================
