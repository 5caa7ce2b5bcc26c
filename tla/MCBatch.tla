----------------------------- MODULE MCBatch -----------------------------
EXTENDS Batch
=============================================================================
