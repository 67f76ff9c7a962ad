------------------------------ MODULE MCFence ------------------------------
EXTENDS Fence
=============================================================================
