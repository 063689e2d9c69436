----------------------------- MODULE MCGPUJobs -----------------------------
\* Small instances of GPUJobs for TLC.
EXTENDS GPUJobs
=============================================================================
