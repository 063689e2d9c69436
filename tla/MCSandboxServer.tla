-------------------------- MODULE MCSandboxServer --------------------------
\* Small instances of SandboxServer for TLC.
EXTENDS SandboxServer
=============================================================================
