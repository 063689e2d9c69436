---------------------------- MODULE MCWorkspace ----------------------------
\* Four calls, two at a time, and a container that may be left behind by a timeout.
EXTENDS Workspace
=============================================================================
