---------------------------- MODULE MCPullReplay ----------------------------
EXTENDS PullReplay

CONSTANTS pull, other
=============================================================================
