---------------------------- MODULE MCPollHealth ----------------------------
EXTENDS PollHealth
=============================================================================
