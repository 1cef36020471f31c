---------------------------- MODULE MCPcCalls ----------------------------
\* An instance of PcPairing for TLC: tool calls that overlap, and nothing that fails.
EXTENDS PcPairing
==========================================================================
