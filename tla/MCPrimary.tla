----------------------------- MODULE MCPrimary -----------------------------
EXTENDS Primary
=============================================================================
