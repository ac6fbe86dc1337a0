----------------------------- MODULE MC_LspProxy -----------------------------
EXTENDS LspProxy

MCCallers == {"c1", "c2"}
MCServerIds == {0, 1}
=============================================================================
