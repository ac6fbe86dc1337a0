---------------------------- MODULE MC_LogStorage ----------------------------
EXTENDS LogStorage

MCTerms == {1, 2}
MCVotes == {1, 2}

=============================================================================
