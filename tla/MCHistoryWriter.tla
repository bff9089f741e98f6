-------------------------- MODULE MCHistoryWriter --------------------------
EXTENDS HistoryWriter

MCTimes == 0..1
=============================================================================
