---------------------------- MODULE MCHistoryPager ----------------------------
EXTENDS HistoryPager
=============================================================================
