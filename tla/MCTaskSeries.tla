---------------------------- MODULE MCTaskSeries ----------------------------
EXTENDS TaskSeries
=============================================================================
