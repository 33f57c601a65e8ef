---------------------------- MODULE MCLiveRun ----------------------------
EXTENDS LiveRun
===========================================================================
