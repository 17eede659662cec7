----------------------------- MODULE MCCallEvents -----------------------------
EXTENDS CallEvents
===============================================================================
