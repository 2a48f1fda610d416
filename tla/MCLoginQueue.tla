----------------------------- MODULE MCLoginQueue -----------------------------
EXTENDS LoginQueue, TLC
================================================================================
