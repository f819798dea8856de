---- MODULE MCScheduler ----
EXTENDS Scheduler, TLC
====
