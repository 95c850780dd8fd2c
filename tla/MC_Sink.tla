---- MODULE MC_Sink ----
EXTENDS Sink
====
