---- MODULE MCProbes ----
EXTENDS Probes
BootScratch == {0, 1, TestValue}
====
