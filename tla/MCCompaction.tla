---- MODULE MCCompaction ----
EXTENDS Compaction
====
