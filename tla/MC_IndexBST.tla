---------------------------- MODULE MC_IndexBST ----------------------------
EXTENDS IndexBST
====
