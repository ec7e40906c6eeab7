---------------------------- MODULE MCMemoryStore ----------------------------
EXTENDS MemoryStore, TLC

Interchangeable == Permutations(Users)
==============================================================================
