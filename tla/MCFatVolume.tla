---------------------------- MODULE MCFatVolume -----------------------------
(***************************************************************************)
(* FatVolume for TLC.                                                      *)
(***************************************************************************)
EXTENDS FatVolume, TLC

CONSTANTS a, b, h1, h2

Symmetric == Permutations({a, b}) \cup Permutations({h1, h2})
Mixed == [n \in Names |-> IF n = a THEN {a, b} ELSE {}]
Own == [n \in Names |-> {n}]

Plan(ops, handles, sizes, seeks, past, killed) ==
    [ops |-> ops, handles |-> handles, sizes |-> sizes, seeks |-> seeks, past |-> past,
     kills |-> killed]

\* Killed at any sector, and while it is rewritten; a full disk, with two files
\* open; renamed, and killed; truncated, and grown by a seek, and killed.
Killed == Plan({"append", "always", "write", "sync", "close", "unlink"}, {h1}, {1, 3}, {}, FALSE, 1)
Rewritten == Plan({"open", "append", "write", "close"}, {h1}, {1, 3}, {}, FALSE, 1)
Full == Plan({"append", "always", "write", "close", "unlink", "getfree"},
             {h1, h2}, {1, 3}, {}, FALSE, 0)
Named(sizes, killed) ==
    Plan({"append", "write", "close", "unlink", "rename"}, {h1}, sizes, {}, FALSE, killed)
Short == Plan({"append", "write", "close", "seek", "truncate"}, {h1}, {3}, {0}, FALSE, 1)
Cut(handles, seeks) ==
    Plan({"append", "close", "seek", "truncate"}, handles, {3}, seeks, TRUE, 1)
DiskPlans == {Killed, Rewritten, Full, Named({1, 3}, 0), Named({3}, 1), Short,
              Cut({h1}, {0, 3}), Cut({h1, h2}, {2, 3})}

\* Read, truncated and removed; and read where the buffer is ahead of the disk.
Reader == Plan({"append", "write", "close", "read", "seek", "truncate", "unlink"},
               {h1}, {3}, {0, 1}, FALSE, 0)
Buffered == Plan({"append", "write", "read", "seek"}, {h1}, {1, 3}, {0}, FALSE, 0)
Readers == {Reader, Buffered}
=============================================================================
