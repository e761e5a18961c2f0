---------------------------- MODULE MCRemuxJobs ----------------------------
\* Instances of RemuxJobs: what the keys stand for, the symmetries.
EXTENDS RemuxJobs, TLC

CONSTANTS k1, k2

SeekKey == k1 :> "web_seek"
SeekAndProfile8 == k1 :> "web_seek" @@ k2 :> "p8"
SeekAndCache == k1 :> "web_seek" @@ k2 :> "web_cache"

\* Readers are interchangeable, and so are sessions.
ReaderSymmetry == Permutations(Reader) \cup Permutations(Session)
=============================================================================
