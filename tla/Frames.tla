------------------------------- MODULE Frames -------------------------------
(***************************************************************************)
(* Frames, histories of frames and the databases they describe.            *)
(*                                                                         *)
(* A frame is one version of one database page (replication/frame.rs).     *)
(* Page contents are versions: naturals that grow with every page write,   *)
(* so that an older content is recognised as such.                         *)
(***************************************************************************)
EXTENDS Integers, FiniteSets, FiniteSetsExt

CONSTANT MaxPage     \* pages are 1..MaxPage

ASSUME FramesAssumption == MaxPage \in Nat \ {0}

Pages == 1..MaxPage

\* A history: frame numbers are its indices. size is 0 except on the last
\* frame of a transaction, where it is the size of the database after it.
Frame(f, p, s, d) == [no |-> f, page |-> p, size |-> s, data |-> d]

\* The size of the database after the first n frames, n a commit boundary.
SizeAt(h, n) == IF n = 0 THEN 0 ELSE h[n - 1].size

\* The database after the first n frames, n a commit boundary: every page has
\* the content of its newest frame.
DbAt(h, n) ==
    [p \in 1..SizeAt(h, n) |->
        h[Max({f \in 0..(n - 1) : h[f].page = p})].data]

\* The newest frame of every page among a set of frames.
Newest(F) == {f \in F : \A g \in F : g.page = f.page => g.no <= f.no}

\* The log that ReplicationLogger::recover writes for a database: one frame per
\* page, the size on the last one only.
Dump(d) ==
    LET size == Cardinality(DOMAIN d)
    IN  [f \in 0..(size - 1) |->
            Frame(f, f + 1, IF f = size - 1 THEN size ELSE 0, d[f + 1])]

=============================================================================
