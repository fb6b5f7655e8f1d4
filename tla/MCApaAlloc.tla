------------------------------ MODULE MCApaAlloc ------------------------------
(* Bounds for TLC. A megabyte is two bytes and a chunk eight megabytes, so    *)
(* that up to four extents fit one chunk's overhead as 124 do on a real drive;*)
(* slices of a few chunks, and extents of up to half a slice.                 *)
EXTENDS ApaAlloc

CONSTANTS exact, tight, big

\* exact: one chunk, its 4 megabytes of overhead leave nothing to spare;
\* tight: two chunks if they merge, three if not;
\* big: three chunks if they make two extents, four if three.
MCSize == (exact :> 7) @@ (tight :> 23) @@ (big :> 38)

MCOrder == <<big, exact, tight>>

\* Installs and removals are followed on the small drives. The others are there
\* for the merge, as they are found: on eight chunks, however they lie, extents
\* of two join again, and on sixteen, with up to four taken, those of four.
Followed == {<<6>>, <<2, 4>>}

MCDrives == Followed \cup {<<8>>, <<16>>}

MCInit == AllocInit /\ (drive = <<16>> => Cardinality(table) <= 4)

MCSpec == MCInit /\ [][AllocNext]_allocVars

MCBounds == drive \in Followed
=============================================================================
