-------------------------- MODULE MCLegacyMigration --------------------------
(* Three indexes of one directory: one that leaves the marker, one that    *)
(* meets it, one that takes it over; the first holds two rows, so that one *)
(* can be deleted while the other stays.  Two are observations with a      *)
(* dedupe_key, and one of these has links.                                 *)
EXTENDS LegacyMigration

CONSTANTS i1, i2, i3, r1, r2, r3, r4

MCIndex == {i1, i2, i3}
MCRow == {r1, r2, r3, r4}
MCHome == [r \in MCRow |-> IF r \in {r1, r2} THEN i1 ELSE IF r = r3 THEN i2 ELSE i3]
MCKeyed == {r2, r3}
MCLinked == {r3}
==============================================================================
