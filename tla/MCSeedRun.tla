------------------------------ MODULE MCSeedRun ------------------------------
(* SeedRun for TLC: three cities, two of which SQLite cannot tell apart. *)
EXTENDS SeedRun

CONSTANTS c1, c2, twin

ThreeCities == {c1, c2, twin}

\* Same name, state, region code and country; different languages.
TwinIdentity == [c \in ThreeCities |-> IF c = twin THEN c2 ELSE c]

TwoCities == {c1, c2}
OwnIdentity == [c \in TwoCities |-> c]
=============================================================================
