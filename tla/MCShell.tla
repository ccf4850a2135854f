------------------------------- MODULE MCShell -------------------------------
EXTENDS ConsumerShell

CONSTANTS make, manage

Modes     == {make, manage}
SongModes == {make}
Keys      == {"songwriting"}
Short(rows) == rows.versions <= 2 /\ rows.events <= 7 + 2 * rows.versions
=============================================================================
