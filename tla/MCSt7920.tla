------------------------------- MODULE MCSt7920 -------------------------------
(***************************************************************************)
(* The frame of firmware/main.c, and one with no two rows alike.            *)
(***************************************************************************)
EXTENDS St7920

Distinct == [row \in Rows |-> [column \in Columns |-> (8 * row + 7 * column + 1) % 256]]

MCFramebuffers == {Checkerboard, Distinct}
MCPowerOnRam == {[row \in RamRows |-> [byte \in 0 .. 31 |-> 255 - row]]}

=============================================================================
