---------------------------- MODULE Tec1gBoardMC ----------------------------
(* Small devices for the TEC-1G board, for TLC. *)
EXTENDS Tec1gBoard

\* ROM nowhere, at the top, and at the top and the bottom.
MCBoards ==
  {[rom |-> {}, cartridge |-> FALSE, sysCtrl |-> 0],
   [rom |-> {"mirror", "top"}, cartridge |-> TRUE, sysCtrl |-> 2],
   [rom |-> {"low", "mirror", "top"}, cartridge |-> TRUE, sysCtrl |-> 0]}

\* ROM at the bottom only.
BottomRom == {[rom |-> {"low"}, cartridge |-> FALSE, sysCtrl |-> 0]}

\* A block with a byte that looks like a start token and one like a command.
MCBlocks == {<<254, 64>>}

\* All switches with the window closed; banks 0, 1, 2, 3 and 15 of the latch in it.
MCSysCtrl == {0, 1, 2, 3} \cup {5 + 8 * bank : bank \in {0, 1, 2, 3, 15}}

\* The last second of a year and the first of the next.
MCInstant ==
  {<<89, 89, 35, 49, 18, 5, 56>>, <<0, 0, 0, 1, 1, 6, 57>>}
MCInstants == {[r \in 0..6 |-> t[r + 1]] : t \in MCInstant}
=============================================================================
