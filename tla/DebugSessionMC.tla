--------------------------- MODULE DebugSessionMC ---------------------------
(***************************************************************************)
(* Small programs for DebugSession.  Both have the shape of a debugged     *)
(* program: a monitor in ROM that starts the application, which calls a    *)
(* subroutine of its own and one in ROM, repeats, and halts.               *)
(*                                                                         *)
(*   0  ROM:   jumps to the application                                    *)
(*   1  main:  CALL sub                                                    *)
(*   2         CALL NZ,ret                                                 *)
(*   3         JR NZ,main                                                  *)
(*   4         HALT                                                        *)
(*   5  sub:   an instruction; in "v2" one that an interrupt may hit       *)
(*   6  ROM:   RET, which is the interrupt handler too                     *)
(***************************************************************************)
EXTENDS DebugSession, TLC

MCAddr == 0 .. 6
MCFollowing == [a \in MCAddr |-> IF a = 6 THEN 0 ELSE a + 1]
Op(does, to) == [does |-> does, to |-> to]

MCProgram ==
  0 :> Op({"jump"}, 1) @@ 1 :> Op({"call"}, 5) @@ 2 :> Op({"fall", "call"}, 6)
  @@ 3 :> Op({"fall", "jump"}, 1) @@ 4 :> Op({"halt"}, 0)
  @@ 5 :> Op({"fall"}, 6) @@ 6 :> Op({"ret"}, 0)

MCCode ==
  [v \in Versions |->
     CASE v = "v1" -> MCProgram
       [] v = "v2" -> [MCProgram EXCEPT ![5] = Op({"fall", "irq"}, 6)]]

(* The edit between the two versions moves line "a" and deletes line "b".  *)
MCLineAddr ==
  [v \in Versions |->
     [l \in Lines |-> CASE l = "a" -> IF v = "v1" THEN 2 ELSE 3
                        [] l = "b" -> IF v = "v1" THEN 5 ELSE None]]
=============================================================================
