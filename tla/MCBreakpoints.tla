--------------------------- MODULE MCBreakpoints ---------------------------
(* Instances of Breakpoints for TLC: a pool of three nodes and a program   *)
(* of two instructions.                                                    *)
EXTENDS Breakpoints

(* The second instruction is a BREAK_POINT of the program's own.           *)
MCCode == [a \in Addr |-> IF a = 0 THEN "mov" ELSE INT3]

(* A program without one.                                                  *)
MCPlain == [a \in Addr |-> IF a = 0 THEN "mov" ELSE "jmp"]
============================================================================
