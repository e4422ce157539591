------------------------------ MODULE MCTyping ------------------------------
(* Instance of Typing for TLC: two letters of the alphabet, one new letter *)
(* every other tick, a screen of four positions, so that three letters may *)
(* be alive and the pool of three is just enough; the main loop up to      *)
(* three ticks behind.                                                     *)
EXTENDS Typing

MCAdds == << [irq |-> 0,  routine |-> "ide_writeback",  masked |-> FALSE],
             [irq |-> 14, routine |-> "ide_intr",       masked |-> FALSE],
             [irq |-> 0,  routine |-> "timer_event",    masked |-> TRUE],
             [irq |-> 1,  routine |-> "keyboard_event", masked |-> TRUE] >>
=============================================================================
