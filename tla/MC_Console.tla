---------------------------- MODULE MC_Console ----------------------------
(***************************************************************************)
(* Texts of a letter, a tab, a line feed, a unit whose low byte is zero    *)
(* and a rune outside the basic plane, that fill eight or sixteen bytes    *)
(* exactly and that do not.  A letter, a cursor key, a wide character.     *)
(***************************************************************************)
EXTENDS Console

MCTexts ==
  SeqOf({97, 9, 10, 9472, 128512}, 1) \cup [1..4 -> {97, 9472}]
    \cup {<<97, 97, 10>>, <<9, 97>>, <<9, 9472>>, <<128512, 97, 9472>>, cub}
MCKeys == {[ScanCode |-> 0, UnicodeChar |-> 97], [ScanCode |-> 1, UnicodeChar |-> 0],
           [ScanCode |-> 0, UnicodeChar |-> 8364]}
=============================================================================
