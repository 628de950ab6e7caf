------------------------------ MODULE MC_GoBoot ------------------------------
(* Sections with no second line, a negative, empty, short and usual kernel     *)
(* length; files of no, one, two and three reads; command lines with one       *)
(* character of each length in UTF-8.                                          *)
EXTENDS GoBoot

MC_Configs ==
  {[lines |-> 1, kerLen |-> 0]} \cup {[lines |-> 3, kerLen |-> k] : k \in {-1, 0, 1, 2}}

MC_Texts ==
  {Ascii} \cup {[b \in 1..4 |-> IF b = 1 THEN 2 ELSE IF b = k THEN 1 ELSE 0] : k \in 2..4}
=============================================================================
