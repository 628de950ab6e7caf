----------------------------- MODULE MC_EfiVars -----------------------------
(* Three variables, with names that grow and shrink along the enumeration.     *)
EXTENDS EfiVars

MC_NameSize == <<3, 5, 2>>
=============================================================================
