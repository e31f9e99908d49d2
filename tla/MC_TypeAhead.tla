---------------------------- MODULE MC_TypeAhead ----------------------------
(***************************************************************************)
(* TypeAhead for TLC: keywords over 'A', 'a', 'b' ("A" and "a" fold to the *)
(* same letter, so case-equal neighbours and shared prefixes occur), up to *)
(* two characters, lists of up to four ids, every pattern of up to two.    *)
(***************************************************************************)
EXTENDS TypeAhead

MC_Chars  == {65, 97, 98}
MC_MaxLen == 2
MC_MaxIds == 4
====
