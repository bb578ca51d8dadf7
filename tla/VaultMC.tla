------------------------------- MODULE VaultMC -------------------------------
(* A small vault: three documents of one stem, one of which shadows another, *)
(* one that is named like source code, one source file; headings whose       *)
(* names, slugs and suffixes collide.                                        *)
EXTENDS Vault

S == <<"lat", "s">>
GS == <<"lat", "g", "s">>
LS == <<"lat", "lat", "s">>
Code == <<"lat", "s.ts">>

MCOrder == <<GS, LS, S, Code>>
MCSlug == [w \in {"big cat", "big-cat"} |-> "big-cat"]
MCTexts == {<<"big cat">>, <<"big-cat">>, <<"big-cat", 1>>}
MCSourceLike == {"s.ts"}
MCFiles == {<<"s.ts">>, <<"notes.txt">>}
MCSymbols == [f \in MCFiles |-> IF f = <<"s.ts">> THEN {<< <<"big-cat">> >>} ELSE {}]
MCMax == [p \in {S, GS, LS, Code} |-> IF p = S THEN 3 ELSE IF p = GS THEN 2 ELSE 1]

Chains ==
  {<<>>} \cup {<<t>> : t \in MCTexts} \cup
  { << <<"big cat">>, <<"big-cat">> >>, << <<"big-cat">>, <<"big-cat", 1>> >> }

MCTargets ==
  [file : {S, GS, <<"s">>, <<"s.ts">>}, heads : Chains] \cup
  {[file |-> f, heads |-> <<>>] : f \in {<<"big-cat">>, <<"big cat">>, <<"notes.txt">>}}
=============================================================================
