---------------------------- MODULE MCMacroParser ----------------------------
(***************************************************************************)
(* MacroParser for TLC: every source of a few pieces.                      *)
(***************************************************************************)
EXTENDS MacroParser, SequencesExt, TLC

Delay == <<"D", "E", "L", "A", "Y", ":">>
Names == <<"C", "T", "R", "L">> :> "CTRL" @@ <<"F", "2">> :> "F2"
         @@ <<"S", "H", "I", "F", "T">> :> "SHIFT"

\* Text, directives right and wrong, brackets, line ends and a foreign byte.
Pieces == {<<"a">>, <<"A">>, <<"[">>, <<"]">>, <<"lbrace">>, <<"rbrace">>,
           <<"\r">>, <<"\n">>,
           <<"lbrace", "C", "T", "R", "L", "rbrace">>, <<"lbrace", "F", "2", "rbrace">>,
           <<"lbrace">> \o Delay \o <<"7", "rbrace">>,
           <<"lbrace">> \o Delay \o <<"1", "0", "7", "rbrace">>,
           <<"non-ascii">>}
\* A delay whose text fills the buffer of a directive.
Zeros == <<"lbrace">> \o Delay \o <<"0", "0", "0", "0", "0", "7", "rbrace">>

Few == {<<"a">>, <<"[">>, <<"]">>, <<"lbrace", "C", "T", "R", "L", "rbrace">>}

\* All of three pieces, and longer ones of those that groups are made of.
Concatenations(pieces, n) == {FlattenSeq(s) : s \in UNION {[1 .. k -> pieces] : k \in 0 .. n}}
AllSources == Concatenations(Pieces, 3) \cup Concatenations(Few, 6) \cup {Zeros}

Timings == {[keyPress |-> 1, interKey |-> 2], [keyPress |-> 11, interKey |-> 0]}

\* No two characters are the same key, so what was typed can be told.
ASSUME DistinctKeys == \A c, d \in DOMAIN Printable : Printable[c] = Printable[d] => c = d
ASSUME AllPrintable == Cardinality(DOMAIN Printable) = 95
=============================================================================
