---------------------------- MODULE MCCommandCalls ----------------------------
(* A small instance of CommandCalls for TLC. *)
EXTENDS CommandCalls, TLC

(* Parameters: a number that may be left out and may be negative, a name    *)
(* matched by a pattern that "-" and line ends get past, a listed word.     *)
number == [type |-> "int", min |-> -1, max |-> 1, optional |-> TRUE]
name == [type |-> "regex", pattern |-> {<<"a">>, <<"-", "a">>, <<"a", "NL">>}, slow |-> {},
         max_length |-> 2, allow_leading_dash |-> FALSE, optional |-> FALSE]
word == [type |-> "enum", values |-> <<<<"a">>, <<"-", "a">>>>, optional |-> FALSE]

Command(argv, params, sudo) == [argv |-> argv, params |-> params, sudo |-> sudo]

(* l -n=N C, with a name, and as root with a word; and three that are        *)
(* refused: N shares its element, N follows a flag, N is never used.         *)
MCTemplates ==
    {Command(<<<<"l">>, <<"-", "n", "=", "N">>, <<"C">>>>, [N |-> number, C |-> name], FALSE),
     Command(<<<<"l">>, <<"-", "n", "=", "N">>, <<"C">>>>, [N |-> number, C |-> word], TRUE),
     Command(<<<<"l">>, <<"C", "N">>>>, [N |-> number, C |-> name], FALSE),
     Command(<<<<"l">>, <<"-", "n">>, <<"N">>, <<"C">>>>, [N |-> number, C |-> name], FALSE),
     Command(<<<<"l">>, <<"C">>>>, [N |-> number, C |-> name], FALSE)}

text(t) == [json |-> "string", text |-> t]
MCGivens ==
    {[C |-> text(<<"a">>)],
     [C |-> text(<<"-", "a">>), N |-> [json |-> "number", number |-> -1]]}

Symmetry == Permutations(Calls) \cup Permutations(Admins)
=============================================================================
