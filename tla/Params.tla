-------------------------------- MODULE Params --------------------------------
(***************************************************************************)
(* Params: what a command of the library may say, which values a call may  *)
(* give it, and the argument list they make (parse_command,                *)
(* validate_params and build_argv of app/services/command_library.py).     *)
(*                                                                         *)
(* A text is a sequence of characters, few of which matter: "-" at its     *)
(* beginning, "NUL" and "NL" anywhere.  An element of a template is a      *)
(* sequence of characters and of names of parameters, a name standing for  *)
(* its placeholder.  A pattern is the set of texts it matches in full and  *)
(* the set of those it is too slow on.  A value a call gives is a string,  *)
(* a whole number or something else, as in JSON.                           *)
(***************************************************************************)
EXTENDS Integers, Sequences, FiniteSets, SequencesExt
LOCAL INSTANCE TLC

CONSTANTS
    Names,          \* names of parameters
    Symbols,        \* the characters of templates and values
    MaxValueChars   \* MAX_VALUE_CHARS (200)

Dashed(text) == text # <<>> /\ text[1] = "-"

(* The placeholders of an element; an element that is nothing but one. *)
Holes(token) == ToSet(token) \cap Names
StandsAlone(token) == Len(token) = 1 /\ token[1] \in Names

-----------------------------------------------------------------------------
(* parse_command *)

(* _parse_param: the constraints a parameter may be declared with. *)
WellFormed(spec) ==
    \/ /\ spec.type = "enum"
       /\ spec.values # <<>>
       /\ \A i \in DOMAIN spec.values :
             /\ spec.values[i] # <<>> /\ Len(spec.values[i]) <= MaxValueChars
             /\ "NUL" \notin ToSet(spec.values[i])
             /\ \A j \in DOMAIN spec.values : spec.values[i] = spec.values[j] => i = j
    \/ spec.type = "int" /\ spec.min <= spec.max
    \/ spec.type = "regex" /\ spec.max_length \in 1 .. MaxValueChars

Optional(template) == {p \in DOMAIN template.params : template.params[p].optional}

(* An optional parameter may be left out, and its element with it: it has   *)
(* that element for itself, and a flag before it would be left bare.        *)
OptionalsFit_Mixed(template) ==     \* mutant: it may share its element
    \A i \in DOMAIN template.argv :
        Holes(template.argv[i]) \cap Optional(template) # {} =>
            ~(StandsAlone(template.argv[i]) /\ Dashed(template.argv[i - 1]))

OptionalsFit(template) ==
    \A i \in DOMAIN template.argv :
        Holes(template.argv[i]) \cap Optional(template) # {} =>
            /\ Cardinality(Holes(template.argv[i])) = 1
            /\ ~(StandsAlone(template.argv[i]) /\ Dashed(template.argv[i - 1]))

Accepts(template) ==
    /\ template.argv # <<>>
    /\ \A i \in DOMAIN template.argv : /\ template.argv[i] # <<>>
                                       /\ "NUL" \notin ToSet(template.argv[i])
    /\ Holes(template.argv[1]) = {}     \* the command itself is no parameter
    /\ DOMAIN template.params = UNION {Holes(template.argv[i]) : i \in DOMAIN template.argv}
    /\ \A p \in DOMAIN template.params : WellFormed(template.params[p])
    /\ OptionalsFit(template)

-----------------------------------------------------------------------------
(* validate_params *)

Fits(spec, value) ==
    \/ /\ spec.type = "enum"
       /\ value.json = "string" /\ value.text \in ToSet(spec.values)
    \/ /\ spec.type = "int"
       /\ value.json = "number" /\ value.number \in spec.min .. spec.max
    \/ /\ spec.type = "regex"
       /\ value.json = "string" /\ value.text # <<>> /\ Len(value.text) <= spec.max_length
       /\ value.text \in spec.pattern \ spec.slow
       /\ {"NUL", "NL"} \cap ToSet(value.text) = {}
       /\ Dashed(value.text) => spec.allow_leading_dash

ValidParams(template, given) ==
    /\ DOMAIN given \subseteq DOMAIN template.params
    /\ DOMAIN template.params \ Optional(template) \subseteq DOMAIN given
    /\ \A p \in DOMAIN given : Fits(template.params[p], given[p])

(* What validate_params returns: every value as a string. *)
Str(n) == IF n < 0 THEN <<"-", ToString(-n)>> ELSE <<ToString(n)>>
Values(given) == [p \in DOMAIN given |-> IF given[p].json = "number" THEN Str(given[p].number)
                                                                     ELSE given[p].text]

-----------------------------------------------------------------------------
(* build_argv: elements with a placeholder that has no value are dropped. *)
Filled(token, values) ==
    FlattenSeq([i \in DOMAIN token |-> IF token[i] \in Names THEN values[token[i]] ELSE <<token[i]>>])

Kept(template, values) ==
    {i \in DOMAIN template.argv : Holes(template.argv[i]) \subseteq DOMAIN values}

BuildArgv(template, values) ==
    LET argv == FlattenSeq([i \in DOMAIN template.argv |->
                    IF i \in Kept(template, values) THEN <<Filled(template.argv[i], values)>>
                                                    ELSE << >>])
    IN  IF template.sudo THEN <<<<"sudo">>, <<"-", "n">>>> \o argv ELSE argv

-----------------------------------------------------------------------------
(* What may be expected of the list, said without building it. *)

(* A text that a parameter may begin an element with although it begins     *)
(* with "-": a value its list names, a negative number of its range, or any *)
(* one if it says allow_leading_dash.  The library's own words name the     *)
(* last only (command_library.py:26), but only patterns are checked for it. *)
MayLead(spec, text) ==
    \/ spec.type = "enum" /\ text \in ToSet(spec.values)
    \/ spec.type = "int" /\ \E n \in spec.min .. spec.max : n < 0 /\ text = Str(n)
    \/ spec.type = "regex" /\ spec.allow_leading_dash

(* Every value given is in the list, whole and within one element.          *)
Carries(argv, text) ==
    \E i \in DOMAIN argv : \E n \in 0 .. Len(argv[i]) - Len(text) :
        SubSeq(argv[i], n + 1, n + Len(text)) = text

(* An element that begins with "-" has it from the template, or from a      *)
(* value whose parameter may begin it so.                                   *)
MeansDash(template, values, i) ==
    LET first == template.argv[i][1]
    IN  IF first \in Names THEN MayLead(template.params[first], values[first]) ELSE first = "-"

(* What is dropped is the element of one optional parameter, left out, and  *)
(* of no other; and it is not the lone value of a flag.  (A flag is left    *)
(* bare if what follows it is more than the placeholder, as "name={p}": the *)
(* check of parse_command does not look for that.)                          *)
DropsOnlyTheOmitted(template, values) ==
    \A i \in DOMAIN template.argv \ Kept(template, values) :
        /\ \E p \in Optional(template) \ DOMAIN values : Holes(template.argv[i]) = {p}
        /\ ~(StandsAlone(template.argv[i]) /\ Dashed(template.argv[i - 1]))

InPlace(template, values) ==
    LET argv == BuildArgv(template, values)
    IN  /\ \A p \in DOMAIN values : Carries(argv, values[p])
        /\ \A e \in ToSet(argv) : Dashed(e) =>
              \/ template.sudo /\ e = <<"-", "n">>
              \/ \E i \in Kept(template, values) :
                    MeansDash(template, values, i) /\ Filled(template.argv[i], values) = e
        /\ DropsOnlyTheOmitted(template, values)
=============================================================================
