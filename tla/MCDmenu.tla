------------------------------- MODULE MCDmenu -------------------------------
(* dmenu on one list of five items and on an empty one. *)
EXTENDS Dmenu

\* A letter of two bytes, as UTF-8 has it.
Accented == <<"C3", "A9">>
MCByte == {"a", "b", " ", "\n", "C3", "A9"}
MCContinuation == {"A9"}
MCDelimiters == {" "}

\* The third item is longer than the input field and shares a prefix with the
\* first; spaces reach the field when Tab copies it.
MCInputs == {<<>>,
             << <<"a", "b">>, <<"b", "a">> \o Accented, <<"a", "b", " ">> \o Accented,
                Accented, <<"b">> >>}
MCTyped == {<<"a">>, Accented}
MCSelections == { <<"b", "\n", "a">> }

\* A vertical fuzzy menu; a horizontal one with a prompt, embedded and centred.
Command(n, fuzzy, fast, embed, centered, prompted) ==
    [lines |-> n, fuzzy |-> fuzzy, fast |-> fast, embed |-> embed,
     centered |-> centered, prompt |-> prompted]
MCOptions == {Command(2, TRUE, FALSE, FALSE, FALSE, FALSE),
              Command(0, FALSE, TRUE, TRUE, TRUE, TRUE)}
=============================================================================
