---------------------------- MODULE MCDmenuClick ----------------------------
(* dmenu with a history variable that tells a click on the input field from *)
(* C-u, which changes the line in the same way.                             *)
EXTENDS MCDmenu

VARIABLE clicked    \* whether the last step was a left click on the field

ClickInit == Init /\ clicked = FALSE
Click == proc = "run" /\ (\E z \in Positions : ClickInput(z)) /\ clicked' = TRUE
ClickNext == Click \/ (Next /\ clicked' = FALSE)
ClickSpec == ClickInit /\ [][ClickNext]_<<vars, clicked>>

\* "left-click on input: clear input" (dmenu.c:645): after it nothing is left
\* of the line, wherever the cursor was.
ClickClearsInput == clicked => text = <<>>
=============================================================================
