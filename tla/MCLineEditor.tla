---------------------------- MODULE MCLineEditor ----------------------------
EXTENDS LineEditor

MCLetters == {"a"}
MCInputs == {<<NL>>}
\* A line, and a text without a newline.
MCStrings == {<<"a", NL>>, <<"a">>}
MCLimits == {[length |-> 2, lines |-> 0], [length |-> 0, lines |-> 2]}
=============================================================================
