------------------------------ MODULE MCDriver ------------------------------
EXTENDS Driver

\* A chunk that is cut in its middle, and one whose first segment is blank and
\* whose second has nothing to say.
MCTexts == {<<"letter", "stop", "letter">>, <<"newline", "newline", "markup", "newline">>}

\* A chunk of one segment.
MCSegment == {<<"letter", "stop">>}
============================================================================
