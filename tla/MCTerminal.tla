----------------------------- MODULE MCTerminal -----------------------------
(* Instances of Terminal for TLC. *)
EXTENDS Terminal

CONSTANTS a, b, c, k1, k2

MCChars == {a, b, c, k1, k2}

\* A character, a text that fills a row and ends it, one that goes on, and
\* an empty line.
MCTexts == {<<a>>, <<a, b, c, NewLine>>, <<a, b, c, a, b>>, <<NewLine, a>>}

MCMessage == <<k1, k2>>
=============================================================================
