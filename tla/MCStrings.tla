------------------------------ MODULE MCStrings ------------------------------
EXTENDS Strings

\* Two different bytes: a string and its parts differ.
MCLiteral == <<1, 2>>

\* The lengths of strings, and of a text with its NUL.
MCSizes == 0 .. MaxLength + 1
=============================================================================
