------------------------- MODULE MC_DefaultOrdering -------------------------
(* Tables of two string columns and one integer column.                    *)
EXTENDS DefaultOrdering

CONSTANTS null

MCColumnTypes == <<"Str", "Str", "Int">>
MCBackslash == "\\"
\* letters only: no value holds a backslash
MCChars == {"a", "_"}
\* letters and a backslash
MCCharsWithBackslash == {"a", MCBackslash}
=============================================================================
