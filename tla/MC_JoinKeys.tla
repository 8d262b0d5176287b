---------------------------- MODULE MC_JoinKeys ----------------------------
(* Integer keys and string keys of up to two distinct values per side.     *)
EXTENDS JoinKeys

CONSTANTS null

\* keys a user can hold: no string equal to the sentinel literal
MCKeyValues == [Int |-> {0, 1}, Str |-> {"0", ""}]
\* a string key column may hold any text, the sentinel literal included
MCKeyValuesWithSentinel == [Int |-> {0, 1}, Str |-> {"0", "$NULL_SENTINEL$"}]
=============================================================================
