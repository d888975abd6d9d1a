------------------------------ MODULE MCRawGuard ------------------------------
(***************************************************************************)
(* The run of RawGuard.                                                    *)
(***************************************************************************)
EXTENDS RawGuard

\* One bracket is allowed, the second is too deep; six characters are enough
\* for a bracket, a string of two of them, and the bracket it hides.
OneLevel      == 1
SixCharacters == 6
=============================================================================
