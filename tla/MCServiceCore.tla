--------------------------- MODULE MCServiceCore ---------------------------
(***************************************************************************)
(* ServiceCore with model values for clients, settings, lists and          *)
(* addresses.  Nothing distinguishes the members of any of these sets.     *)
(***************************************************************************)
EXTENDS ServiceCore, TLC

Symmetry == Permutations(Clients) \cup Permutations(Structures)
            \cup Permutations(Rules) \cup Permutations(Lists)
            \cup Permutations(Urls)
=============================================================================
