----------------------------- MODULE DataStore -----------------------------
(* What the user may rely on about the stored data, whichever directory    *)
(* holds them: they are created once, grow by saving, and are exchanged    *)
(* for other data only on the user's own wish.  Restarts, crashes, moves   *)
(* to another directory and failures of any of their steps are not visible *)
(* here.                                                                   *)
EXTENDS Integers

CONSTANTS Origins       \* installations that may have created data

VARIABLES settings,     \* {} before the first start, else the database in use
          lists,        \* {} or the downloaded filter lists in use
          wish          \* the user has chosen to adopt other data

storeVars == <<settings, lists, wish>>

(* One content at most. *)
IsContent(s) == s \subseteq [origin : Origins, saves : Nat] /\ \A c, e \in s : c = e

Grown(s) == {[c EXCEPT !.saves = @ + 1] : c \in s}

Init == IsContent(settings) /\ IsContent(lists) /\ wish = FALSE

Create == /\ settings = {} /\ settings' # {} /\ IsContent(settings') /\ IsContent(lists')
          /\ UNCHANGED wish

SaveSettings == settings' = Grown(settings) /\ UNCHANGED <<lists, wish>>

SaveLists == /\ lists' = Grown(lists) \/ (lists = {} /\ IsContent(lists'))
             /\ UNCHANGED <<settings, wish>>

Choose == wish' \in BOOLEAN /\ UNCHANGED <<settings, lists>>

Adopt == /\ wish /\ ~ wish'
         /\ IsContent(settings') /\ IsContent(lists')

Next == Create \/ SaveSettings \/ SaveLists \/ Choose \/ Adopt

Spec == Init /\ [][Next]_storeVars
=============================================================================
