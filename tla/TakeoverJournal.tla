--------------------------- MODULE TakeoverJournal ---------------------------
(* What a takeover of the system DNS promises on every platform: before an  *)
(* item of the system's configuration is replaced, its original is on disk  *)
(* together with the note that it has to be put back, and the note stays    *)
(* until the item is back.  It holds at every moment, so a crash at any     *)
(* moment can be undone.                                                    *)
CONSTANT Items

VARIABLES replaced,    \* items that DnsBlackhole has changed
          recorded     \* items whose original the journal holds

Init == replaced = {} /\ recorded = {}

Record == recorded' \in SUBSET Items /\ replaced \subseteq recorded' /\ UNCHANGED replaced

Replace == /\ replaced' \in SUBSET recorded /\ replaced \subseteq replaced'
           /\ UNCHANGED recorded

(* Putting items back, and somebody else replacing them, may go with a     *)
(* change of the record.                                                    *)
PutBack == /\ replaced' \in SUBSET replaced
           /\ recorded' \in SUBSET Items /\ replaced' \subseteq recorded'

Next == Record \/ Replace \/ PutBack

Spec == Init /\ [][Next]_<<replaced, recorded>>
=============================================================================
