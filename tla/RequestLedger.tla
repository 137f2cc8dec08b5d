--------------------------- MODULE RequestLedger ---------------------------
(***************************************************************************)
(* What a background writer promises of the records it is given: each of   *)
(* them is written or lost, not both and not twice, written only after it  *)
(* was handed over, and one of the two in the end.  The analytics of       *)
(* requests (module Analytics) implement it.                               *)
(***************************************************************************)
CONSTANT Items

VARIABLE entry          \* what is known of the record of each item

Entries == {"open", "owed", "kept", "lost"}

LedgerTypeOK == entry \in [Items -> Entries]

Open == {i \in Items : entry[i] = "open"}
Owed == {i \in Items : entry[i] = "owed"}

Init == entry = [i \in Items |-> "open"]

(* A record is handed over, or refused at once.                            *)
Owe(i) ==
  /\ entry[i] = "open"
  /\ \E e \in {"owed", "lost"} : entry' = [entry EXCEPT ![i] = e]

(* Some of the records owed are written and others lost, in one step: the  *)
(* end of the process takes all that are left, also those yet to come.     *)
Settle(K, L) ==
  /\ K \subseteq Owed /\ L \subseteq Open \union Owed
  /\ K \intersect L = {} /\ K \union L # {}
  /\ entry' = [i \in Items |-> IF i \in K THEN "kept"
                               ELSE IF i \in L THEN "lost" ELSE entry[i]]

Settled == \E K \in SUBSET Owed, L \in SUBSET (Open \union Owed) : Settle(K, L)

Settles(i) ==
  /\ i \in Owed
  /\ \E K \in SUBSET Owed, L \in SUBSET (Open \union Owed) : i \in K \union L /\ Settle(K, L)

Next == Settled \/ \E i \in Items : Owe(i)

Spec == Init /\ [][Next]_entry

(* No record is owed for ever.                                             *)
FairSpec == Spec /\ \A i \in Items : WF_entry(Settles(i))
=============================================================================
