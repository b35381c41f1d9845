----------------------------- MODULE RootWindow -----------------------------
(***************************************************************************)
(* What an anchor promises its readers: it keeps the latest MaxItems state *)
(* roots that were reported to it, no more and no fewer, and reports only  *)
(* move forward.  Nothing in the repository is translated here; Anchor is  *)
(* shown to implement it.                                                  *)
(***************************************************************************)
EXTENDS Naturals, FiniteSetsExt

CONSTANTS Height, Root, MaxItems

VARIABLE kept   \* the reports that are kept, as pairs <<height, root>>

Latest(reports) == Max({report[1] : report \in reports})

Oldest(reports) ==
    CHOOSE report \in reports : \A other \in reports : report[1] =< other[1]

Init == \E h \in Height, r \in Root : kept = {<<h, r>>}

Report(h, r) ==
    /\ h > Latest(kept)
    /\ kept' = IF Cardinality(kept) < MaxItems
                 THEN kept \cup {<<h, r>>}
                 ELSE (kept \ {Oldest(kept)}) \cup {<<h, r>>}

Next == \E h \in Height, r \in Root : Report(h, r)

Spec == Init /\ [][Next]_kept
=============================================================================
