------------------------------- MODULE NvStore -------------------------------
(***************************************************************************)
(* What the user-data record store promises, without sectors, erases and   *)
(* flush states: a live record, a durable one that a start-up loads, and a *)
(* spare one that the store may fall back to while the durable one is      *)
(* being replaced.  The spare is only ever an earlier durable record; the  *)
(* default record appears only after a deliberate erase.                   *)
(***************************************************************************)
CONSTANTS Values, Default, None

VARIABLES
    up,       \* the firmware runs
    live,     \* the record the application sees
    snap,     \* the copy of the live record a flush carries, or None
    durable,  \* the record a start-up would load
    spare,    \* the record a start-up would load if durable were lost
    erasing   \* a deliberate erase of the store is under way

vars == <<up, live, snap, durable, spare, erasing>>

Init ==
    /\ up = FALSE /\ erasing = FALSE
    /\ live \in Values /\ snap = None
    /\ durable \in Values /\ spare \in Values

Boot ==
    /\ ~up
    /\ up' = TRUE
    /\ live' = durable
    /\ UNCHANGED <<snap, durable, spare, erasing>>

Write ==
    /\ up
    /\ live' \in Values
    /\ UNCHANGED <<up, snap, durable, spare, erasing>>

Snapshot ==
    /\ up
    /\ snap' = live
    /\ UNCHANGED <<up, live, durable, spare, erasing>>

(* The first record ever stored is its own spare.                          *)
Commit ==
    /\ up /\ snap # None
    /\ durable' = snap
    /\ spare' \in {spare, snap}
    /\ UNCHANGED <<up, live, snap, erasing>>

Settle ==
    /\ up
    /\ snap' = None
    /\ UNCHANGED <<up, live, durable, spare, erasing>>

(* The durable record is given up for its replacement: the spare stands in *)
Fallback ==
    /\ up
    /\ durable' = spare
    /\ UNCHANGED <<up, live, snap, spare, erasing>>

(* The spare is replaced by the durable record.                            *)
Mirror ==
    /\ up
    /\ spare' = durable
    /\ UNCHANGED <<up, live, snap, durable, erasing>>

EraseAll ==
    /\ up /\ ~erasing
    /\ erasing' = TRUE
    /\ UNCHANGED <<up, live, snap, durable, spare>>

Forget ==
    /\ up /\ erasing
    /\ live' \in Values
    /\ durable' = Default /\ spare' = Default
    /\ erasing' = FALSE
    /\ UNCHANGED <<up, snap>>

(* Only a power cut in a deliberate erase can lose both records.           *)
PowerCut ==
    /\ up
    /\ up' = FALSE /\ snap' = None /\ erasing' = FALSE
    /\ \/ durable' \in {durable, spare} /\ spare' \in {durable, spare}
       \/ erasing /\ durable' = Default /\ spare' = Default
    /\ UNCHANGED live

Next == \/ Boot \/ Write \/ Snapshot \/ Commit \/ Settle \/ Fallback
        \/ Mirror \/ EraseAll \/ Forget \/ PowerCut

Spec == Init /\ [][Next]_vars
=============================================================================
