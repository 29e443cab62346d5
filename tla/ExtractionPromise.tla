-------------------------- MODULE ExtractionPromise --------------------------
(***************************************************************************)
(* What the extraction queue promises to those who read its status          *)
(* (packages/knowledge-base/src/extractionQueue.ts, the interfaces and       *)
(* constants at its top): a document is accepted at once, one extraction     *)
(* runs at a time, each that is accepted ends, and only what has ended may   *)
(* be forgotten.  Who waits, wakes and evicts is left to ExtractionQueue.    *)
(***************************************************************************)
CONSTANT Paths   \* source documents

VARIABLE status  \* what the status surface says of each document

Ended == {"succeeded", "failed", "unsupported", "already-markdown"}
Busy == {"pending", "running"}

Init == status = [p \in Paths |-> "absent"]

(* Records of what has ended may be forgotten with any step.                 *)
Forgetting(before, after) ==
    \A p \in Paths : \/ after[p] = before[p]
                     \/ before[p] \in Ended /\ after[p] = "absent"

Becomes(p, s) ==
    /\ status' \in [Paths -> Ended \cup Busy \cup {"absent"}]
    /\ Forgetting([status EXCEPT ![p] = s], status')

Accept(p) ==
    /\ status[p] \notin Busy
    /\ \E s \in {"pending", "already-markdown", "unsupported"} : Becomes(p, s)

Begin(p) ==
    /\ status[p] = "pending"
    /\ \A q \in Paths : status[q] # "running"
    /\ Becomes(p, "running")

End(p) ==
    /\ status[p] = "running"
    /\ \E s \in Ended : Becomes(p, s)

Next == \E p \in Paths : Accept(p) \/ Begin(p) \/ End(p)

Spec == Init /\ [][Next]_status

(* A document that waits is run, and one that runs ends.                     *)
Served ==
    \A p \in Paths : status[p] \in Busy ~> status[p] \notin Busy
=============================================================================
