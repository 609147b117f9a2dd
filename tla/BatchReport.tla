---------------------------- MODULE BatchReport ----------------------------
(***************************************************************************)
(* What signing a batch of apps promises its caller, however many of them  *)
(* are signed at once: every app is settled once, for good, and the report *)
(* comes when all of them are, or never because the process died.          *)
(***************************************************************************)
CONSTANT Jobs

VARIABLES
    settled,   \* "open", "signed" or "failed" for each app
    report     \* "pending", "success", "failure" or "none"

bvars == <<settled, report>>

BInit ==
    /\ settled = [j \in Jobs |-> "open"]
    /\ report = "pending"

Settle(j) ==
    /\ report = "pending"
    /\ settled[j] = "open"
    /\ \E s \in {"signed", "failed"} : settled' = [settled EXCEPT ![j] = s]
    /\ UNCHANGED report

Publish ==
    /\ report = "pending"
    /\ \A j \in Jobs : settled[j] # "open"
    /\ report' = IF \A j \in Jobs : settled[j] = "signed"
                 THEN "success" ELSE "failure"
    /\ UNCHANGED settled

(* The process dies; no report once an app has failed that way. *)
Die ==
    /\ report = "pending"
    /\ \E j \in Jobs : settled[j] = "failed"
    /\ report' = "none"
    /\ UNCHANGED settled

BNext == (\E j \in Jobs : Settle(j)) \/ Publish \/ Die

BSpec == BInit /\ [][BNext]_bvars
=============================================================================
