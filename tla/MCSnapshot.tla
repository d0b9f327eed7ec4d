----------------------------- MODULE MCSnapshot -----------------------------
(* Snapshot and Validator for TLC, with the view of MCOrderBook.            *)
EXTENDS MCOrderBook, Snapshot, Validator

RestartInit == Init /\ book = OracleBook /\ damaged = FALSE

(* A harness that finds damage stops there.                                *)
Stopped == /\ damaged
           /\ UNCHANGED <<vars, damaged, book>>

RestartNext == \/ /\ ~ damaged
                  /\ NextOrRestart
                  /\ book' = OracleBook'
                  /\ UNCHANGED damaged
               \/ Damage /\ UNCHANGED book
               \/ Stopped

RestartSpec == RestartInit /\ [][RestartNext]_<<vars, damaged, book>>

(* SnapshotRestorable, of the books the engine builds.                     *)
EverySnapshotRestorable == ~ damaged => SnapshotRestorable

(* The state hash is the oracle's (lib.rs: "byte-identical"), wherever the *)
(* orders live: after any history of frees, reuses and restarts it says    *)
(* what the book means, and the totals it takes on trust are true.         *)
HashesAgree == ~ damaged => StateHash = View!StateHash

(* Restarts do not show: with any number of them the engine still does and *)
(* emits what the oracle, which never stops, does and emits.               *)
RestartsInvisible == View!Init /\ [][View!Next]_(View!vars)

=============================================================================
