------------------------------ MODULE BlockDev ------------------------------
(***************************************************************************)
(* What devsw's dv_strategy promises to the file systems above it: a       *)
(* request reads or writes the disk in one step, or fails.  This is the    *)
(* abstract specification of bd_strategy, with the cache left out.         *)
(***************************************************************************)
EXTENDS Integers

CONSTANTS Units, MaxBlk, MaxReq, Values, Blank

Blocks == 0 .. MaxBlk
Index == 0 .. MaxReq - 1

VARIABLES disk, state, rw, unit, blk, n, buf, err

vars == <<disk, state, rw, unit, blk, n, buf, err>>

Init ==
    /\ disk \in [Units -> [Blocks -> Values]]
    /\ state = "idle" /\ rw = "read" /\ unit = -1 /\ blk = 0 /\ n = 0
    /\ buf = [k \in Index |-> Blank] /\ err = FALSE

Request ==
    /\ state = "idle" /\ state' = "busy"
    /\ rw' \in {"read", "write"} /\ unit' \in Units
    /\ blk' \in Blocks /\ n' \in 1 .. MaxReq /\ blk' + n' - 1 \in Blocks
    /\ rw' = "read" => buf' = [k \in Index |-> Blank]
    /\ buf' \in [Index -> Values]
    /\ UNCHANGED <<disk, err>>

\* The whole request takes effect at once.
Perform ==
    /\ state = "busy"
    /\ \/ /\ rw = "read"
          /\ buf' = [k \in Index |-> IF k < n THEN disk[unit][blk + k] ELSE buf[k]]
          /\ state' = "done" /\ UNCHANGED disk
       \/ /\ rw = "write"
          /\ disk' = [disk EXCEPT ![unit] =
                        [b \in Blocks |-> IF b - blk \in 0 .. n - 1 THEN buf[b - blk] ELSE @[b]]]
          /\ state' \in {"written", "done"} /\ UNCHANGED buf
    /\ UNCHANGED <<rw, unit, blk, n, err>>

\* The transfer fails, a write perhaps half way.
Fail ==
    /\ state = "busy" /\ state' = "done" /\ err' = TRUE
    /\ \/ UNCHANGED disk
       \/ rw = "write" /\ \E m \in 1 .. n - 1 :
            disk' = [disk EXCEPT ![unit] =
                        [b \in Blocks |-> IF b - blk \in 0 .. m - 1 THEN buf[b - blk] ELSE @[b]]]
    /\ UNCHANGED <<rw, unit, blk, n, buf>>

Finish ==
    /\ state = "written" /\ state' = "done"
    /\ UNCHANGED <<disk, rw, unit, blk, n, buf, err>>

Reply ==
    /\ state = "done" /\ state' = "idle"
    /\ rw' = "read" /\ unit' = -1 /\ blk' = 0 /\ n' = 0
    /\ buf' = [k \in Index |-> Blank] /\ err' = FALSE
    /\ UNCHANGED disk

Next == Request \/ Perform \/ Fail \/ Finish \/ Reply
Spec == Init /\ [][Next]_vars
=============================================================================
