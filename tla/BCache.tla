------------------------------- MODULE BCache -------------------------------
(***************************************************************************)
(* The loader's disk block cache, boot/common/bcache.c, over the BIOS disk *)
(* driver that calls it, boot/i386/libi386/biosdisk.c.                     *)
(*                                                                         *)
(* One request runs at a time.  Every lookup, device transfer and insert   *)
(* is a step of its own: the clock, which each of them reads, may advance  *)
(* between them, and removable media may be changed.                       *)
(***************************************************************************)
EXTENDS Integers

CONSTANTS
    NBlks,      \* bcache_nblks: slots of the cache
    Units,      \* BIOS unit numbers
    Removable,  \* units whose medium may be changed
    MaxBlk,     \* the highest block number of a disk
    MaxReq,     \* bound: blocks in one request
    Values,     \* contents of a block
    Half,       \* 2^31, where bcache_bcount, a u_int, wraps as bc_count, an int
    TIMEOUT,    \* BCACHE_TIMEOUT
    MaxTime,    \* bound: seconds on the clock
    MaxCalls,   \* bound: requests
    MaxFaults   \* bound: transfers that fail and media that are changed

ASSUME BCacheAssumption ==
    /\ NBlks \in Nat \ {0} /\ MaxReq \in Nat \ {0} /\ MaxBlk \in Nat /\ Half \in Nat \ {0}
    /\ Units \subseteq Nat /\ Removable \subseteq Units
    /\ TIMEOUT \in Nat /\ MaxTime \in Nat
    /\ MaxCalls \in Nat /\ MaxFaults \in Nat
ASSUME ValuesAssumption == Values # {}

Slots == 0 .. NBlks - 1
Blocks == 0 .. MaxBlk
Index == 0 .. MaxReq - 1
Disks == [Units -> [Blocks -> Values]]
Counts == -Half .. Half - 1
Ctl == [blk : Blocks \union {-1}, stamp : 0 .. MaxTime, count : Counts]
Any == CHOOSE v \in Values : TRUE

VARIABLES
    pool,       \* bcache_data and bcache_ctl: "unset", "ready", or "failed" after ENOMEM
    ctl, data,  \* bcache_ctl, bcache_data
    unit,       \* bcache_unit
    bcount,     \* bcache_bcount
    disk, now,  \* the media and the clock
    pc,         \* where the request is
    rw, runit, blk, n, buf,     \* the request: bcache_strategy's arguments
    i, miss, p, j,              \* read_strategy's and write_strategy's locals; p is
                                \* the index where the pending transfer starts, or -1
    err         \* the value to be returned is not 0

\* History: what the properties talk about, never read by the actions' guards.
VARIABLES
    t0,         \* when the request started
    held,       \* <<u, b, v, t>>: block b of unit u had contents v in second t
    calls, faults,          \* requests, failed transfers and changed media so far
    disturbed   \* "swap", "bypass": what changed a disk behind the cache; "twice": a block got
                \* into two slots; "fault": a write failed after that

reqVars == <<rw, runit, blk, n>>
vars == <<pool, ctl, data, unit, bcount, disk, now, pc, reqVars, buf, i, miss, p, j, err,
          t0, held, calls, faults, disturbed>>

Empty == [blk |-> -1, stamp |-> 0, count |-> -1]
\* Mutant of Signed: the count is compared as the u_int it was.
SignedNot(c) == c
Signed(c) == IF c < Half THEN c ELSE c - 2 * Half   \* u_int to int
OnDisk(d, t) == {<<u, b, d[u][b], t>> : u \in Units, b \in Blocks}

Init ==
    /\ pool = "unset"
    /\ ctl = [s \in Slots |-> Empty] /\ data = [s \in Slots |-> Any]
    /\ unit = -1 /\ bcount = 0
    /\ disk \in Disks /\ now = 0
    /\ pc = "idle" /\ rw = "read" /\ runit = -1 /\ blk = 0 /\ n = 0
    /\ buf = [k \in Index |-> Any]
    /\ i = 0 /\ miss = {} /\ p = -1 /\ j = 0 /\ err = FALSE
    /\ t0 = 0 /\ held = OnDisk(disk, 0)
    /\ calls = 0 /\ faults = 0 /\ disturbed = {}

-----------------------------------------------------------------------------
\* bcache_init leaves the control blocks as malloc found them; on ENOMEM it frees them.
bcache_init ==
    /\ pool = "unset"
    /\ pool' \in {"ready", "failed"}
    /\ \E b \in Blocks \union {-1} :
          ctl' = [s \in Slots |-> [blk |-> b, stamp |-> 0, count |-> 0]]
    /\ UNCHANGED <<data, unit, bcount, disk, now, pc, reqVars, buf, i, miss, p, j, err,
                   t0, held, calls, faults, disturbed>>

Bypassed(k) == pool # "ready" \/ k * 2 > NBlks

\* Mutant of bcache_strategy: only the first request flushes the cache.
bcache_strategyNoFlush ==
    /\ pc = "idle" /\ pool # "unset"
    /\ calls < MaxCalls /\ calls' = calls + 1
    /\ \E u \in Units, b \in Blocks, k \in 1 .. MaxReq :
          /\ b + k - 1 \in Blocks
          /\ runit' = u /\ blk' = b /\ n' = k
          /\ rw' \in {"read", "write"}
          /\ buf' \in IF rw' = "read" THEN {[x \in Index |-> Any]}
                      ELSE {f \in [Index -> Values] : \A x \in Index : x >= k => f[x] = Any}
          /\ pc' = IF Bypassed(k) THEN "bypass"
                   ELSE IF rw' = "read" THEN "lookup" ELSE "invalidate"
          /\ unit' = u
          /\ ctl' = IF unit = -1 THEN [s \in Slots |-> [ctl[s] EXCEPT !.blk = -1, !.count = -1]]
                    ELSE ctl
    /\ i' = 0 /\ miss' = {} /\ p' = -1 /\ j' = 0 /\ err' = FALSE
    /\ t0' = now
    /\ UNCHANGED <<pool, data, bcount, disk, now, held, faults, disturbed>>

\* bd_strategy calls bcache_strategy with the BIOS unit and the absolute block.
bcache_strategy ==
    /\ pc = "idle" /\ pool # "unset"
    /\ calls < MaxCalls /\ calls' = calls + 1
    /\ \E u \in Units, b \in Blocks, k \in 1 .. MaxReq :
          /\ b + k - 1 \in Blocks
          /\ runit' = u /\ blk' = b /\ n' = k
          /\ rw' \in {"read", "write"}
          /\ buf' \in IF rw' = "read" THEN {[x \in Index |-> Any]}
                      ELSE {f \in [Index -> Values] : \A x \in Index : x >= k => f[x] = Any}
          /\ pc' = IF Bypassed(k) THEN "bypass"
                   ELSE IF rw' = "read" THEN "lookup" ELSE "invalidate"
          /\ unit' = u
          /\ ctl' = IF unit # u THEN [s \in Slots |-> [ctl[s] EXCEPT !.blk = -1, !.count = -1]]
                    ELSE ctl                    \* bcache_flush
    /\ i' = 0 /\ miss' = {} /\ p' = -1 /\ j' = 0 /\ err' = FALSE
    /\ t0' = now
    /\ UNCHANGED <<pool, data, bcount, disk, now, held, faults, disturbed>>

\* The device, bd_realstrategy: it moves blocks lo .. hi-1 of the request, or fails after
\* some of them.
Write(m) == [disk EXCEPT ![runit] =
               [b \in Blocks |-> IF b - blk \in 0 .. m - 1 THEN buf[b - blk] ELSE @[b]]]
ReadInto(lo, hi) == [k \in Index |-> IF k \in lo .. hi - 1 THEN disk[runit][blk + k] ELSE buf[k]]
Fails == faults < MaxFaults /\ faults' = faults + 1 /\ err' = TRUE /\ pc' = "done"

Bypass ==
    /\ pc = "bypass"
    /\ \/ /\ rw = "read"
          /\ \/ buf' = ReadInto(0, n) /\ pc' = "done" /\ UNCHANGED <<err, faults>>
             \/ Fails /\ UNCHANGED buf
          /\ UNCHANGED <<disk, held, disturbed>>
       \/ /\ rw = "write"
          /\ \/ disk' = Write(n) /\ pc' = "done" /\ UNCHANGED <<err, faults>>
             \/ Fails /\ \E m \in 0 .. n - 1 : disk' = Write(m)
          /\ held' = held \union OnDisk(disk', now)
          /\ disturbed' = disturbed \union {"bypass"}
          /\ UNCHANGED buf
    /\ UNCHANGED <<pool, ctl, data, unit, bcount, now, reqVars, i, miss, p, j, t0, calls>>

-----------------------------------------------------------------------------
\* Mutant of Matches: the age of the slot is not looked at.
MatchesAnyAge(b) == {s \in Slots : ctl[s].blk = b}

\* bcache_lookup: the first slot that holds the block and is not too old.
Matches(b) == {s \in Slots : ctl[s].blk = b /\ ctl[s].stamp + TIMEOUT >= now}
First(s, S) == s \in S /\ \A x \in S : s <= x

bcache_lookup ==
    /\ pc = "lookup"
    /\ \/ /\ i = n
          /\ pc' = "fill" /\ i' = 0
          /\ UNCHANGED <<buf, miss>>
       \/ /\ i < n
          /\ \/ /\ Matches(blk + i) = {}
                /\ miss' = miss \union {i} /\ UNCHANGED buf
             \/ /\ \E s \in Slots : First(s, Matches(blk + i)) /\ buf' = [buf EXCEPT ![i] = data[s]]
                /\ UNCHANGED miss
          /\ i' = i + 1 /\ UNCHANGED pc
    /\ UNCHANGED <<pool, ctl, data, unit, bcount, disk, now, reqVars, p, j, err,
                   t0, held, calls, faults, disturbed>>

\* read_strategy's second loop gathers runs of misses; a hit or the end starts the transfer.
read_strategy ==
    /\ pc = "fill"
    /\ \/ /\ i < n /\ i \in miss
          /\ p' = IF p = -1 THEN i ELSE p
          /\ i' = i + 1 /\ UNCHANGED pc
       \/ /\ i < n /\ i \notin miss /\ p = -1
          /\ i' = i + 1 /\ UNCHANGED <<p, pc>>
       \/ /\ i = n \/ i \notin miss
          /\ p # -1
          /\ pc' = "transfer" /\ UNCHANGED <<i, p>>
       \/ i = n /\ p = -1 /\ pc' = "done" /\ UNCHANGED <<i, p>>
    /\ UNCHANGED <<pool, ctl, data, unit, bcount, disk, now, reqVars, buf, miss, j, err,
                   t0, held, calls, faults, disturbed>>

Transfer ==
    /\ pc = "transfer"
    /\ \/ buf' = ReadInto(p, i) /\ j' = p /\ pc' = "insert" /\ UNCHANGED <<err, faults>>
       \/ Fails /\ UNCHANGED <<buf, j>>
    /\ UNCHANGED <<pool, ctl, data, unit, bcount, disk, now, reqVars, i, miss, p,
                   t0, held, calls, disturbed>>

\* bcache_insert scans from slot 1 for the block, else takes the slot with the lowest count.
Same(b) == {s \in Slots \ {0} : ctl[s].blk = b}
Oldest(s, S) == s \in S /\ \A x \in S : ctl[s].count < ctl[x].count
                                        \/ (ctl[s].count = ctl[x].count /\ s <= x)
Candidate(s, b) == IF Same(b) = {} THEN Oldest(s, Slots) ELSE First(s, Same(b))

\* The scan passes over slot 0: a block that expired there is in two slots from now on.
Twice(s, b) == IF s # 0 /\ ctl[0].blk = b THEN {"twice"} ELSE {}

\* Mutant of bcache_insert: every block of the run gets the contents of the first.
bcache_insertNoOffset ==
    /\ pc = "insert"
    /\ \/ /\ j < i
          /\ \E s \in Slots :
                /\ Candidate(s, blk + j)
                /\ data' = [data EXCEPT ![s] = buf[p]]
                /\ ctl' = [ctl EXCEPT ![s] = [blk |-> blk + j, stamp |-> now,
                                              count |-> Signed(bcount)]]
                /\ disturbed' = disturbed \union Twice(s, blk + j)
          /\ bcount' = (bcount + 1) % (2 * Half)
          /\ j' = j + 1 /\ UNCHANGED <<p, pc>>
       \/ /\ j = i
          /\ p' = -1
          /\ pc' = IF rw = "read" THEN "fill" ELSE "done"
          /\ UNCHANGED <<ctl, data, bcount, j, disturbed>>
    /\ UNCHANGED <<pool, unit, disk, now, reqVars, buf, i, miss, err,
                   t0, held, calls, faults>>

\* Mutant of bcache_insert: the pending transfer is not forgotten, p_blk = -1 is missing.
bcache_insertKeepsRun ==
    /\ pc = "insert"
    /\ \/ /\ j < i
          /\ \E s \in Slots :
                /\ Candidate(s, blk + j)
                /\ data' = [data EXCEPT ![s] = buf[j]]
                /\ ctl' = [ctl EXCEPT ![s] = [blk |-> blk + j, stamp |-> now,
                                              count |-> Signed(bcount)]]
                /\ disturbed' = disturbed \union Twice(s, blk + j)
          /\ bcount' = (bcount + 1) % (2 * Half)
          /\ j' = j + 1 /\ UNCHANGED <<p, pc>>
       \/ /\ j = i
          /\ pc' = IF rw = "read" THEN "fill" ELSE "done"
          /\ UNCHANGED <<p, ctl, data, bcount, j, disturbed>>
    /\ UNCHANGED <<pool, unit, disk, now, reqVars, buf, i, miss, err,
                   t0, held, calls, faults>>

bcache_insert ==
    /\ pc = "insert"
    /\ \/ /\ j < i
          /\ \E s \in Slots :
                /\ Candidate(s, blk + j)
                /\ data' = [data EXCEPT ![s] = buf[j]]
                /\ ctl' = [ctl EXCEPT ![s] = [blk |-> blk + j, stamp |-> now,
                                              count |-> Signed(bcount)]]
                /\ disturbed' = disturbed \union Twice(s, blk + j)
          /\ bcount' = (bcount + 1) % (2 * Half)
          /\ j' = j + 1 /\ UNCHANGED <<p, pc>>
       \/ /\ j = i
          /\ p' = -1
          /\ pc' = IF rw = "read" THEN "fill" ELSE "done"
          /\ UNCHANGED <<ctl, data, bcount, j, disturbed>>
    /\ UNCHANGED <<pool, unit, disk, now, reqVars, buf, i, miss, err,
                   t0, held, calls, faults>>

\* Mutant of bcache_invalidate: only slot 0 is looked at, the others are left to the insert
\* after the write.
bcache_invalidateZero ==
    /\ pc = "invalidate" /\ pc' = "write" /\ i' = n
    /\ ctl' = IF ctl[0].blk - blk \in 0 .. n - 1
              THEN [ctl EXCEPT ![0].blk = -1, ![0].count = -1] ELSE ctl
    /\ UNCHANGED <<pool, data, unit, bcount, disk, now, reqVars, buf, miss, p, j, err,
                   t0, held, calls, faults, disturbed>>

\* write_strategy: invalidate, write through, populate.
bcache_invalidate ==
    /\ pc = "invalidate"
    /\ \/ /\ i = n
          /\ pc' = "write" /\ UNCHANGED <<ctl, i>>
       \/ /\ i < n
          /\ LET S == {s \in Slots : ctl[s].blk = blk + i} IN
             \/ S = {} /\ UNCHANGED ctl
             \/ \E s \in Slots : First(s, S) /\ ctl' = [ctl EXCEPT ![s].blk = -1, ![s].count = -1]
          /\ i' = i + 1 /\ UNCHANGED pc
    /\ UNCHANGED <<pool, data, unit, bcount, disk, now, reqVars, buf, miss, p, j, err,
                   t0, held, calls, faults, disturbed>>

write_strategy ==
    /\ pc = "write"
    /\ \/ /\ disk' = Write(n)
          /\ p' = 0 /\ j' = 0 /\ pc' = "insert"
          /\ UNCHANGED <<err, faults, disturbed>>
       \/ /\ Fails
          /\ \E m \in 0 .. n - 1 : disk' = Write(m)
          /\ disturbed' = disturbed \union (IF "twice" \in disturbed THEN {"fault"} ELSE {})
          /\ UNCHANGED <<p, j>>
    /\ held' = held \union OnDisk(disk', now)
    /\ UNCHANGED <<pool, ctl, data, unit, bcount, now, reqVars, buf, i, miss, t0, calls>>

Return ==
    /\ pc = "done"
    /\ pc' = "idle"
    /\ rw' = "read" /\ runit' = -1 /\ blk' = 0 /\ n' = 0 /\ buf' = [k \in Index |-> Any]
    /\ i' = 0 /\ miss' = {} /\ p' = -1 /\ j' = 0 /\ err' = FALSE
    /\ UNCHANGED <<pool, ctl, data, unit, bcount, disk, now, t0, held, calls, faults,
                   disturbed>>

-----------------------------------------------------------------------------
\* A request takes less than a second: the clock moves at most once while it runs.
Tick ==
    /\ now < MaxTime
    /\ pc # "idle" => now = t0
    /\ now' = now + 1
    /\ held' = held \union OnDisk(disk, now + 1)
    /\ UNCHANGED <<pool, ctl, data, unit, bcount, disk, pc, reqVars, buf, i, miss, p, j, err,
                   t0, calls, faults, disturbed>>

\* Another medium is put into a drive.
Swap ==
    /\ faults < MaxFaults /\ faults' = faults + 1
    /\ \E u \in Removable, d \in [Blocks -> Values] : disk' = [disk EXCEPT ![u] = d]
    /\ held' = held \union OnDisk(disk', now)
    /\ disturbed' = disturbed \union {"swap"}
    /\ UNCHANGED <<pool, ctl, data, unit, bcount, now, pc, reqVars, buf, i, miss, p, j, err,
                   t0, calls>>

Run == \/ Bypass \/ bcache_lookup \/ read_strategy \/ Transfer \/ bcache_insert
       \/ bcache_invalidate \/ write_strategy \/ Return

Next == bcache_init \/ bcache_strategy \/ Run \/ Tick \/ Swap

Spec == Init /\ [][Next]_vars
FairSpec == Spec /\ WF_vars(Run)

-----------------------------------------------------------------------------
TypeOK ==
    /\ pool \in {"unset", "ready", "failed"}
    /\ ctl \in [Slots -> Ctl] /\ data \in [Slots -> Values]
    /\ unit \in Units \union {-1} /\ bcount \in 0 .. 2 * Half - 1
    /\ disk \in Disks /\ now \in 0 .. MaxTime
    /\ pc \in {"idle", "bypass", "lookup", "fill", "transfer", "insert", "invalidate", "write", "done"}
    /\ rw \in {"read", "write"} /\ runit \in Units \union {-1}
    /\ blk \in Blocks /\ n \in 0 .. MaxReq /\ buf \in [Index -> Values]
    /\ i \in 0 .. n /\ miss \subseteq 0 .. n - 1 /\ p \in -1 .. n /\ j \in 0 .. n
    /\ err \in BOOLEAN /\ t0 \in 0 .. MaxTime
    /\ calls \in 0 .. MaxCalls /\ faults \in 0 .. MaxFaults
    /\ disturbed \subseteq {"swap", "fault", "bypass", "twice"}

\* A block that was on the disk no earlier than `since'.
WasThere(b, v, since) == \E t \in since .. now : <<runit, b, v, t>> \in held

\* Whatever happens behind the cache (media changed, transfers failed, large writes that
\* bypass it, several slots with the same block), a successful read returns what the
\* block held at most TIMEOUT + 1 seconds before the request.
Fresh ==
    pc = "done" /\ rw = "read" /\ ~err =>
        \A k \in 0 .. n - 1 : WasThere(blk + k, buf[k], t0 - TIMEOUT - 1)

\* As long as nothing changes the disk behind the cache, every slot in use agrees with it,
\* and a successful read returns the disk's contents, writes that fail half way included.
\* Exception: once an expired block of slot 0 was inserted again it is in two slots, of which
\* bcache_invalidate clears one, and a write that fails then leaves the other.
Undisturbed == disturbed \subseteq {"twice"}
Coherent ==
    Undisturbed =>
        /\ pool = "ready" /\ unit # -1 /\ pc # "insert" =>
              \A s \in Slots : ctl[s].blk # -1 => data[s] = disk[unit][ctl[s].blk]
        /\ pc = "done" /\ rw = "read" /\ ~err =>
              \A k \in 0 .. n - 1 : buf[k] = disk[runit][blk + k]

\* A large write is a write like any other: a later read sees it.  The code does not
\* keep this, the bypass leaves the old contents in the cache.
BypassCoherent ==
    disturbed \subseteq {"bypass"} /\ pc = "done" /\ rw = "read" /\ ~err =>
        \A k \in 0 .. n - 1 : buf[k] = disk[runit][blk + k]

\* While no medium is changed, no write bypasses the cache and none fails with a block in
\* two slots, the cache cannot be told from the bare device.
Busy == {"lookup", "fill", "transfer", "invalidate", "write", "bypass"}
DevState == CASE pc \in Busy \/ (pc = "insert" /\ rw = "read") -> "busy"
              [] pc = "insert" /\ rw = "write" -> "written"
              [] OTHER -> pc
DevBuf == IF rw = "read" /\ (pc # "done" \/ err) THEN [k \in Index |-> Any] ELSE buf
Device == INSTANCE BlockDev WITH state <- DevState, unit <- runit, Blank <- Any, buf <- DevBuf
ImplementsDevice == Device!Spec

\* Every request returns.
Returns == pc # "idle" ~> pc = "idle"
=============================================================================
