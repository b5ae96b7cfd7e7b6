---------------------------- MODULE BCacheProofs ----------------------------
(***************************************************************************)
(* Theorems about the block cache, for every cache size, every disk and    *)
(* every timeout: what a read returns is never older than the timeout      *)
(* allows, it is what the disk holds unless the disk was changed behind    *)
(* the cache, and as long as that does not happen the cache behaves as the *)
(* device below it (BlockDev).                                             *)
(***************************************************************************)
EXTENDS BCache, TLAPS

\* The request in progress is for the unit the slots belong to, and takes under a second.
Request ==
    pc # "idle" =>
        /\ runit \in Units /\ unit = runit
        /\ n \in 1 .. MaxReq /\ blk + n - 1 \in Blocks
        /\ t0 <= now /\ now <= t0 + 1

\* Before bcache_init nothing has been asked of the cache.
Start == pool = "unset" => unit = -1 /\ pc = "idle"

\* Where the loops of read_strategy and write_strategy are.
Position ==
    /\ pc \in {"lookup", "fill", "transfer"} => rw = "read"
    /\ pc \in {"invalidate", "write"} => rw = "write"
    /\ pc = "lookup" => p = -1 /\ \A k \in miss : k < i
    /\ pc \in {"fill", "transfer"} =>
          p = -1 \/ (p \in 0 .. i - 1 /\ \A k \in p .. i - 1 : k \in miss)
    /\ pc = "transfer" => p # -1
    /\ pc = "insert" => 0 <= p /\ p <= j /\ j <= i
    /\ pc = "write" \/ (pc = "insert" /\ rw = "write") => i = n
    /\ pc = "insert" /\ rw = "write" => p = 0

\* What is on a disk now is recorded.
Current == \A u \in Units, b \in Blocks : <<u, b, disk[u][b], now>> \in held

\* A slot holds what its block held at most a second before the slot's stamp.
SlotsHeld ==
    unit # -1 =>
        \A s \in Slots : ctl[s].blk # -1 =>
            \E t \in ctl[s].stamp - 1 .. now : <<unit, ctl[s].blk, data[s], t>> \in held

\* The part of a read's buffer that is final.
Filled(k) ==
    \/ pc = "lookup" /\ k < i /\ k \notin miss
    \/ pc \in {"fill", "transfer"} /\ (k \notin miss \/ (k < i /\ (p = -1 \/ k < p)))
    \/ pc = "insert" /\ (k \notin miss \/ k < i)
    \/ pc = "done"
BufHeld ==
    pc # "idle" =>
        /\ rw = "read" /\ ~err => \A k \in 0 .. n - 1 : Filled(k) =>
              WasThere(blk + k, buf[k], t0 - TIMEOUT - 1)
        /\ pc = "insert" => \A k \in p .. i - 1 : WasThere(blk + k, buf[k], t0)

Base == TypeOK /\ Start /\ Request /\ Position
FreshInv == Base /\ Current /\ SlotsHeld /\ BufHeld

-----------------------------------------------------------------------------
\* Only slot 0 can hold a block that another slot holds too.
OneEach ==
    unit # -1 =>
        \A s, t \in Slots \ {0} : ctl[s].blk = ctl[t].blk /\ ctl[s].blk # -1 => s = t

\* And it does so only after a block expired there.
OnceEach ==
    unit # -1 /\ "twice" \notin disturbed =>
        \A s \in Slots \ {0} : ctl[0].blk # -1 => ctl[s].blk # ctl[0].blk

\* Between the write and the insert of a block its old contents may survive, but never in
\* slot 0, which bcache_invalidate has searched first.
Late(s) == pc = "insert" /\ rw = "write" /\ s # 0 /\ ctl[s].blk - blk \in j .. n - 1
SlotsAgree ==
    unit # -1 =>
        \A s \in Slots : ctl[s].blk # -1 => Late(s) \/ data[s] = disk[unit][ctl[s].blk]
Cleared(s) ==
    /\ pc = "invalidate" => ctl[s].blk - blk \notin 0 .. i - 1
    /\ pc = "write" => ctl[s].blk - blk \notin 0 .. n - 1
ZeroClear == \A s \in Slots : s = 0 \/ "twice" \notin disturbed => Cleared(s)
BufAgree ==
    pc # "idle" =>
        /\ rw = "read" /\ ~err => \A k \in 0 .. n - 1 : Filled(k) => buf[k] = disk[runit][blk + k]
        /\ pc = "insert" => \A k \in p .. i - 1 : buf[k] = disk[runit][blk + k]

CoherentInv ==
    /\ Base /\ OneEach /\ OnceEach
    /\ Undisturbed => SlotsAgree /\ ZeroClear /\ BufAgree

-----------------------------------------------------------------------------
(* Types and the position of the loops. *)

LEMMA AnyValue == Any \in Values
  BY ValuesAssumption DEF Any

LEMMA SignedCount == \A c \in 0 .. 2 * Half - 1 : Signed(c) \in Counts
  BY BCacheAssumption DEF Signed, Counts

LEMMA NextCount == \A c \in 0 .. 2 * Half - 1 : (c + 1) % (2 * Half) \in 0 .. 2 * Half - 1
  BY BCacheAssumption

LEMMA MinusOne == -1 \in Counts /\ 0 \in Counts
  BY BCacheAssumption DEF Counts

LEMMA ClearedSlot ==
    ASSUME NEW f \in [Slots -> Ctl], NEW s \in Slots
    PROVE  [f EXCEPT ![s].blk = -1, ![s].count = -1] \in [Slots -> Ctl]
  <1>1. -1 \in Blocks \union {-1} /\ -1 \in Counts
      BY MinusOne
  <1> HIDE DEF Slots, Blocks, Counts
  <1>2. f[s] \in Ctl
      OBVIOUS
  <1>3. [f[s] EXCEPT !.blk = -1, !.count = -1] \in Ctl
      BY <1>1, <1>2 DEF Ctl
  <1> QED BY <1>3

LEMMA InitBase == Init => Base
  <1> SUFFICES ASSUME Init PROVE Base
      OBVIOUS
  <1> USE BCacheAssumption DEF Init
  <1>1. ctl \in [Slots -> Ctl]
      BY MinusOne DEF Empty, Ctl
  <1>2. data \in [Slots -> Values] /\ buf \in [Index -> Values]
      BY AnyValue
  <1>3. bcount \in 0 .. 2 * Half - 1 /\ now \in 0 .. MaxTime /\ t0 \in 0 .. MaxTime
      OBVIOUS
  <1>4. blk \in Blocks /\ n \in 0 .. MaxReq /\ i \in 0 .. n /\ p \in -1 .. n /\ j \in 0 .. n
      BY DEF Blocks
  <1>5. calls \in 0 .. MaxCalls /\ faults \in 0 .. MaxFaults
      OBVIOUS
  <1>6. TypeOK
      BY <1>1, <1>2, <1>3, <1>4, <1>5 DEF TypeOK
  <1> QED BY <1>6 DEF Base, Start, Request, Position

LEMMA InitStepBase == ASSUME Base, bcache_init PROVE Base'
  <1> USE DEF bcache_init, reqVars
  <1>1. ctl' \in [Slots -> Ctl]
      BY MinusOne, BCacheAssumption DEF Ctl
  <1>2. TypeOK'
      BY <1>1 DEF Base, TypeOK
  <1> QED BY <1>2 DEF Base, Start, Request, Position

LEMMA StrategyBase == ASSUME Base, bcache_strategy PROVE Base'
  <1>1. PICK u \in Units, b \in Blocks, k \in 1 .. MaxReq :
          /\ b + k - 1 \in Blocks
          /\ runit' = u /\ blk' = b /\ n' = k
          /\ rw' \in {"read", "write"}
          /\ buf' \in IF rw' = "read" THEN {[x \in Index |-> Any]}
                      ELSE {f \in [Index -> Values] : \A x \in Index : x >= k => f[x] = Any}
          /\ pc' = IF Bypassed(k) THEN "bypass"
                   ELSE IF rw' = "read" THEN "lookup" ELSE "invalidate"
          /\ unit' = u
          /\ ctl' = IF unit # u THEN [s \in Slots |-> [ctl[s] EXCEPT !.blk = -1, !.count = -1]]
                    ELSE ctl
      BY DEF bcache_strategy
  <1>2. /\ calls < MaxCalls /\ calls' = calls + 1
        /\ i' = 0 /\ miss' = {} /\ p' = -1 /\ j' = 0 /\ err' = FALSE
        /\ t0' = now
        /\ UNCHANGED <<pool, data, bcount, disk, now, held, faults, disturbed>>
      BY DEF bcache_strategy
  <1>3. buf' \in [Index -> Values]
      BY <1>1, AnyValue
  <1>4. ctl' \in [Slots -> Ctl]
    <2>1. \A s \in Slots : [ctl[s] EXCEPT !.blk = -1, !.count = -1] \in Ctl
        BY MinusOne DEF Base, TypeOK, Ctl
    <2> QED BY <1>1, <2>1 DEF Base, TypeOK
  <1>5. n' = k /\ k \in 1 .. MaxReq /\ MaxReq \in Nat
      BY <1>1, BCacheAssumption
  <1>6. n' \in 0 .. MaxReq /\ i' \in 0 .. n' /\ p' \in -1 .. n' /\ j' \in 0 .. n'
      BY <1>2, <1>5
  <1>7. calls' \in 0 .. MaxCalls /\ t0' \in 0 .. MaxTime
      BY <1>2, BCacheAssumption DEF Base, TypeOK
  <1>8. pc' \in {"bypass", "lookup", "invalidate"}
      BY <1>1
  <1>9. TypeOK'
      BY <1>1, <1>2, <1>3, <1>4, <1>6, <1>7, <1>8 DEF Base, TypeOK
  <1>10. now' \in Nat /\ t0' = now'
      BY <1>2, BCacheAssumption DEF Base, TypeOK
  <1>11. Request'
    <2>1. \A x \in Nat : x <= x /\ x <= x + 1
        OBVIOUS
    <2>2. t0' <= now' /\ now' <= t0' + 1
        BY <1>10, <2>1
    <2> QED BY <1>1, <1>5, <2>2 DEF Request
  <1>12. Position'
      BY <1>1, <1>2, <1>8 DEF Position
  <1>13. Start'
      BY <1>2 DEF bcache_strategy, Start
  <1> QED BY <1>9, <1>11, <1>12, <1>13 DEF Base

\* The device keeps the shape of the disks and of the buffer.
LEMMA WriteType ==
    ASSUME Base, pc # "idle", NEW m \in 0 .. n PROVE Write(m) \in Disks
  <1>1. \A b \in Blocks : b - blk \in 0 .. m - 1 => b - blk \in Index
      BY BCacheAssumption DEF Base, TypeOK, Request, Index, Blocks
  <1>2. runit \in Units /\ disk \in [Units -> [Blocks -> Values]] /\ buf \in [Index -> Values]
      BY DEF Base, TypeOK, Request, Disks
  <1>3. [b \in Blocks |-> IF b - blk \in 0 .. m - 1 THEN buf[b - blk] ELSE disk[runit][b]]
            \in [Blocks -> Values]
      BY <1>1, <1>2
  <1> QED BY <1>2, <1>3 DEF Write, Disks

LEMMA ReadType ==
    ASSUME Base, pc # "idle", NEW lo \in 0 .. n, NEW hi \in 0 .. n
    PROVE  ReadInto(lo, hi) \in [Index -> Values]
  <1>1. \A k \in Index : k \in lo .. hi - 1 => blk + k \in Blocks
      BY BCacheAssumption DEF Base, TypeOK, Request, Index, Blocks
  <1>2. runit \in Units /\ disk \in [Units -> [Blocks -> Values]] /\ buf \in [Index -> Values]
      BY DEF Base, TypeOK, Request, Disks
  <1> QED BY <1>1, <1>2 DEF ReadInto

LEMMA FailsType ==
    ASSUME Base, Fails PROVE faults' \in 0 .. MaxFaults /\ err' = TRUE /\ pc' = "done"
  BY BCacheAssumption DEF Base, TypeOK, Fails

LEMMA BypassBase == ASSUME Base, Bypass PROVE Base'
  <1> USE DEF Bypass, reqVars
  <1>1. n \in 0 .. n /\ 0 \in 0 .. n /\ \A m \in 0 .. n - 1 : m \in 0 .. n
      BY BCacheAssumption DEF Base, TypeOK
  <1>2. disk' \in Disks
      BY <1>1, WriteType DEF Base, TypeOK
  <1>3. buf' \in [Index -> Values]
      BY <1>1, ReadType DEF Base, TypeOK
  <1>4. faults' \in 0 .. MaxFaults /\ err' \in BOOLEAN /\ pc' = "done"
      BY FailsType DEF Base, TypeOK
  <1>5. disturbed' \subseteq {"swap", "fault", "bypass", "twice"}
      BY DEF Base, TypeOK
  <1>6. TypeOK'
      BY <1>2, <1>3, <1>4, <1>5 DEF Base, TypeOK
  <1> QED BY <1>4, <1>6 DEF Base, Start, Request, Position

LEMMA LookupBase == ASSUME Base, bcache_lookup PROVE Base'
  <1> USE DEF bcache_lookup, reqVars
  <1>1. n \in Nat /\ i \in 0 .. n /\ n <= MaxReq /\ MaxReq \in Nat
      BY BCacheAssumption DEF Base, TypeOK
  <1>2. i' \in 0 .. n /\ miss' \subseteq 0 .. n - 1 /\ pc' \in {"lookup", "fill"}
    <2>1. i' \in 0 .. n /\ pc' \in {"lookup", "fill"}
        BY <1>1
    <2>2. miss \subseteq 0 .. n - 1 /\ (i < n => i \in 0 .. n - 1)
        BY <1>1 DEF Base, TypeOK
    <2>3. miss' = miss \/ (i < n /\ miss' = miss \union {i})
        OBVIOUS
    <2> QED BY <2>1, <2>2, <2>3
  <1>3. buf' \in [Index -> Values]
      BY DEF Base, TypeOK
  <1>4. TypeOK'
      BY <1>2, <1>3 DEF Base, TypeOK
  <1>5. Position'
    <2>1. CASE i = n
        BY <2>1, <1>1 DEF Base, Position
    <2>2. CASE i < n
      <3>1. pc' = "lookup" /\ i' = i + 1 /\ p' = -1 /\ miss' \subseteq miss \union {i} /\ rw' = "read"
          BY <2>2, <1>1 DEF Base, Position
      <3>2. \A k \in miss' : k < i'
          BY <3>1, <1>1 DEF Base, Position, TypeOK
      <3> QED BY <3>1, <3>2 DEF Position
    <2> QED BY <2>1, <2>2, <1>1
  <1> QED BY <1>4, <1>5, <1>2 DEF Base, Start, Request

LEMMA FillBase == ASSUME Base, read_strategy PROVE Base'
  <1> USE DEF read_strategy, reqVars
  <1>1. n \in Nat /\ i \in 0 .. n /\ p \in -1 .. n
      BY BCacheAssumption DEF Base, TypeOK
  <1>2. i' \in 0 .. n /\ p' \in -1 .. n /\ pc' \in {"fill", "transfer", "done"}
      BY <1>1 DEF Base, TypeOK
  <1>3. TypeOK'
      BY <1>2 DEF Base, TypeOK
  <1>4. p = -1 \/ (p \in 0 .. i - 1 /\ \A k \in p .. i - 1 : k \in miss)
      BY DEF Base, Position
  <1>5. Position'
    <2>1. CASE i < n /\ i \in miss
        BY <2>1, <1>1, <1>4 DEF Base, Position
    <2>2. CASE ~(i < n /\ i \in miss)
        BY <2>2, <1>1, <1>4 DEF Base, Position
    <2> QED BY <2>1, <2>2
  <1> QED BY <1>2, <1>3, <1>5 DEF Base, Start, Request

LEMMA TransferBase == ASSUME Base, Transfer PROVE Base'
  <1> USE DEF Transfer, reqVars
  <1>1. n \in Nat /\ i \in 0 .. n /\ p \in 0 .. i - 1
      BY BCacheAssumption DEF Base, TypeOK, Position
  <1>2. CASE Fails
    <2>1. TypeOK'
        BY <1>2, FailsType DEF Base, TypeOK
    <2> QED BY <2>1, <1>2, FailsType DEF Base, Start, Request, Position
  <1>3. CASE ~Fails
    <2>1. buf' \in [Index -> Values] /\ j' \in 0 .. n /\ pc' = "insert" /\ UNCHANGED <<err, faults>>
        BY <1>1, <1>3, ReadType
    <2>2. TypeOK'
        BY <2>1 DEF Base, TypeOK
    <2> QED BY <1>1, <1>3, <2>1, <2>2 DEF Base, Start, Request, Position
  <1> QED BY <1>2, <1>3

LEMMA InsertBase == ASSUME Base, bcache_insert PROVE Base'
  <1> USE DEF bcache_insert, reqVars
  <1>1. n \in Nat /\ i \in 0 .. n /\ j \in 0 .. n /\ 0 <= p /\ p <= j /\ j <= i /\ p \in -1 .. n
      BY BCacheAssumption DEF Base, TypeOK, Position
  <1>2. CASE j = i
    <2>1. /\ p' = -1 /\ pc' \in {"fill", "done"} /\ UNCHANGED <<ctl, data, bcount, j, disturbed>>
        BY <1>1, <1>2
    <2>2. TypeOK'
        BY <1>1, <2>1 DEF Base, TypeOK
    <2> QED BY <1>1, <1>2, <2>1, <2>2 DEF Base, Start, Request, Position
  <1>3. CASE j < i
    <2>1. PICK s \in Slots :
            /\ data' = [data EXCEPT ![s] = buf[j]]
            /\ ctl' = [ctl EXCEPT ![s] = [blk |-> blk + j, stamp |-> now, count |-> Signed(bcount)]]
            /\ disturbed' = disturbed \union Twice(s, blk + j)
        BY <1>1, <1>3
    <2>2. blk + j \in Blocks /\ j \in Index /\ j' \in 0 .. n
        BY <1>1, <1>3, BCacheAssumption DEF Base, TypeOK, Request, Blocks, Index
    <2>3. data' \in [Slots -> Values]
        BY <2>1, <2>2 DEF Base, TypeOK
    <2>4. ctl' \in [Slots -> Ctl]
        BY <2>1, <2>2, SignedCount DEF Base, TypeOK, Ctl
    <2>5. bcount' \in 0 .. 2 * Half - 1
        BY <1>1, <1>3, NextCount DEF Base, TypeOK
    <2>6. disturbed' \subseteq {"swap", "fault", "bypass", "twice"}
        BY <2>1 DEF Twice, Base, TypeOK
    <2>7. pc' = pc /\ p' = p
        BY <1>1, <1>3
    <2>8. TypeOK'
        BY <1>1, <2>2, <2>3, <2>4, <2>5, <2>6, <2>7 DEF Base, TypeOK
    <2> QED BY <1>1, <1>3, <2>8 DEF Base, Start, Request, Position
  <1> QED BY <1>1, <1>2, <1>3

LEMMA InvalidateBase == ASSUME Base, bcache_invalidate PROVE Base'
  <1> USE DEF bcache_invalidate, reqVars
  <1>1. n \in Nat /\ i \in 0 .. n
      BY BCacheAssumption DEF Base, TypeOK
  <1>2. ctl' \in [Slots -> Ctl]
    <2>1. \A s \in Slots : [ctl EXCEPT ![s].blk = -1, ![s].count = -1] \in [Slots -> Ctl]
        BY ClearedSlot DEF Base, TypeOK
    <2> QED BY <2>1 DEF Base, TypeOK
  <1>3. i' \in 0 .. n /\ pc' \in {"invalidate", "write"} /\ (pc' = "write" => i' = n)
      BY <1>1
  <1>4. TypeOK'
      BY <1>2, <1>3 DEF Base, TypeOK
  <1> QED BY <1>3, <1>4 DEF Base, Start, Request, Position

LEMMA WriteBase == ASSUME Base, write_strategy PROVE Base'
  <1> USE DEF write_strategy, reqVars
  <1>1. n \in 0 .. n /\ i = n /\ rw = "write" /\ \A m \in 0 .. n - 1 : m \in 0 .. n
      BY BCacheAssumption DEF Base, TypeOK, Position
  <1>2. disk' \in Disks
      BY <1>1, WriteType
  <1>3. disturbed' \subseteq {"swap", "fault", "bypass", "twice"}
      BY DEF Base, TypeOK
  <1>4. CASE Fails
    <2>1. TypeOK'
        BY <1>2, <1>3, <1>4, FailsType DEF Base, TypeOK
    <2> QED BY <2>1, <1>4, FailsType DEF Base, Start, Request, Position
  <1>5. CASE ~Fails
    <2>1. p' = 0 /\ j' = 0 /\ pc' = "insert" /\ UNCHANGED <<err, faults>>
        BY <1>5
    <2>2. TypeOK'
        BY <1>1, <1>2, <1>3, <2>1 DEF Base, TypeOK
    <2> QED BY <1>1, <2>1, <2>2 DEF Base, Start, Request, Position
  <1> QED BY <1>4, <1>5

LEMMA ReturnBase == ASSUME Base, Return PROVE Base'
  <1> USE DEF Return
  <1>1. buf' \in [Index -> Values]
      BY AnyValue
  <1>2. blk' \in Blocks /\ n' \in 0 .. MaxReq /\ i' \in 0 .. n' /\ p' \in -1 .. n' /\ j' \in 0 .. n'
      BY BCacheAssumption DEF Blocks
  <1>3. TypeOK'
      BY <1>1, <1>2 DEF Base, TypeOK
  <1> QED BY <1>3 DEF Base, Start, Request, Position

LEMMA TickBase == ASSUME Base, Tick PROVE Base'
  <1> USE DEF Tick, reqVars
  <1>1. now' \in 0 .. MaxTime /\ (pc # "idle" => t0 <= now' /\ now' <= t0 + 1)
      BY BCacheAssumption DEF Base, TypeOK
  <1>2. TypeOK'
      BY <1>1 DEF Base, TypeOK
  <1> QED BY <1>1, <1>2 DEF Base, Start, Request, Position

LEMMA SwapBase == ASSUME Base, Swap PROVE Base'
  <1> USE DEF Swap, reqVars
  <1>1. disk' \in Disks
      BY BCacheAssumption DEF Base, TypeOK, Disks
  <1>2. faults' \in 0 .. MaxFaults
      BY BCacheAssumption DEF Base, TypeOK
  <1>3. TypeOK'
      BY <1>1, <1>2 DEF Base, TypeOK
  <1> QED BY <1>3 DEF Base, Start, Request, Position

LEMMA NextBase == Base /\ [Next]_vars => Base'
  <1> SUFFICES ASSUME Base, [Next]_vars PROVE Base'
      OBVIOUS
  <1>1. CASE UNCHANGED vars
    <2>1. TypeOK'
        BY <1>1 DEF Base, TypeOK, vars, reqVars
    <2> QED BY <1>1, <2>1 DEF Base, Start, Request, Position, vars, reqVars
  <1> QED BY <1>1, InitStepBase, StrategyBase, BypassBase, LookupBase, FillBase, TransferBase,
             InsertBase, InvalidateBase, WriteBase, ReturnBase, TickBase, SwapBase DEF Next, Run

-----------------------------------------------------------------------------
(* What the slots and the buffer hold was on the disk. *)

LEMMA Recorded ==
    ASSUME NEW d \in Disks, NEW t \in Int
    PROVE  \A u \in Units, b \in Blocks : <<u, b, d[u][b], t>> \in OnDisk(d, t)
  BY DEF OnDisk

LEMMA CurrentStep ==
    ASSUME Base, Base', Current, [Next]_vars
    PROVE  Current' /\ held \subseteq held' /\ now \in Int /\ now' \in Int /\ now <= now'
  <1>1. now \in Int /\ now' \in Int /\ now + 1 \in Int /\ disk \in Disks /\ disk' \in Disks
      BY BCacheAssumption DEF Base, TypeOK
  <1>2. CASE Tick
      BY <1>1, <1>2, Recorded DEF Tick, Current
  <1>3. CASE Swap \/ write_strategy
      BY <1>1, <1>3, Recorded DEF Swap, write_strategy, Current
  <1>4. CASE Bypass
      BY <1>1, <1>4, Recorded DEF Bypass, Current
  <1>5. CASE UNCHANGED <<disk, held, now>>
      BY <1>1, <1>5 DEF Current
  <1>6. bcache_init \/ bcache_strategy \/ bcache_lookup \/ read_strategy \/ Transfer
          \/ bcache_insert \/ bcache_invalidate \/ Return \/ UNCHANGED vars
            => UNCHANGED <<disk, held, now>>
      BY DEF bcache_init, bcache_strategy, bcache_lookup, read_strategy, Transfer, bcache_insert,
             bcache_invalidate, Return, vars
  <1> QED BY <1>2, <1>3, <1>4, <1>5, <1>6 DEF Next, Run

\* What was on the disk stays on the record.
LEMMA WasThereStep ==
    ASSUME held \subseteq held', now \in Int, now' \in Int, now <= now', runit' = runit,
           NEW b, NEW v, NEW since \in Int, WasThere(b, v, since)
    PROVE  WasThere(b, v, since)'
  <1>1. PICK t \in since .. now : <<runit, b, v, t>> \in held
      BY DEF WasThere
  <1>2. t \in since .. now' /\ <<runit', b, v, t>> \in held'
      BY <1>1
  <1> QED BY <1>2 DEF WasThere

LEMMA SlotsHeldStep ==
    ASSUME FreshInv, Base', Current', held \subseteq held', now <= now', [Next]_vars
    PROVE  SlotsHeld'
  <1>1. /\ now \in Int /\ now' \in Int /\ t0 \in Int
        /\ ctl \in [Slots -> Ctl] /\ data \in [Slots -> Values]
      BY BCacheAssumption DEF FreshInv, Base, TypeOK
  <1>2. \A s \in Slots : ctl[s].stamp \in Int
      BY <1>1, BCacheAssumption DEF Ctl
  <1>3. ASSUME unit' = unit, NEW s \in Slots, unit # -1, ctl[s].blk # -1, ctl'[s] = ctl[s],
               data'[s] = data[s]
        PROVE  \E t \in ctl'[s].stamp - 1 .. now' : <<unit', ctl'[s].blk, data'[s], t>> \in held'
    <2>1. PICK t \in ctl[s].stamp - 1 .. now : <<unit, ctl[s].blk, data[s], t>> \in held
        BY <1>3 DEF FreshInv, SlotsHeld
    <2>2. t \in ctl'[s].stamp - 1 .. now' /\ <<unit', ctl'[s].blk, data'[s], t>> \in held'
        BY <2>1, <1>1, <1>2, <1>3
    <2> QED BY <2>2
  <1>4. CASE UNCHANGED <<unit, ctl, data>>
      BY <1>3, <1>4 DEF SlotsHeld
  <1>5. CASE bcache_init
    <2>1. unit' = -1
        BY <1>5 DEF bcache_init, FreshInv, Base, Start
    <2> QED BY <2>1 DEF SlotsHeld
  <1>6. CASE bcache_strategy
    <2>1. data' = data /\ \/ unit' = unit /\ ctl' = ctl
                          \/ \A s \in Slots : ctl'[s].blk = -1
        BY <1>1, <1>6 DEF bcache_strategy, Ctl
    <2> QED BY <2>1, <1>3 DEF SlotsHeld
  <1>7. CASE bcache_invalidate
    <2>1. unit' = unit /\ data' = data
        BY <1>7 DEF bcache_invalidate
    <2>2. \A s \in Slots : ctl'[s] = ctl[s] \/ ctl'[s].blk = -1
        BY <1>1, <1>7 DEF bcache_invalidate, Ctl
    <2> QED BY <2>1, <2>2, <1>3 DEF SlotsHeld
  <1>8. CASE bcache_insert /\ j < i
    <2>1. PICK s \in Slots :
            /\ data' = [data EXCEPT ![s] = buf[j]]
            /\ ctl' = [ctl EXCEPT ![s] = [blk |-> blk + j, stamp |-> now, count |-> Signed(bcount)]]
        BY <1>8 DEF bcache_insert, FreshInv, Base, TypeOK
    <2>2. unit' = unit /\ unit = runit /\ now' = now /\ now <= t0 + 1 /\ pc = "insert"
        BY <1>8 DEF bcache_insert, FreshInv, Base, Request
    <2>3. j \in p .. i - 1
        BY <1>8, BCacheAssumption DEF bcache_insert, FreshInv, Base, TypeOK, Position
    <2>4. PICK t \in t0 .. now : <<runit, blk + j, buf[j], t>> \in held
        BY <2>2, <2>3 DEF FreshInv, BufHeld, WasThere
    <2>5. t \in now - 1 .. now'
        BY <1>1, <2>2, <2>4
    <2>6. ctl'[s].stamp = now /\ ctl'[s].blk = blk + j /\ data'[s] = buf[j]
        BY <1>1, <2>1
    <2>7. \A x \in Slots \ {s} : ctl'[x] = ctl[x] /\ data'[x] = data[x]
        BY <1>1, <2>1
    <2> QED BY <1>3, <2>2, <2>4, <2>5, <2>6, <2>7 DEF SlotsHeld
  <1>9. bcache_insert /\ ~(j < i) => UNCHANGED <<unit, ctl, data>>
      BY DEF bcache_insert
  <1>10. Bypass \/ bcache_lookup \/ read_strategy \/ Transfer \/ write_strategy \/ Return
           \/ Tick \/ Swap \/ UNCHANGED vars => UNCHANGED <<unit, ctl, data>>
      BY DEF Bypass, bcache_lookup, read_strategy, Transfer, write_strategy, Return, Tick, Swap, vars
  <1> QED BY <1>4, <1>5, <1>6, <1>7, <1>8, <1>9, <1>10 DEF Next, Run

\* The contents of the disk now are fresh enough for any request.
LEMMA NowIsFresh ==
    ASSUME FreshInv, pc # "idle", NEW k \in 0 .. n - 1
    PROVE  /\ WasThere(blk + k, disk[runit][blk + k], t0)
           /\ WasThere(blk + k, disk[runit][blk + k], t0 - TIMEOUT - 1)
  <1>1. blk + k \in Blocks /\ runit \in Units
      BY BCacheAssumption DEF FreshInv, Base, TypeOK, Request, Blocks
  <1>2. <<runit, blk + k, disk[runit][blk + k], now>> \in held
      BY <1>1 DEF FreshInv, Current
  <1>3. now \in t0 .. now /\ now \in t0 - TIMEOUT - 1 .. now
      BY BCacheAssumption DEF FreshInv, Base, TypeOK, Request
  <1> QED BY <1>2, <1>3 DEF WasThere

LEMMA BufHeldStep ==
    ASSUME FreshInv, Base', Current', held \subseteq held', now <= now', [Next]_vars
    PROVE  BufHeld'
  <1>1. /\ now \in Int /\ now' \in Int /\ t0 \in Int /\ t0 - TIMEOUT - 1 \in Int
        /\ n \in Nat /\ i \in 0 .. n /\ p \in -1 .. n /\ j \in 0 .. n /\ n <= MaxReq
        /\ miss \subseteq 0 .. n - 1 /\ buf \in [Index -> Values]
      BY BCacheAssumption DEF FreshInv, Base, TypeOK
  <1>2. \A k \in 0 .. n - 1 : k \in Index
      BY <1>1, BCacheAssumption DEF Index
  <1>3. ASSUME pc # "idle", rw = "read", ~err, NEW k \in 0 .. n - 1, Filled(k)
        PROVE  WasThere(blk + k, buf[k], t0 - TIMEOUT - 1)
      BY <1>3 DEF FreshInv, BufHeld
  <1>4. ASSUME UNCHANGED reqVars, UNCHANGED t0, NEW k \in 0 .. n - 1, buf'[k] = buf[k],
               WasThere(blk + k, buf[k], t0 - TIMEOUT - 1)
        PROVE  WasThere(blk + k, buf[k], t0 - TIMEOUT - 1)'
    <2>1. WasThere(blk + k, buf[k], t0 - TIMEOUT - 1)'
            <=> \E t \in t0 - TIMEOUT - 1 .. now' : <<runit, blk + k, buf[k], t>> \in held'
        BY <1>4 DEF WasThere, reqVars
    <2>2. PICK t \in t0 - TIMEOUT - 1 .. now : <<runit, blk + k, buf[k], t>> \in held
        BY <1>4 DEF WasThere
    <2>3. t \in t0 - TIMEOUT - 1 .. now'
        BY <1>1, <2>2
    <2> QED BY <2>1, <2>2, <2>3
  <1>5. CASE pc' = "idle"
      BY <1>5 DEF BufHeld
  <1>6. CASE bcache_strategy
    <2>1. pc' # "insert" /\ pc' # "done" /\ pc' # "fill" /\ pc' # "transfer" /\ i' = 0
        BY <1>6 DEF bcache_strategy
    <2>2. \A k \in 0 .. n' - 1 : ~Filled(k)'
        BY <2>1 DEF Filled
    <2> QED BY <2>1, <2>2 DEF BufHeld
  <1>7. CASE Bypass
    <2>1. pc = "bypass" /\ pc' = "done" /\ UNCHANGED reqVars /\ UNCHANGED t0 /\ now' = now
        BY <1>7 DEF Bypass, Fails
    <2>2. CASE rw = "read" /\ ~err'
      <3>1. buf' = ReadInto(0, n) /\ held' = held
          BY <1>7, <2>2 DEF Bypass, Fails
      <3>2. \A k \in 0 .. n - 1 : buf'[k] = disk[runit][blk + k]
          BY <3>1, <1>1, <1>2 DEF ReadInto
      <3>3. \A k \in 0 .. n - 1 : WasThere(blk + k, disk[runit][blk + k], t0 - TIMEOUT - 1)
          BY <2>1, NowIsFresh
      <3> QED BY <2>1, <3>1, <3>2, <3>3 DEF BufHeld, WasThere, reqVars
    <2>3. CASE ~(rw = "read" /\ ~err')
        BY <2>1, <2>3 DEF BufHeld, reqVars
    <2> QED BY <2>2, <2>3
  <1>8. CASE bcache_lookup
    <2>1. /\ pc = "lookup" /\ rw = "read" /\ p = -1 /\ p' = p /\ UNCHANGED reqVars /\ UNCHANGED <<t0, err>>
          /\ pc' \in {"lookup", "fill"} /\ held' = held /\ now' = now
        BY <1>8 DEF bcache_lookup, FreshInv, Base, Position
    <2>2. SUFFICES ASSUME ~err, NEW k \in 0 .. n - 1, Filled(k)'
                   PROVE  WasThere(blk + k, buf[k], t0 - TIMEOUT - 1)'
        BY <2>1 DEF BufHeld, reqVars
    <2>3. CASE k \notin miss /\ k < i
      <3>1. buf'[k] = buf[k]
          BY <1>8, <1>1, <1>2, <2>3 DEF bcache_lookup
      <3>2. Filled(k)
          BY <2>1, <2>3 DEF Filled
      <3> QED BY <1>3, <1>4, <2>1, <2>2, <3>1, <3>2
    <2>4. CASE ~(k \notin miss /\ k < i)
      <3>1. i < n /\ k = i /\ i \notin miss'
          BY <1>8, <1>1, <2>1, <2>2, <2>4 DEF bcache_lookup, Filled
      <3>2. PICK s \in Slots : s \in Matches(blk + i) /\ buf' = [buf EXCEPT ![i] = data[s]]
          BY <1>8, <3>1, <1>1 DEF bcache_lookup, First
      <3>3. ctl[s].blk = blk + k /\ ctl[s].stamp + TIMEOUT >= now /\ buf'[k] = data[s]
          BY <3>1, <3>2, <1>1, <1>2 DEF Matches
      <3>4. /\ unit = runit /\ runit \in Units /\ t0 <= now /\ blk + k \in Nat
            /\ ctl[s].stamp \in Int /\ TIMEOUT \in Nat /\ Units \subseteq Nat
          BY <2>1, BCacheAssumption DEF FreshInv, Base, Request, TypeOK, Ctl, Blocks
      <3>5. PICK t \in ctl[s].stamp - 1 .. now : <<unit, ctl[s].blk, data[s], t>> \in held
        <4>1. unit # -1 /\ ctl[s].blk # -1
            BY <3>3, <3>4
        <4> QED BY <4>1 DEF FreshInv, SlotsHeld
      <3>6. t \in t0 - TIMEOUT - 1 .. now
          BY <3>3, <3>4, <3>5, <1>1
      <3> QED BY <2>1, <3>3, <3>4, <3>5, <3>6 DEF WasThere, reqVars
    <2> QED BY <2>3, <2>4
  <1>9. CASE read_strategy
    <2>1. /\ pc = "fill" /\ rw = "read" /\ UNCHANGED reqVars /\ UNCHANGED <<t0, err, buf, miss>>
          /\ pc' \in {"fill", "transfer", "done"}
        BY <1>9 DEF read_strategy, FreshInv, Base, Position
    <2>2. p = -1 \/ (p \in 0 .. i - 1 /\ \A k \in p .. i - 1 : k \in miss)
        BY <2>1 DEF FreshInv, Base, Position
    <2>3. ASSUME NEW k \in 0 .. n - 1, Filled(k)' PROVE Filled(k)
        BY <1>9, <1>1, <2>1, <2>2, <2>3 DEF read_strategy, Filled
    <2> QED BY <1>3, <1>4, <2>1, <2>3 DEF BufHeld, reqVars
  <1>10. CASE Transfer
    <2>1. /\ pc = "transfer" /\ rw = "read" /\ UNCHANGED reqVars /\ UNCHANGED <<t0, p, i, miss, held, now>>
          /\ p \in 0 .. i - 1 /\ \A k \in p .. i - 1 : k \in miss
        BY <1>10 DEF Transfer, FreshInv, Base, Position
    <2>2. CASE Fails
        BY <2>2 DEF BufHeld, Fails
    <2>3. CASE ~Fails
      <3>1. buf' = ReadInto(p, i) /\ pc' = "insert" /\ err' = err
          BY <1>10, <2>3 DEF Transfer
      <3>2. \A k \in 0 .. n - 1 : buf'[k] = IF k \in p .. i - 1 THEN disk[runit][blk + k] ELSE buf[k]
          BY <3>1, <1>1, <1>2 DEF ReadInto
      <3>3. ASSUME NEW k \in p .. i - 1
            PROVE  /\ WasThere(blk + k, buf[k], t0)'
                   /\ WasThere(blk + k, buf[k], t0 - TIMEOUT - 1)'
        <4>1. k \in 0 .. n - 1
            BY <1>1, <2>1
        <4>2. buf'[k] = disk[runit][blk + k]
            BY <3>2, <4>1
        <4>3. /\ WasThere(blk + k, disk[runit][blk + k], t0)
              /\ WasThere(blk + k, disk[runit][blk + k], t0 - TIMEOUT - 1)
            BY <4>1, <2>1, NowIsFresh
        <4> QED BY <4>2, <4>3, <2>1 DEF WasThere, reqVars
      <3>4. ASSUME ~err, NEW k \in 0 .. n - 1, k \notin p .. i - 1, Filled(k)'
            PROVE  WasThere(blk + k, buf[k], t0 - TIMEOUT - 1)'
        <4>1. Filled(k) /\ buf'[k] = buf[k]
            BY <1>1, <2>1, <3>1, <3>2, <3>4 DEF Filled
        <4> QED BY <4>1, <1>3, <1>4, <2>1, <3>4
      <3> QED BY <2>1, <3>1, <3>3, <3>4 DEF BufHeld, reqVars
    <2> QED BY <2>2, <2>3
  <1>11. CASE bcache_insert
    <2>1. /\ pc = "insert" /\ UNCHANGED reqVars /\ UNCHANGED <<t0, i, miss, buf, held, now, err>>
          /\ pc' = "insert" => p' = p
        BY <1>11 DEF bcache_insert, FreshInv, Base, TypeOK
    <2>2. ASSUME NEW k \in 0 .. n - 1, Filled(k)', rw = "read" PROVE Filled(k)
        BY <1>11, <1>1, <2>2 DEF bcache_insert, Filled
    <2>3. rw' = "read" /\ ~err' => \A k \in 0 .. n - 1 : Filled(k)' =>
            WasThere(blk + k, buf[k], t0 - TIMEOUT - 1)'
        BY <1>3, <1>4, <2>1, <2>2 DEF reqVars
    <2>4. pc' = "insert" => \A k \in p' .. i' - 1 : WasThere(blk + k, buf[k], t0)'
        BY <2>1 DEF FreshInv, BufHeld, WasThere, reqVars
    <2> QED BY <2>1, <2>3, <2>4 DEF BufHeld, reqVars
  <1>12. CASE bcache_invalidate
    <2>1. rw' = "write" /\ pc' # "insert"
        BY <1>12 DEF bcache_invalidate, FreshInv, Base, Position, reqVars
    <2> QED BY <2>1 DEF BufHeld
  <1>13. CASE write_strategy
    <2>1. /\ pc = "write" /\ rw = "write" /\ rw' = "write" /\ i' = n /\ UNCHANGED reqVars
          /\ UNCHANGED <<t0, now, buf>>
        BY <1>13 DEF write_strategy, FreshInv, Base, Position, reqVars
    <2>2. CASE pc' = "insert"
      <3>1. p' = 0 /\ disk' = Write(n)
          BY <1>13, <2>2 DEF write_strategy, Fails
      <3>2. ASSUME NEW k \in 0 .. n - 1 PROVE WasThere(blk + k, buf[k], t0)'
        <4>1. blk + k \in Blocks /\ blk \in Int /\ runit \in Units /\ disk \in Disks
            BY <2>1, BCacheAssumption DEF FreshInv, Base, TypeOK, Request, Blocks
        <4>2. (blk + k) - blk = k
            BY <4>1
        <4>3. disk'[runit][blk + k] = buf[k]
            BY <3>1, <4>1, <4>2 DEF Write, Disks
        <4>4. <<runit, blk + k, buf[k], now>> \in held'
            BY <4>1, <4>3, <2>1 DEF Current
        <4>5. now \in t0 .. now
            BY <2>1, <1>1 DEF FreshInv, Base, Request
        <4> QED BY <4>4, <4>5, <2>1 DEF WasThere, reqVars
      <3> QED BY <2>1, <3>1, <3>2 DEF BufHeld
    <2>3. CASE pc' # "insert"
        BY <2>1, <2>3 DEF BufHeld
    <2> QED BY <2>2, <2>3
  <1>14. CASE Tick \/ Swap \/ UNCHANGED vars
    <2>1. UNCHANGED reqVars /\ UNCHANGED <<pc, t0, buf, i, miss, p, err>>
        BY <1>14 DEF Tick, Swap, vars
    <2>2. \A k \in 0 .. n - 1 : Filled(k)' <=> Filled(k)
        BY <2>1 DEF Filled
    <2>3. pc' = "insert" => \A k \in p' .. i' - 1 : WasThere(blk + k, buf[k], t0)'
      <3> SUFFICES ASSUME pc = "insert", NEW k \in p .. i - 1 PROVE WasThere(blk + k, buf[k], t0)'
          BY <2>1
      <3>1. PICK t \in t0 .. now : <<runit, blk + k, buf[k], t>> \in held
          BY DEF FreshInv, BufHeld, WasThere
      <3>2. t \in t0 .. now'
          BY <1>1, <3>1
      <3> QED BY <3>1, <3>2, <2>1 DEF WasThere, reqVars
    <2> QED BY <1>3, <1>4, <2>1, <2>2, <2>3 DEF BufHeld, reqVars
  <1>15. bcache_init \/ Return => pc' = "idle"
      BY DEF bcache_init, Return, FreshInv, Base, Start
  <1> QED BY <1>5, <1>6, <1>7, <1>8, <1>9, <1>10, <1>11, <1>12, <1>13, <1>14, <1>15 DEF Next, Run

LEMMA InitFresh == Init => FreshInv
  <1> SUFFICES ASSUME Init PROVE FreshInv
      OBVIOUS
  <1>1. Base
      BY InitBase
  <1>2. Current
    <2>1. disk \in Disks /\ held = OnDisk(disk, 0) /\ now = 0
        BY DEF Init
    <2> QED BY <2>1, Recorded DEF Current
  <1> QED BY <1>1, <1>2 DEF Init, FreshInv, SlotsHeld, BufHeld

\* A successful read never returns a block as it was more than TIMEOUT + 1 seconds before
\* the request, whatever bypasses the cache and however often media are changed.
THEOREM NeverTooOld == Spec => []Fresh
  <1>1. Init => FreshInv
      BY InitFresh
  <1>2. FreshInv /\ [Next]_vars => FreshInv'
    <2> SUFFICES ASSUME FreshInv, [Next]_vars PROVE FreshInv'
        OBVIOUS
    <2>1. Base'
        BY NextBase DEF FreshInv
    <2>2. Current' /\ held \subseteq held' /\ now <= now'
        BY <2>1, CurrentStep DEF FreshInv
    <2> QED BY <2>1, <2>2, SlotsHeldStep, BufHeldStep DEF FreshInv
  <1>3. FreshInv => Fresh
      BY DEF FreshInv, BufHeld, Filled, Fresh
  <1> QED BY <1>1, <1>2, <1>3, PTL DEF Spec

-----------------------------------------------------------------------------
(* The slots and the buffer agree with the disk. *)

LEMMA OneEachStep == ASSUME CoherentInv, [Next]_vars PROVE OneEach' /\ OnceEach'
  <1>1. ctl \in [Slots -> Ctl]
      BY DEF CoherentInv, Base, TypeOK
  <1>2. CASE UNCHANGED <<unit, ctl>> /\ ("twice" \in disturbed => "twice" \in disturbed')
      BY <1>2 DEF CoherentInv, OneEach, OnceEach
  <1>3. CASE bcache_init
    <2>1. unit' = -1
        BY <1>3 DEF bcache_init, CoherentInv, Base, Start
    <2> QED BY <2>1 DEF OneEach, OnceEach
  <1>4. CASE bcache_strategy
    <2>1. \/ unit' = unit /\ ctl' = ctl
          \/ \A s \in Slots : ctl'[s].blk = -1
        BY <1>1, <1>4 DEF bcache_strategy, Ctl
    <2>2. 0 \in Slots
        BY BCacheAssumption DEF Slots
    <2>3. disturbed' = disturbed
        BY <1>4 DEF bcache_strategy
    <2> QED BY <2>1, <2>2, <2>3 DEF CoherentInv, OneEach, OnceEach
  <1>5. CASE bcache_invalidate
    <2>1. unit' = unit /\ \A s \in Slots : ctl'[s].blk = ctl[s].blk \/ ctl'[s].blk = -1
        BY <1>1, <1>5 DEF bcache_invalidate, Ctl
    <2>2. disturbed' = disturbed /\ 0 \in Slots
        BY <1>5, BCacheAssumption DEF bcache_invalidate, Slots
    <2> QED BY <2>1, <2>2 DEF CoherentInv, OneEach, OnceEach
  <1>6. CASE bcache_insert /\ j < i
    <2>1. PICK s \in Slots :
            /\ Candidate(s, blk + j)
            /\ ctl' = [ctl EXCEPT ![s] = [blk |-> blk + j, stamp |-> now, count |-> Signed(bcount)]]
            /\ disturbed' = disturbed \union Twice(s, blk + j)
        BY <1>6 DEF bcache_insert, CoherentInv, Base, TypeOK
    <2>2. unit' = unit /\ unit # -1
        BY <1>6, BCacheAssumption DEF bcache_insert, CoherentInv, Base, Request
    <2>3. ctl'[s].blk = blk + j /\ \A x \in Slots \ {s} : ctl'[x] = ctl[x]
        BY <1>1, <2>1
    <2>4. ASSUME NEW x \in Slots \ {0}, x # s PROVE ctl[x].blk # blk + j
      <3>1. CASE Same(blk + j) = {}
          BY <3>1, <2>4 DEF Same
      <3>2. CASE Same(blk + j) # {}
        <4>1. s \in Slots \ {0} /\ ctl[s].blk = blk + j
            BY <2>1, <3>2 DEF Candidate, First, Same
        <4>2. blk + j # -1
            BY BCacheAssumption DEF CoherentInv, Base, TypeOK, Blocks
        <4> QED BY <4>1, <4>2, <2>2, <2>4 DEF CoherentInv, OneEach
      <3> QED BY <3>1, <3>2
    <2>5. OneEach'
        BY <2>2, <2>3, <2>4 DEF CoherentInv, OneEach
    <2>6. ASSUME "twice" \notin disturbed', NEW x \in Slots \ {0}, ctl'[0].blk # -1
          PROVE  ctl'[x].blk # ctl'[0].blk
      <3>1. 0 \in Slots /\ "twice" \notin disturbed /\ "twice" \notin Twice(s, blk + j)
          BY <2>1, <2>6, BCacheAssumption DEF Slots
      <3>2. s = 0 \/ ctl[0].blk # blk + j
          BY <3>1 DEF Twice
      <3>3. CASE s = 0
          BY <2>3, <2>4, <2>6, <3>3
      <3>4. CASE s # 0 /\ x = s
          BY <2>3, <3>1, <3>2, <3>4
      <3>5. CASE s # 0 /\ x # s
          BY <2>2, <2>3, <2>6, <3>1, <3>5 DEF CoherentInv, OnceEach
      <3> QED BY <3>3, <3>4, <3>5
    <2> QED BY <2>5, <2>6 DEF OnceEach
  <1>7. bcache_insert /\ ~(j < i) => UNCHANGED <<unit, ctl, disturbed>>
      BY DEF bcache_insert
  <1>8. Bypass \/ bcache_lookup \/ read_strategy \/ Transfer \/ write_strategy \/ Return
          \/ Tick \/ Swap \/ UNCHANGED vars
          => UNCHANGED <<unit, ctl>> /\ ("twice" \in disturbed => "twice" \in disturbed')
      BY DEF Bypass, bcache_lookup, read_strategy, Transfer, write_strategy, Return, Tick, Swap, vars
  <1> QED BY <1>2, <1>3, <1>4, <1>5, <1>6, <1>7, <1>8 DEF Next, Run

\* A write that succeeds, or fails while no block is in two slots.
Written == disk' = Write(n) /\ pc' = "insert"
Broken == Fails /\ "twice" \notin disturbed /\ \E m \in 0 .. n - 1 : disk' = Write(m)

\* Nothing undoes a disturbance, and only write_strategy changes the disk without one.
LEMMA DiskStep ==
    ASSUME Base, [Next]_vars, Undisturbed'
    PROVE  /\ Undisturbed /\ ~Swap
           /\ disk' = disk \/ write_strategy
           /\ write_strategy => Written \/ Broken
           /\ "twice" \in disturbed => "twice" \in disturbed'
  <1>1. ~Swap
      BY DEF Swap, Undisturbed
  <1>2. CASE write_strategy
    <2>1. disturbed \subseteq disturbed'
        BY <1>2 DEF write_strategy
    <2>2. "fault" \notin disturbed'
        BY DEF Undisturbed
    <2>3. Written \/ Broken
        BY <1>2, <2>2 DEF write_strategy, Written, Broken
    <2> QED BY <1>1, <1>2, <2>1, <2>3 DEF Undisturbed
  <1>3. CASE Bypass
    <2>1. pc = "bypass" /\ disk' = disk /\ disturbed' = disturbed
        BY <1>3 DEF Bypass, Undisturbed
    <2> QED BY <1>1, <2>1 DEF write_strategy, Undisturbed
  <1>4. CASE ~write_strategy /\ ~Bypass
    <2>1. disk' = disk /\ disturbed \subseteq disturbed'
        BY <1>1, <1>4 DEF Next, Run, bcache_init, bcache_strategy, bcache_lookup, read_strategy,
             Transfer, bcache_insert, bcache_invalidate, Return, Tick, vars
    <2> QED BY <1>1, <1>4, <2>1 DEF Undisturbed
  <1> QED BY <1>2, <1>3, <1>4

LEMMA ZeroClearStep ==
    ASSUME CoherentInv, Undisturbed, [Next]_vars PROVE ZeroClear'
  <1>1. ctl \in [Slots -> Ctl] /\ 0 \in Slots /\ blk \in Nat /\ i \in Nat /\ n \in Nat /\ i <= n
      BY BCacheAssumption DEF CoherentInv, Base, TypeOK, Slots, Blocks
  <1>2. \A s \in Slots : ctl[s].blk \in Int
      BY <1>1, BCacheAssumption DEF Ctl, Blocks
  <1>3. CASE pc' \notin {"invalidate", "write"}
      BY <1>3 DEF ZeroClear, Cleared
  <1>4. CASE bcache_strategy
    <2>1. i' = 0 /\ pc' # "write"
        BY <1>4 DEF bcache_strategy
    <2>2. 0 .. 0 - 1 = {}
        OBVIOUS
    <2> QED BY <2>1, <2>2 DEF ZeroClear, Cleared
  <1>5. CASE bcache_invalidate
    <2> SUFFICES ASSUME NEW x \in Slots, x = 0 \/ "twice" \notin disturbed' PROVE Cleared(x)'
        BY DEF ZeroClear
    <2>1. /\ pc = "invalidate" /\ blk' = blk /\ n' = n /\ disturbed' = disturbed
          /\ ctl[x].blk - blk \notin 0 .. i - 1
      <3>1. pc = "invalidate" /\ blk' = blk /\ n' = n /\ disturbed' = disturbed
          BY <1>5 DEF bcache_invalidate, reqVars
      <3> QED BY <3>1 DEF CoherentInv, ZeroClear, Cleared
    <2>2. CASE i = n
        BY <1>1, <1>5, <2>1, <2>2 DEF bcache_invalidate, Cleared
    <2>3. CASE i # n
      <3>1. i' = i + 1 /\ pc' = "invalidate" /\ i < n
          BY <1>1, <1>5, <2>3 DEF bcache_invalidate
      <3>2. ctl'[x].blk = -1 \/ (ctl'[x].blk = ctl[x].blk /\ ctl[x].blk # blk + i)
        <4> DEFINE S == {s \in Slots : ctl[s].blk = blk + i}
        <4>1. \/ S = {} /\ ctl' = ctl
              \/ \E s \in Slots : First(s, S) /\ ctl' = [ctl EXCEPT ![s].blk = -1, ![s].count = -1]
            BY <1>1, <1>5, <2>3 DEF bcache_invalidate
        <4>2. CASE S = {}
            BY <1>1, <4>1, <4>2 DEF First
        <4>3. CASE S # {}
          <5>1. PICK s \in Slots : First(s, S) /\ ctl' = [ctl EXCEPT ![s].blk = -1, ![s].count = -1]
              BY <4>1, <4>3
          <5>2. CASE s = x
              BY <1>1, <5>1, <5>2 DEF Ctl
          <5>3. CASE s # x
            <6>1. ctl'[x] = ctl[x] /\ ctl[s].blk = blk + i /\ blk + i # -1
                BY <1>1, <5>1, <5>3 DEF First
            <6>2. ctl[x].blk # blk + i
              <7>1. CASE x = 0
                  BY <5>1, <5>3, <7>1 DEF First, Slots
              <7>2. CASE x # 0
                <8>1. unit # -1 /\ "twice" \notin disturbed
                    BY <2>1, <7>2, BCacheAssumption DEF CoherentInv, Base, Request
                <8> QED BY <5>3, <6>1, <7>2, <8>1 DEF CoherentInv, OneEach, OnceEach
              <7> QED BY <7>1, <7>2
            <6> QED BY <6>1, <6>2
          <5> QED BY <5>2, <5>3
        <4> QED BY <4>2, <4>3
      <3>3. ctl'[x].blk - blk \notin 0 .. i
          BY <1>1, <1>2, <2>1, <3>2
      <3> QED BY <1>1, <2>1, <3>1, <3>3 DEF Cleared
    <2> QED BY <2>2, <2>3
  <1>6. CASE UNCHANGED <<pc, ctl, blk, n, i>> /\ ("twice" \in disturbed => "twice" \in disturbed')
      BY <1>6 DEF CoherentInv, ZeroClear, Cleared
  <1>7. bcache_init \/ Bypass \/ bcache_lookup \/ read_strategy \/ Transfer \/ bcache_insert
          \/ write_strategy \/ Return => pc' \notin {"invalidate", "write"}
      BY DEF bcache_init, Bypass, bcache_lookup, read_strategy, Transfer, bcache_insert,
             write_strategy, Return, Fails, CoherentInv, Base, Start
  <1>8. Tick \/ Swap \/ UNCHANGED vars
          => UNCHANGED <<pc, ctl, blk, n, i>> /\ ("twice" \in disturbed => "twice" \in disturbed')
      BY DEF Tick, Swap, vars, reqVars
  <1> QED BY <1>3, <1>4, <1>5, <1>6, <1>7, <1>8 DEF Next, Run

LEMMA SlotsAgreeStep ==
    ASSUME CoherentInv, [Next]_vars, Undisturbed' PROVE SlotsAgree'
  <1>1. /\ ctl \in [Slots -> Ctl] /\ data \in [Slots -> Values] /\ disk \in Disks
        /\ blk \in Nat /\ i \in Nat /\ j \in Nat /\ n \in Nat /\ i <= n
      BY BCacheAssumption DEF CoherentInv, Base, TypeOK, Blocks
  <1>2. \A s \in Slots : ctl[s].blk \in Int /\ (ctl[s].blk # -1 => ctl[s].blk \in Blocks)
      BY <1>1, BCacheAssumption DEF Ctl, Blocks
  <1>3. /\ Undisturbed /\ ~Swap
        /\ disk' = disk \/ write_strategy
        /\ write_strategy => Written \/ Broken
      BY DiskStep DEF CoherentInv
  <1>4. SlotsAgree /\ ZeroClear /\ BufAgree
      BY <1>3 DEF CoherentInv
  <1>5. ASSUME unit' = unit, data' = data, disk' = disk, \A s \in Slots : ~Late(s),
               \A s \in Slots : ctl'[s] = ctl[s] \/ ctl'[s].blk = -1
        PROVE  SlotsAgree'
      BY <1>4, <1>5 DEF SlotsAgree
  <1>6. CASE bcache_init
    <2>1. unit' = -1
        BY <1>6 DEF bcache_init, CoherentInv, Base, Start
    <2> QED BY <2>1 DEF SlotsAgree
  <1>7. CASE bcache_strategy
    <2>1. /\ data' = data /\ disk' = disk /\ \A s \in Slots : ~Late(s)
          /\ \/ unit' = unit /\ ctl' = ctl
             \/ \A s \in Slots : ctl'[s].blk = -1
      <3>1. data' = data /\ disk' = disk /\ pc = "idle"
          BY <1>7 DEF bcache_strategy
      <3>2. \/ unit' = unit /\ ctl' = ctl
            \/ \A s \in Slots : ctl'[s].blk = -1
        <4>1. PICK u \in Units : /\ unit' = u
                                /\ ctl' = IF unit # u
                                          THEN [s \in Slots |-> [ctl[s] EXCEPT !.blk = -1, !.count = -1]]
                                          ELSE ctl
            BY <1>7 DEF bcache_strategy
        <4>2. CASE unit = u
            BY <4>1, <4>2
        <4>3. CASE unit # u
            BY <1>1, <4>1, <4>3 DEF Ctl
        <4> QED BY <4>2, <4>3
      <3> QED BY <3>1, <3>2 DEF Late
    <2> QED BY <2>1, <1>5 DEF SlotsAgree
  <1>8. CASE bcache_invalidate
    <2>1. unit' = unit /\ data' = data /\ disk' = disk /\ \A s \in Slots : ~Late(s)
        BY <1>8 DEF bcache_invalidate, Late
    <2>2. \A s \in Slots : ctl'[s] = ctl[s] \/ ctl'[s].blk = -1
        BY <1>1, <1>8 DEF bcache_invalidate, Ctl
    <2> QED BY <2>1, <2>2, <1>5
  <1>9. CASE bcache_insert /\ j < i
    <2>1. PICK s \in Slots :
            /\ Candidate(s, blk + j)
            /\ data' = [data EXCEPT ![s] = buf[j]]
            /\ ctl' = [ctl EXCEPT ![s] = [blk |-> blk + j, stamp |-> now, count |-> Signed(bcount)]]
        BY <1>9, <1>1 DEF bcache_insert
    <2>2. /\ unit' = unit /\ unit = runit /\ unit # -1 /\ pc = "insert" /\ pc' = "insert"
          /\ disk' = disk /\ j' = j + 1 /\ rw' = rw /\ blk' = blk /\ n' = n /\ p <= j /\ 0 <= p
      <3>1. unit' = unit /\ pc = "insert" /\ disk' = disk /\ UNCHANGED reqVars
          BY <1>9 DEF bcache_insert
      <3>2. pc' = "insert" /\ j' = j + 1
          BY <1>9, <1>1 DEF bcache_insert
      <3>3. unit = runit /\ runit \in Units /\ unit # -1
          BY <3>1, BCacheAssumption DEF CoherentInv, Base, Request
      <3> QED BY <3>1, <3>2, <3>3 DEF reqVars, CoherentInv, Base, Position
    <2>3. buf[j] = disk[unit][blk + j]
      <3>1. j \in p .. i - 1
          BY <1>9, <1>1, <2>2 DEF CoherentInv, Base, TypeOK
      <3> QED BY <1>4, <2>2, <3>1 DEF BufAgree
    <2>4. /\ ctl'[s].blk = blk + j /\ data'[s] = buf[j]
          /\ \A x \in Slots \ {s} : ctl'[x] = ctl[x] /\ data'[x] = data[x]
        BY <1>1, <2>1
    <2>5. ASSUME NEW x \in Slots \ {s}, ctl[x].blk # -1, Late(x) PROVE Late(x)'
      <3>1. x # 0 /\ ctl[x].blk - blk \in j .. n - 1 /\ rw = "write"
          BY <2>5 DEF Late
      <3>2. ctl[x].blk # blk + j
        <4>1. ASSUME ctl[x].blk = blk + j PROVE FALSE
          <5>1. x \in Same(blk + j)
              BY <3>1, <4>1 DEF Same
          <5>2. s \in Slots \ {0} /\ ctl[s].blk = blk + j
              BY <2>1, <5>1 DEF Candidate, First, Same
          <5> QED BY <3>1, <4>1, <5>2, <2>2, <2>5 DEF CoherentInv, OneEach
        <4> QED BY <4>1
      <3>3. ctl[x].blk - blk \in j + 1 .. n - 1
          BY <3>1, <3>2, <1>1, <1>2
      <3> QED BY <3>1, <3>3, <2>2, <2>4 DEF Late
    <2>6. ASSUME NEW x \in Slots, ctl'[x].blk # -1
          PROVE  Late(x)' \/ data'[x] = disk[unit][ctl'[x].blk]
        BY <2>2, <2>3, <2>4, <2>5, <2>6, <1>4 DEF SlotsAgree
    <2> QED BY <2>2, <2>6 DEF SlotsAgree
  <1>10. CASE bcache_insert /\ ~(j < i)
    <2>1. /\ UNCHANGED <<unit, ctl, data, disk>> /\ j = i
          /\ rw = "write" => i = n
        BY <1>10 DEF bcache_insert, CoherentInv, Base, Position
    <2>2. \A s \in Slots : ~Late(s)
        BY <2>1, <1>1, <1>2 DEF Late
    <2> QED BY <2>1, <2>2, <1>5
  <1>11. CASE write_strategy /\ Written
    <2>1. /\ pc = "write" /\ UNCHANGED <<unit, ctl, data>> /\ UNCHANGED reqVars
          /\ unit = runit /\ runit \in Units /\ rw = "write" /\ j' = 0
          /\ disk' = Write(n) /\ pc' = "insert"
        BY <1>11 DEF write_strategy, Written, Fails, CoherentInv, Base, Request, Position
    <2>2. ASSUME NEW s \in Slots, ctl[s].blk # -1
          PROVE  Late(s)' \/ data[s] = disk'[unit][ctl[s].blk]
      <3>1. CASE ctl[s].blk - blk \in 0 .. n - 1
        <4>1. s # 0
            BY <2>1, <3>1, <1>4 DEF ZeroClear, Cleared
        <4> QED BY <4>1, <3>1, <2>1 DEF Late, reqVars
      <3>2. CASE ctl[s].blk - blk \notin 0 .. n - 1
        <4>1. data[s] = disk[unit][ctl[s].blk]
          <5>1. unit # -1 /\ ~Late(s)
              BY <2>1, BCacheAssumption DEF Late
          <5> QED BY <5>1, <2>2, <1>4 DEF SlotsAgree
        <4>2. disk'[unit][ctl[s].blk] = disk[unit][ctl[s].blk]
          <5>1. ctl[s].blk \in Blocks /\ disk \in [Units -> [Blocks -> Values]]
              BY <2>2, <1>1, <1>2 DEF Disks
          <5>2. disk'[runit] = [b \in Blocks |-> IF b - blk \in 0 .. n - 1 THEN buf[b - blk]
                                                 ELSE disk[runit][b]]
              BY <5>1, <2>1 DEF Write
          <5> QED BY <5>1, <5>2, <2>1, <3>2
        <4> QED BY <4>1, <4>2
      <3> QED BY <3>1, <3>2
    <2> QED BY <2>1, <2>2 DEF SlotsAgree
  <1>14. CASE write_strategy /\ Broken
    <2>1. /\ pc = "write" /\ pc' = "done" /\ UNCHANGED <<unit, ctl, data>> /\ UNCHANGED reqVars
          /\ unit = runit /\ runit \in Units /\ "twice" \notin disturbed
        BY <1>14 DEF write_strategy, Broken, Fails, CoherentInv, Base, Request
    <2>2. PICK m \in 0 .. n - 1 : disk' = Write(m)
        BY <1>14 DEF Broken
    <2>3. ASSUME NEW s \in Slots, ctl[s].blk # -1 PROVE data[s] = disk'[unit][ctl[s].blk]
      <3>1. ctl[s].blk - blk \notin 0 .. n - 1
          BY <2>1, <1>4 DEF ZeroClear, Cleared
      <3>2. ctl[s].blk - blk \notin 0 .. m - 1
          BY <3>1, <1>1, <1>2
      <3>3. data[s] = disk[unit][ctl[s].blk]
        <4>1. unit # -1 /\ ~Late(s)
            BY <2>1, BCacheAssumption DEF Late
        <4> QED BY <4>1, <2>3, <1>4 DEF SlotsAgree
      <3>4. ctl[s].blk \in Blocks /\ disk \in [Units -> [Blocks -> Values]]
          BY <2>3, <1>1, <1>2 DEF Disks
      <3>5. disk'[runit] = [b \in Blocks |-> IF b - blk \in 0 .. m - 1 THEN buf[b - blk]
                                             ELSE disk[runit][b]]
          BY <3>4, <2>1, <2>2 DEF Write
      <3> QED BY <3>2, <3>3, <3>4, <3>5, <2>1
    <2> QED BY <2>1, <2>3 DEF SlotsAgree
  <1>12. CASE Bypass \/ bcache_lookup \/ read_strategy \/ Transfer \/ Return
    <2>1. UNCHANGED <<unit, ctl, data>> /\ pc # "insert" /\ ~write_strategy
        BY <1>12 DEF Bypass, bcache_lookup, read_strategy, Transfer, Return, write_strategy
    <2> QED BY <2>1, <1>3, <1>5 DEF Late
  <1>13. CASE Tick \/ UNCHANGED vars
    <2>1. UNCHANGED <<unit, ctl, data, disk, pc, rw, j, n, blk>>
        BY <1>13 DEF Tick, vars, reqVars
    <2> QED BY <2>1, <1>4 DEF SlotsAgree, Late
  <1> QED BY <1>3, <1>6, <1>7, <1>8, <1>9, <1>10, <1>11, <1>12, <1>13, <1>14 DEF Next, Run

LEMMA BufAgreeStep ==
    ASSUME CoherentInv, [Next]_vars, Undisturbed' PROVE BufAgree'
  <1>1. /\ n \in Nat /\ i \in 0 .. n /\ p \in -1 .. n /\ j \in 0 .. n /\ n <= MaxReq
        /\ miss \subseteq 0 .. n - 1 /\ buf \in [Index -> Values] /\ disk \in Disks
      BY BCacheAssumption DEF CoherentInv, Base, TypeOK
  <1>2. \A k \in 0 .. n - 1 : k \in Index
      BY <1>1, BCacheAssumption DEF Index
  <1>3. /\ Undisturbed /\ ~Swap
        /\ disk' = disk \/ write_strategy
        /\ write_strategy => Written \/ Broken
      BY DiskStep DEF CoherentInv
  <1>4. SlotsAgree /\ ZeroClear /\ BufAgree
      BY <1>3 DEF CoherentInv
  <1>5. ASSUME pc # "idle", rw = "read", ~err, NEW k \in 0 .. n - 1, Filled(k)
        PROVE  buf[k] = disk[runit][blk + k]
      BY <1>4, <1>5 DEF BufAgree
  <1>6. CASE pc' = "idle"
      BY <1>6 DEF BufAgree
  <1>7. CASE bcache_strategy
    <2>1. pc' # "insert" /\ pc' # "done" /\ pc' # "fill" /\ pc' # "transfer" /\ i' = 0
        BY <1>7 DEF bcache_strategy
    <2>2. \A k \in 0 .. n' - 1 : ~Filled(k)'
        BY <2>1 DEF Filled
    <2> QED BY <2>1, <2>2 DEF BufAgree
  <1>8. CASE Bypass
    <2>1. pc = "bypass" /\ pc' = "done" /\ UNCHANGED reqVars
        BY <1>8 DEF Bypass, Fails
    <2>2. CASE rw = "read" /\ ~err'
      <3>1. buf' = ReadInto(0, n) /\ disk' = disk
          BY <1>8, <2>2 DEF Bypass, Fails
      <3>2. \A k \in 0 .. n - 1 : buf'[k] = disk[runit][blk + k]
          BY <3>1, <1>1, <1>2 DEF ReadInto
      <3> QED BY <2>1, <3>1, <3>2 DEF BufAgree, reqVars
    <2>3. CASE ~(rw = "read" /\ ~err')
        BY <2>1, <2>3 DEF BufAgree, reqVars
    <2> QED BY <2>2, <2>3
  <1>9. CASE bcache_lookup
    <2>1. /\ pc = "lookup" /\ rw = "read" /\ p = -1 /\ p' = p /\ UNCHANGED reqVars /\ UNCHANGED err
          /\ pc' \in {"lookup", "fill"} /\ disk' = disk
        BY <1>9 DEF bcache_lookup, CoherentInv, Base, Position
    <2>2. SUFFICES ASSUME ~err, NEW k \in 0 .. n - 1, Filled(k)'
                   PROVE  buf'[k] = disk[runit][blk + k]
        BY <2>1 DEF BufAgree, reqVars
    <2>3. CASE k \notin miss /\ k < i
      <3>1. buf'[k] = buf[k]
          BY <1>9, <1>1, <1>2, <2>3 DEF bcache_lookup
      <3>2. Filled(k)
          BY <2>1, <2>3 DEF Filled
      <3> QED BY <1>5, <2>1, <2>2, <3>1, <3>2
    <2>4. CASE ~(k \notin miss /\ k < i)
      <3>1. i < n /\ k = i /\ i \notin miss'
          BY <1>9, <1>1, <2>1, <2>2, <2>4 DEF bcache_lookup, Filled
      <3>2. PICK s \in Slots : s \in Matches(blk + i) /\ buf' = [buf EXCEPT ![i] = data[s]]
          BY <1>9, <3>1, <1>1 DEF bcache_lookup, First
      <3>3. ctl[s].blk = blk + k /\ buf'[k] = data[s]
          BY <3>1, <3>2, <1>1, <1>2 DEF Matches
      <3>4. unit = runit /\ runit \in Units /\ Units \subseteq Nat /\ blk + k \in Nat
          BY <2>1, BCacheAssumption DEF CoherentInv, Base, Request, TypeOK, Blocks
      <3>5. unit # -1 /\ ctl[s].blk # -1 /\ ~Late(s)
          BY <2>1, <3>3, <3>4 DEF Late
      <3> QED BY <3>3, <3>4, <3>5, <1>4 DEF SlotsAgree
    <2> QED BY <2>3, <2>4
  <1>10. CASE read_strategy
    <2>1. /\ pc = "fill" /\ rw = "read" /\ UNCHANGED reqVars /\ UNCHANGED <<err, buf, miss, disk>>
          /\ pc' \in {"fill", "transfer", "done"}
        BY <1>10 DEF read_strategy, CoherentInv, Base, Position
    <2>2. p = -1 \/ (p \in 0 .. i - 1 /\ \A k \in p .. i - 1 : k \in miss)
        BY <2>1 DEF CoherentInv, Base, Position
    <2>3. ASSUME NEW k \in 0 .. n - 1, Filled(k)' PROVE Filled(k)
        BY <1>10, <1>1, <2>1, <2>2, <2>3 DEF read_strategy, Filled
    <2> QED BY <1>5, <2>1, <2>3 DEF BufAgree, reqVars
  <1>11. CASE Transfer
    <2>1. /\ pc = "transfer" /\ rw = "read" /\ UNCHANGED reqVars /\ UNCHANGED <<p, i, miss, disk>>
          /\ p \in 0 .. i - 1 /\ \A k \in p .. i - 1 : k \in miss
        BY <1>11 DEF Transfer, CoherentInv, Base, Position
    <2>2. CASE Fails
        BY <2>2 DEF BufAgree, Fails
    <2>3. CASE ~Fails
      <3>1. buf' = ReadInto(p, i) /\ pc' = "insert" /\ err' = err
          BY <1>11, <2>3 DEF Transfer
      <3>2. \A k \in 0 .. n - 1 : buf'[k] = IF k \in p .. i - 1 THEN disk[runit][blk + k] ELSE buf[k]
          BY <3>1, <1>1, <1>2 DEF ReadInto
      <3>3. \A k \in p .. i - 1 : buf'[k] = disk[runit][blk + k]
        <4>1. \A k \in p .. i - 1 : k \in 0 .. n - 1
            BY <1>1, <2>1
        <4> QED BY <4>1, <3>2
      <3>4. ASSUME ~err, NEW k \in 0 .. n - 1, k \notin p .. i - 1, Filled(k)'
            PROVE  buf'[k] = disk[runit][blk + k]
        <4>1. Filled(k) /\ buf'[k] = buf[k]
            BY <1>1, <2>1, <3>1, <3>2, <3>4 DEF Filled
        <4> QED BY <4>1, <1>5, <2>1, <3>4
      <3> QED BY <2>1, <3>1, <3>3, <3>4 DEF BufAgree, reqVars
    <2> QED BY <2>2, <2>3
  <1>12. CASE bcache_insert
    <2>1. /\ pc = "insert" /\ UNCHANGED reqVars /\ UNCHANGED <<i, miss, buf, disk, err>>
          /\ pc' = "insert" => p' = p
        BY <1>12 DEF bcache_insert, CoherentInv, Base, TypeOK
    <2>2. ASSUME NEW k \in 0 .. n - 1, Filled(k)', rw = "read" PROVE Filled(k)
        BY <1>12, <1>1, <2>2 DEF bcache_insert, Filled
    <2> QED BY <1>4, <1>5, <2>1, <2>2 DEF BufAgree, reqVars
  <1>13. CASE bcache_invalidate
    <2>1. rw' = "write" /\ pc' # "insert"
        BY <1>13 DEF bcache_invalidate, CoherentInv, Base, Position, reqVars
    <2> QED BY <2>1 DEF BufAgree
  <1>17. CASE write_strategy /\ Broken
    <2>1. pc' = "done" /\ rw' = "write"
        BY <1>17 DEF write_strategy, Broken, Fails, CoherentInv, Base, Position, reqVars
    <2> QED BY <2>1 DEF BufAgree
  <1>14. CASE write_strategy /\ Written
    <2>1. /\ pc = "write" /\ rw' = "write" /\ i' = n /\ UNCHANGED reqVars /\ buf' = buf
          /\ disk' = Write(n) /\ p' = 0
        BY <1>14 DEF write_strategy, Written, Fails, CoherentInv, Base, Position, reqVars
    <2>2. ASSUME NEW k \in 0 .. n - 1 PROVE buf[k] = disk'[runit][blk + k]
      <3>1. /\ blk + k \in Blocks /\ blk \in Int /\ runit \in Units
            /\ disk \in [Units -> [Blocks -> Values]]
          BY <2>1, BCacheAssumption DEF CoherentInv, Base, TypeOK, Request, Blocks, Disks
      <3>2. (blk + k) - blk = k
          BY <3>1
      <3>3. disk'[runit] = [b \in Blocks |-> IF b - blk \in 0 .. n - 1 THEN buf[b - blk]
                                             ELSE disk[runit][b]]
          BY <3>1, <2>1 DEF Write
      <3> QED BY <3>1, <3>2, <3>3
    <2> QED BY <2>1, <2>2 DEF BufAgree, reqVars
  <1>15. CASE Tick \/ UNCHANGED vars
    <2>1. UNCHANGED reqVars /\ UNCHANGED <<pc, buf, i, miss, p, err, disk>>
        BY <1>15 DEF Tick, vars
    <2>2. \A k \in 0 .. n - 1 : Filled(k)' <=> Filled(k)
        BY <2>1 DEF Filled
    <2> QED BY <1>4, <1>5, <2>1, <2>2 DEF BufAgree, reqVars
  <1>16. bcache_init \/ Return => pc' = "idle"
      BY DEF bcache_init, Return, CoherentInv, Base, Start
  <1> QED BY <1>3, <1>6, <1>7, <1>8, <1>9, <1>10, <1>11, <1>12, <1>13, <1>14, <1>15, <1>16, <1>17 DEF Next, Run

LEMMA InitCoherent == Init => CoherentInv
  BY InitBase DEF Init, CoherentInv, OneEach, OnceEach, SlotsAgree, ZeroClear, Cleared, BufAgree

LEMMA NextCoherent == CoherentInv /\ [Next]_vars => CoherentInv'
  <1> SUFFICES ASSUME CoherentInv, [Next]_vars PROVE CoherentInv'
      OBVIOUS
  <1>1. Base' /\ OneEach' /\ OnceEach'
      BY NextBase, OneEachStep DEF CoherentInv
  <1>2. ASSUME Undisturbed' PROVE SlotsAgree' /\ ZeroClear' /\ BufAgree'
    <2>1. Undisturbed
        BY <1>2, DiskStep DEF CoherentInv
    <2> QED BY <1>2, <2>1, SlotsAgreeStep, ZeroClearStep, BufAgreeStep
  <1> QED BY <1>1, <1>2 DEF CoherentInv

\* Reads return what the disk holds, and the slots agree with it, although two slots may
\* hold the same block, for every cache size: as long as no medium is changed, no write is too
\* large for the cache and none fails half way after a block came to be in two slots.
THEOREM ReadsAgree == Spec => []Coherent
  <1>1. CoherentInv => Coherent
      BY DEF CoherentInv, SlotsAgree, Late, BufAgree, Filled, Coherent
  <1> QED BY <1>1, InitCoherent, NextCoherent, PTL DEF Spec

\* Every variable of the cache keeps its type.
THEOREM CacheTypes == Spec => []TypeOK
  <1>1. Base => TypeOK
      BY DEF Base
  <1> QED BY <1>1, InitBase, NextBase, PTL DEF Spec

-----------------------------------------------------------------------------
(***************************************************************************)
(* The cache implements the bare device of module BlockDev.                *)
(***************************************************************************)

\* An error ends the request, and a read touches only the blocks it asked for.
Clean ==
    /\ pc # "done" => ~err
    /\ pc = "idle" => rw = "read"
    /\ rw = "read" => \A k \in Index : k >= n => buf[k] = Any

LEMMA CleanStep == ASSUME Base, Clean, [Next]_vars PROVE Clean'
  <1>1. /\ n \in Nat /\ i \in 0 .. n /\ p \in -1 .. n /\ n <= MaxReq /\ buf \in [Index -> Values]
        /\ err \in BOOLEAN /\ \A k \in Index : k \in Int
      BY BCacheAssumption DEF Base, TypeOK, Index
  <1>2. CASE bcache_strategy
      BY <1>2 DEF bcache_strategy, Clean
  <1>3. CASE Return
      BY <1>3 DEF Return, Clean
  <1>4. CASE UNCHANGED <<rw, n, buf, err>> /\ (pc' = "idle" => pc = "idle") /\ pc # "done"
      BY <1>4 DEF Clean
  <1>5. CASE UNCHANGED <<rw, n, buf, err, pc>>
      BY <1>5 DEF Clean
  <1>6. ASSUME NEW lo \in 0 .. n, NEW hi \in 0 .. n, buf' = ReadInto(lo, hi), UNCHANGED <<rw, n, err>>,
               pc # "done", pc # "idle", pc' # "idle"
        PROVE  Clean'
    <2>1. \A k \in Index : k >= n => ~(k \in lo .. hi - 1)
        BY <1>1, <1>6
    <2> QED BY <2>1, <1>6 DEF Clean, ReadInto
  <1>7. CASE Fails /\ UNCHANGED <<rw, n, buf>>
      BY <1>7 DEF Fails, Clean
  <1>8. CASE Bypass
    <2>1. n \in 0 .. n /\ 0 \in 0 .. n
        BY <1>1
    <2>2. CASE buf' = ReadInto(0, n) /\ pc' = "done" /\ err' = err
        BY <1>6, <1>8, <2>1, <2>2 DEF Bypass, reqVars
    <2> QED BY <1>4, <1>7, <1>8, <2>2 DEF Bypass, reqVars
  <1>9. CASE bcache_lookup
    <2>1. UNCHANGED <<rw, n, err>> /\ pc = "lookup" /\ pc' \in {"lookup", "fill"}
        BY <1>9 DEF bcache_lookup, reqVars
    <2>2. buf' = buf \/ (i < n /\ \E v : buf' = [buf EXCEPT ![i] = v])
        BY <1>9 DEF bcache_lookup
    <2>3. \A k \in Index : k >= n => buf'[k] = buf[k]
        BY <1>1, <2>2
    <2> QED BY <2>1, <2>3 DEF Clean
  <1>10. CASE read_strategy
      BY <1>4, <1>10 DEF read_strategy, reqVars
  <1>11. CASE Transfer
    <2>1. CASE buf' = ReadInto(p, i) /\ pc' = "insert" /\ err' = err
      <3>1. p \in 0 .. n /\ i \in 0 .. n
          BY <1>1, <1>11 DEF Transfer, Base, Position
      <3> QED BY <1>6, <1>11, <2>1, <3>1 DEF Transfer, reqVars
    <2> QED BY <1>7, <1>11, <2>1 DEF Transfer, reqVars
  <1>12. CASE bcache_insert
      BY <1>4, <1>12 DEF bcache_insert, reqVars
  <1>13. CASE bcache_invalidate
      BY <1>4, <1>13 DEF bcache_invalidate, reqVars
  <1>14. CASE write_strategy
    <2>1. CASE Fails
        BY <1>7, <1>14, <2>1 DEF write_strategy, reqVars
    <2> QED BY <1>4, <1>14, <2>1 DEF write_strategy, reqVars
  <1>15. CASE bcache_init \/ Tick \/ Swap \/ UNCHANGED vars
      BY <1>5, <1>15 DEF bcache_init, Tick, Swap, vars, reqVars
  <1> QED BY <1>2, <1>3, <1>8, <1>9, <1>10, <1>11, <1>12, <1>13, <1>14, <1>15 DEF Next, Run

LEMMA InitDevice == Init => Device!Init /\ Clean
  <1> SUFFICES ASSUME Init PROVE Device!Init /\ Clean
      OBVIOUS
  <1>1. DevState = "idle" /\ DevBuf = [k \in Index |-> Any]
      BY DEF Init, DevState, DevBuf, Busy
  <1>2. Device!Init
      BY <1>1 DEF Init, Device!Init, Device!Blocks, Device!Index, Disks, Blocks, Index
  <1> QED BY <1>2 DEF Init, Clean

\* A step inside a request, or between two, that the device does not see.
LEMMA HiddenStep ==
    ASSUME UNCHANGED <<disk, reqVars, err>>, DevState' = DevState, DevBuf' = DevBuf
    PROVE  UNCHANGED Device!vars
  BY DEF Device!vars, reqVars

\* A read ends with the contents of the disk, whatever mixture of slots and transfers it used.
LEMMA ReadPerforms ==
    ASSUME Base, Clean, Clean', rw = "read", DevState = "busy", pc' = "done", ~err, ~err', buf' \in [Index -> Values],
           \A k \in 0 .. n - 1 : buf'[k] = disk[runit][blk + k], UNCHANGED <<disk, reqVars, err>>
    PROVE  Device!Perform
  <1>1. DevState' = "done" /\ DevBuf' = buf'
      BY DEF DevState, DevBuf, Busy
  <1>2. DevBuf = [k \in Index |-> Any]
      BY DEF DevBuf, Clean, DevState, Busy
  <1>3. n \in Nat /\ \A k \in Index : k \in Nat /\ (k < n => k \in 0 .. n - 1) /\ (~(k < n) => k >= n)
      BY BCacheAssumption DEF Base, TypeOK, Index
  <1>4. \A k \in Index : buf'[k] = IF k < n THEN disk[runit][blk + k] ELSE Any
      BY <1>3 DEF Clean, reqVars
  <1>5. buf' = [k \in Index |-> IF k < n THEN disk[runit][blk + k] ELSE Any]
      BY <1>4
  <1>6. DevBuf' = [k \in Device!Index |-> IF k < n THEN disk[runit][blk + k] ELSE DevBuf[k]]
      BY <1>1, <1>2, <1>5 DEF Device!Index, Index
  <1> QED BY <1>1, <1>6 DEF Device!Perform, reqVars

\* A transfer that fails is a request that fails.
LEMMA ReadFails ==
    ASSUME Clean, rw = "read", DevState = "busy", Fails, UNCHANGED <<disk, reqVars, buf>>
    PROVE  Device!Fail
  <1>1. DevState' = "done" /\ DevBuf' = [k \in Index |-> Any] /\ err'
      BY DEF Fails, DevState, DevBuf, Busy, reqVars
  <1>2. DevBuf = [k \in Index |-> Any]
      BY DEF DevBuf, Clean, DevState, Busy
  <1> QED BY <1>1, <1>2 DEF Device!Fail, Fails, reqVars

LEMMA DeviceStep ==
    ASSUME CoherentInv, CoherentInv', Clean, Clean', Undisturbed, Undisturbed', [Next]_vars
    PROVE  [Device!Next]_(Device!vars)
  <1>1. Base /\ Base' /\ BufAgree /\ BufAgree'
      BY DEF CoherentInv
  <1>2. buf \in [Index -> Values] /\ buf' \in [Index -> Values] /\ rw \in {"read", "write"} /\ err \in BOOLEAN
        /\ err' \in BOOLEAN /\ rw' \in {"read", "write"}
      BY <1>1 DEF Base, TypeOK
  <1>3. CASE bcache_init \/ Tick \/ UNCHANGED vars
    <2>1. UNCHANGED <<disk, reqVars, err, pc, buf>>
        BY <1>3 DEF bcache_init, Tick, vars
    <2> QED BY <2>1, HiddenStep DEF DevState, DevBuf, reqVars
  <1>4. CASE bcache_strategy
    <2>1. /\ runit' \in Units /\ blk' \in Blocks /\ n' \in 1 .. MaxReq /\ blk' + n' - 1 \in Blocks
          /\ rw' \in {"read", "write"} /\ pc = "idle" /\ pc' \in {"bypass", "lookup", "invalidate"}
          /\ rw' = "read" => buf' = [k \in Index |-> Any]
          /\ err' = FALSE /\ disk' = disk
        BY <1>4 DEF bcache_strategy
    <2>2. DevState = "idle" /\ DevState' = "busy"
        BY <2>1 DEF DevState, Busy
    <2>3. (rw' = "read" => DevBuf' = [k \in Index |-> Any]) /\ DevBuf' \in [Index -> Values]
        BY <2>1, <1>2, AnyValue DEF DevBuf
    <2>4. err' = err
        BY <2>1, <1>2 DEF Clean
    <2> QED BY <2>1, <2>2, <2>3, <2>4 DEF Device!Next, Device!Request, Device!Blocks, Device!Index, Blocks, Index
  <1>5. CASE Bypass
    <2>1. rw = "read" /\ DevState = "busy" /\ UNCHANGED <<disk, reqVars>> /\ pc = "bypass"
      <3>1. "bypass" \notin disturbed'
          BY DEF Undisturbed
      <3> QED BY <1>2, <1>5, <3>1 DEF Bypass, DevState, Busy
    <2>2. CASE pc' = "done" /\ buf' = ReadInto(0, n) /\ err' = err
      <3>1. \A k \in 0 .. n - 1 : buf'[k] = disk[runit][blk + k]
        <4>1. n \in Nat /\ n <= MaxReq
            BY <1>1, BCacheAssumption DEF Base, TypeOK
        <4>2. \A k \in 0 .. n - 1 : k \in Index
            BY <4>1, BCacheAssumption DEF Index
        <4> QED BY <4>2, <2>2 DEF ReadInto
      <3> QED BY <2>1, <2>2, <3>1, <1>1, <1>2, ReadPerforms DEF Clean, Device!Next
    <2>3. CASE Fails /\ buf' = buf
        BY <2>1, <2>3, ReadFails DEF Device!Next
    <2> QED BY <1>5, <2>1, <2>2, <2>3 DEF Bypass
  <1>6. CASE bcache_lookup
    <2>1. rw = "read" /\ UNCHANGED <<disk, reqVars, err>> /\ pc = "lookup" /\ pc' \in {"lookup", "fill"}
        BY <1>1, <1>6 DEF bcache_lookup, Base, Position
    <2> QED BY <2>1, HiddenStep DEF DevState, DevBuf, Busy, reqVars
  <1>7. CASE read_strategy
    <2>1. rw = "read" /\ UNCHANGED <<disk, reqVars, err, buf>> /\ pc = "fill" /\ DevState = "busy"
        BY <1>1, <1>7 DEF read_strategy, Base, Position, DevState, Busy
    <2>2. CASE pc' \in {"fill", "transfer"}
        BY <2>1, <2>2, HiddenStep DEF DevState, DevBuf, Busy, reqVars
    <2>3. CASE pc' = "done"
      <3>1. ~err /\ ~err'
          BY <2>1 DEF Clean
      <3>2. \A k \in 0 .. n - 1 : buf'[k] = disk[runit][blk + k]
          BY <1>1, <2>1, <2>3, <3>1 DEF BufAgree, Filled, reqVars
      <3> QED BY <2>1, <2>3, <3>1, <3>2, <1>1, <1>2, ReadPerforms DEF Device!Next
    <2> QED BY <1>7, <2>1, <2>2, <2>3 DEF read_strategy
  <1>8. CASE Transfer
    <2>1. rw = "read" /\ UNCHANGED <<disk, reqVars>> /\ pc = "transfer" /\ DevState = "busy"
        BY <1>1, <1>8 DEF Transfer, Base, Position, DevState, Busy
    <2>2. CASE pc' = "insert" /\ err' = err
        BY <2>1, <2>2, HiddenStep DEF DevState, DevBuf, Busy, reqVars
    <2>3. CASE Fails /\ buf' = buf
        BY <2>1, <2>3, ReadFails DEF Device!Next
    <2> QED BY <1>8, <2>2, <2>3 DEF Transfer
  <1>9. CASE bcache_insert
    <2>1. UNCHANGED <<disk, reqVars, err, buf>> /\ pc = "insert"
        BY <1>9 DEF bcache_insert
    <2>2. CASE pc' = "insert"
        BY <2>1, <2>2, HiddenStep DEF DevState, DevBuf, Busy, reqVars
    <2>3. CASE pc' = "fill" /\ rw = "read"
        BY <2>1, <2>3, HiddenStep DEF DevState, DevBuf, Busy, reqVars
    <2>4. CASE pc' = "done" /\ rw = "write"
      <3>1. DevState = "written" /\ DevState' = "done" /\ DevBuf' = DevBuf
          BY <2>1, <2>4 DEF DevState, DevBuf, Busy, reqVars
      <3> QED BY <2>1, <3>1 DEF Device!Next, Device!Finish, reqVars
    <2> QED BY <1>2, <1>9, <2>1, <2>2, <2>3, <2>4 DEF bcache_insert
  <1>10. CASE bcache_invalidate
    <2>1. UNCHANGED <<disk, reqVars, err, buf>> /\ pc = "invalidate" /\ pc' \in {"invalidate", "write"} /\ rw = "write"
        BY <1>1, <1>10 DEF bcache_invalidate, Base, Position
    <2> QED BY <2>1, HiddenStep DEF DevState, DevBuf, Busy, reqVars
  <1>11. CASE write_strategy /\ Written
    <2>1. disk' = Write(n) /\ pc' = "insert" /\ err' = err /\ UNCHANGED <<reqVars, buf>> /\ pc = "write" /\ rw = "write"
        BY <1>1, <1>11 DEF write_strategy, Written, Fails, Base, Position
    <2>2. DevState = "busy" /\ DevState' = "written" /\ DevBuf' = buf /\ DevBuf = buf
        BY <2>1 DEF DevState, DevBuf, Busy, reqVars
    <2> QED BY <2>1, <2>2 DEF Device!Next, Device!Perform, Device!Blocks, Write, Blocks, reqVars
  <1>12. CASE Return
    <2>1. DevState = "done" /\ DevState' = "idle" /\ DevBuf' = [k \in Index |-> Any]
        BY <1>12 DEF Return, DevState, DevBuf, Busy
    <2> QED BY <1>12, <2>1 DEF Return, Device!Next, Device!Reply, Device!Index, Index
  <1>13. ~Swap /\ (write_strategy => Written \/ Broken)
      BY <1>1, DiskStep
  <1>14. CASE write_strategy /\ Broken
    <2>1. /\ pc = "write" /\ pc' = "done" /\ err' = TRUE /\ rw = "write" /\ UNCHANGED <<reqVars, buf>>
          /\ n \in Nat /\ disk \in [Units -> [Blocks -> Values]] /\ runit \in Units
        BY <1>1, <1>14, BCacheAssumption
           DEF write_strategy, Broken, Fails, Base, Position, Request, TypeOK, Disks
    <2>2. DevState = "busy" /\ DevState' = "done" /\ DevBuf' = buf /\ DevBuf = buf
        BY <2>1 DEF DevState, DevBuf, Busy, reqVars
    <2>3. PICK m \in 0 .. n - 1 : disk' = Write(m)
        BY <1>14 DEF Broken
    <2>4. CASE m = 0
      <3>1. \A b \in Blocks : b - blk \notin 0 .. m - 1
          BY <2>4, <1>1, BCacheAssumption DEF Base, TypeOK, Blocks
      <3>2. disk'[runit] = disk[runit]
          BY <2>1, <2>3, <3>1 DEF Write
      <3>3. disk' = disk
          BY <2>1, <2>3, <3>2 DEF Write
      <3> QED BY <2>1, <2>2, <3>3 DEF Device!Next, Device!Fail, reqVars
    <2>5. CASE m # 0
      <3>1. m \in 1 .. n - 1
          BY <2>1, <2>5
      <3> QED BY <2>1, <2>2, <2>3, <3>1 DEF Device!Next, Device!Fail, Device!Blocks, Write, Blocks, reqVars
    <2> QED BY <2>4, <2>5
  <1> QED BY <1>3, <1>4, <1>5, <1>6, <1>7, <1>8, <1>9, <1>10, <1>11, <1>12, <1>13, <1>14 DEF Next, Run

\* While no medium is changed, no write bypasses the cache and none fails with a block in two
\* slots, the cache is the device, failed transfers included: every behaviour of
\* bcache_strategy() is one of dv_strategy() alone.
THEOREM CacheIsDevice == Spec /\ []Undisturbed => ImplementsDevice
  <1>1. Init => CoherentInv /\ Clean /\ Device!Init
      BY InitCoherent, InitDevice
  <1>2. CoherentInv /\ Clean /\ [Next]_vars => (CoherentInv /\ Clean)'
      BY NextCoherent, CleanStep DEF CoherentInv
  <1>3. CoherentInv /\ Clean /\ (CoherentInv /\ Clean)' /\ Undisturbed /\ Undisturbed' /\ [Next]_vars
           => [Device!Next]_(Device!vars)
      BY DeviceStep
  <1> QED BY <1>1, <1>2, <1>3, PTL DEF Spec, ImplementsDevice, Device!Spec
=============================================================================
