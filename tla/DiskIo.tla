------------------------------ MODULE DiskIo -------------------------------
(***************************************************************************)
(* bd_io of the two biosdisk.c: a transfer in pieces that stay within a      *)
(* track, by way of a bounce buffer where the BIOS cannot reach the memory,  *)
(* each piece tried three times.  Addresses count sectors; LOW of them can be     *)
(* addressed in real mode and a floppy's DMA cannot cross a multiple of SEG. *)
(***************************************************************************)
EXTENDS Naturals, Integers, FiniteSets

CONSTANTS
    Geometries,     \* records with the cylinders, heads and sectors of a drive
    LOW, SEG,       \* one megabyte, and 64 KB
    BOUNCE,         \* FLOPPY_BOUNCEBUF
    MaxCyl,         \* the last cylinder INT 13h can name
    Blocks, Bufs, Lengths   \* first block, address of the buffer, length of a transfer
ASSUME IoAssumption ==
    /\ Geometries \subseteq [cyls : Nat, hds : Nat \ {0}, sec : Nat \ {0}]
    /\ LOW \in Nat /\ SEG \in Nat \ {0} /\ BOUNCE \in Nat \ {0} /\ MaxCyl \in Nat
    /\ Blocks \subseteq Nat /\ Bufs \subseteq Nat /\ Lengths \subseteq Nat
    /\ SEG >= 2 * BOUNCE        \* 18 sectors; the tracks of a pc98 have up to 255, SEG has 128
    \* The top of the first megabyte is not the loader's: no buffer reaches across it.
    /\ \A a \in Bufs, n \in Lengths : a < LOW => a + n <= LOW

VARIABLES od,       \* the drive: geometry, whether it is a floppy, has EDD, is that of a pc98; its platter
          req,      \* the transfer asked for: block, length, buffer, direction
          io,       \* the loop of bd_io
          memory    \* what the caller's buffer holds
iovars == <<od, req, io, memory>>

Junk == -1
\* Blocks hold their own number before a transfer; the buffer of a write holds 100 + its index.
Data(i) == 100 + i
Min2(a, b) == IF a < b THEN a ELSE b
Crosses(a, n) == a \div SEG # (a + n) \div SEG
Size == od.cyls * od.hds * od.sec

\* Whether the BIOS can reach the caller's buffer.
i386_Bounced(r) == r.buf >= LOW \/ (od.floppy /\ Crosses(r.buf, r.blks))
pc98_Bounced(r) == r.buf >= LOW \/ Crosses(r.buf, r.blks)
Bounced(r) == IF od.pc98 THEN pc98_Bounced(r) ELSE i386_Bounced(r)
\* The half of the bounce buffer that lies within a segment; at is where alloca has put it.
BounceSize(r) == Min2(IF od.pc98 THEN od.sec ELSE BOUNCE, r.blks)
Bounce(r, at) == IF Crosses(at, BounceSize(r)) THEN at + BounceSize(r) ELSE at

\* Mutant of Piece: a piece may run over the end of the track.
PieceOver == IF io.maxfer > 0 THEN Min2(io.resid, io.maxfer) ELSE io.resid
Piece == LET track == Min2(od.sec - (io.dblk % od.sec), io.resid)
         IN  IF io.maxfer > 0 THEN Min2(track, io.maxfer) ELSE track
Target == IF io.breg = Junk THEN req.buf + io.p ELSE io.breg

\* Where the drive looks for a block: bd_chs_io splits it, the drive puts it together again.
bd_chs_io(dblk) ==
    LET bpc == od.sec * od.hds
        cyl == dblk \div bpc
        hd == (dblk % bpc) \div od.sec
        sec == ((dblk % bpc) % od.sec) + 1
    IN  [ok |-> cyl <= MaxCyl, lba |-> ((cyl * od.hds) + hd) * od.sec + sec - 1]
\* A pc98 counts sectors of a hard disk from 0, and no cylinder is out of reach.
pc98_chs_io(dblk) ==
    LET bpc == od.sec * od.hds
        sec == ((dblk % bpc) % od.sec) + (IF od.floppy THEN 1 ELSE 0)
    IN  [ok |-> TRUE, lba |-> (((dblk \div bpc) * od.hds) + ((dblk % bpc) \div od.sec)) * od.sec + sec - (IF od.floppy THEN 1 ELSE 0)]
bd_edd_io(dblk) == [ok |-> TRUE, lba |-> dblk]
Address == IF od.pc98 THEN pc98_chs_io(io.dblk) ELSE IF od.edd THEN bd_edd_io(io.dblk) ELSE bd_chs_io(io.dblk)
\* A drive without EDD reads within a track.
Reachable(x) == /\ Address.lba + x <= Size
                /\ od.edd \/ (Address.lba % od.sec) + x <= od.sec

\* bd_realstrategy: no blocks, no transfer.
Request(r, at) ==
    /\ io.state = "idle" /\ r.dblk + r.blks <= Size
    /\ req' = r
    /\ memory' = [i \in 0 .. r.blks - 1 |-> IF r.write THEN Data(i) ELSE Junk]
    /\ io' = [state |-> IF r.blks = 0 THEN "done" ELSE "loop", dblk |-> r.dblk, resid |-> r.blks, p |-> 0, retry |-> 0,
              maxfer |-> IF Bounced(r) THEN BounceSize(r) ELSE 0,
              breg |-> IF Bounced(r) THEN Bounce(r, at) ELSE Junk]
    /\ UNCHANGED od

bd_realstrategy(r, at) == ~od.pc98 /\ Request(r, at)
pc98_realstrategy(r, at) == od.pc98 /\ Request(r, at)

Moved(x) == [io EXCEPT !.p = @ + x, !.dblk = @ + x, !.resid = @ - x, !.retry = 0]
\* One BIOS call.  After the first failure the drive is reset before the next.
Works ==
    /\ io.state = "loop" /\ io.resid > 0 /\ Address.ok /\ Reachable(Piece)
    /\ memory' = IF req.write THEN memory
                 ELSE [i \in DOMAIN memory |-> IF i \in io.p .. io.p + Piece - 1 THEN od.platter[Address.lba + i - io.p] ELSE memory[i]]
    /\ od' = IF ~req.write THEN od
             ELSE [od EXCEPT !.platter = [b \in DOMAIN @ |->
                       IF b \in Address.lba .. Address.lba + Piece - 1 THEN memory[io.p + b - Address.lba] ELSE @[b]]]
    /\ io' = Moved(Piece)
    /\ UNCHANGED req
\* A call that fails has moved a part of the piece, or nothing; a read goes through the bounce buffer first.
Fails ==
    /\ io.state = "loop" /\ io.resid > 0
    /\ \E done \in 0 .. Piece - 1 :
        /\ memory' = IF req.write \/ io.breg # Junk THEN memory
                     ELSE [i \in DOMAIN memory |-> IF Address.ok /\ i \in io.p .. io.p + done - 1 THEN od.platter[Address.lba + i - io.p] ELSE memory[i]]
        /\ od' = IF ~req.write \/ ~Address.ok THEN od
                 ELSE [od EXCEPT !.platter = [b \in DOMAIN @ |->
                           IF b \in Address.lba .. Address.lba + done - 1 THEN memory[io.p + b - Address.lba] ELSE @[b]]]
    /\ io' = IF io.retry = 2 THEN [io EXCEPT !.state = "failed"] ELSE [io EXCEPT !.retry = @ + 1]
    /\ UNCHANGED req
Returns == /\ io.state = "loop" /\ io.resid = 0
           /\ io' = [io EXCEPT !.state = "done"] /\ UNCHANGED <<od, req, memory>>

Idle == [state |-> "idle", dblk |-> 0, resid |-> 0, p |-> 0, retry |-> 0, maxfer |-> 0, breg |-> Junk]
NoReq == [dblk |-> 0, blks |-> 0, buf |-> 0, write |-> FALSE]
IoInit ==
    /\ \E g \in Geometries, floppy, edd, pc98 \in BOOLEAN :
        /\ ~(edd /\ pc98)
        /\ od = [pc98 |-> pc98, cyls |-> g.cyls, hds |-> g.hds, sec |-> g.sec, floppy |-> floppy, edd |-> edd,
              platter |-> [b \in 0 .. (g.cyls * g.hds * g.sec) - 1 |-> b]]
    /\ req = NoReq /\ io = Idle /\ memory = [i \in {} |-> Junk]
IoNext ==
    \/ \E b \in Blocks, n \in Lengths, a \in Bufs, w \in BOOLEAN, at \in 0 .. SEG - 1 :
        LET r == [dblk |-> b, blks |-> n, buf |-> a, write |-> w] IN bd_realstrategy(r, at) \/ pc98_realstrategy(r, at)
    \/ Works \/ Fails \/ Returns
IoSpec == IoInit /\ [][IoNext]_iovars

-----------------------------------------------------------------------------
Asked == req.dblk .. req.dblk + req.blks - 1
\* A transfer that bd_io reports as done has moved every block to its place.
Transferred == io.state = "done" =>
    \A i \in 0 .. req.blks - 1 : IF req.write THEN od.platter[req.dblk + i] = Data(i) ELSE memory[i] = req.dblk + i
\* Whatever fails, no block outside of the request is written and no buffer receives another block.
NothingAstray == /\ \A b \in DOMAIN od.platter : b \notin Asked \/ ~req.write => od.platter[b] = b
                 /\ \A i \in DOMAIN memory : memory[i] \in {Junk, Data(i), req.dblk + i}
\* A pc98 bounces by the track, and neither half of a buffer for more than half a segment need lie
\* within one (pc98 biosdisk.c:855-862).
LongTrack == io.breg # Junk /\ 2 * io.maxfer > SEG
\* The BIOS gets an address it can reach; the piece of a floppy and of a pc98 stays within a segment,
\* but by way of the buffer of a LongTrack, and every piece of a CHS drive within a track (the loop
\* of bd_io).
Addressable == io.state = "loop" /\ io.resid > 0 =>
    /\ Piece > 0
    /\ io.breg = Junk => Target < LOW
    /\ (od.floppy \/ od.pc98) /\ ~LongTrack => Target \div SEG = (Target + Piece - 1) \div SEG
    /\ ~od.edd => (io.dblk % od.sec) + Piece <= od.sec
IoSafe == Transferred /\ NothingAstray /\ Addressable
=============================================================================
