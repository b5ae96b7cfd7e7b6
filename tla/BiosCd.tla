------------------------------ MODULE BiosCd -------------------------------
(***************************************************************************)
(* The BIOS CD of i386 and pc98, libi386/bioscd.c and libpc98/bioscd.c: the *)
(* drive the loader was started from is added, opened as the current device  *)
(* and read in sectors of SECS device blocks, by way of a bounce buffer for  *)
(* memory above CDLOW, each piece tried three times.  It is a driver beside   *)
(* the one of DiskIo.                                                       *)
(***************************************************************************)
EXTENDS DiskIo, Sequences

CONSTANTS CdDrives,     \* what the BIOS has: number |-> whether it answers as a CD, and its type on pc98
          BootDrives,   \* drives the loader may be started from
          CdSectors,    \* sectors of the disc
          SECS,         \* BIOSCD_SECSIZE / DEV_BSIZE
          CDLOW,        \* one megabyte, in sectors
          CD_BOUNCEBUF, MAXBCDEV,
          CdBlocks, CdSizes, CdBufs   \* first block, size and address of a request
ASSUME CdAssumption ==
    /\ BootDrives \subseteq Nat /\ CdSectors \in Nat /\ SECS \in Nat \ {0} /\ CDLOW \in Nat
    /\ CD_BOUNCEBUF \in Nat \ {0} /\ CdBlocks \subseteq Nat /\ CdSizes \subseteq Nat /\ CdBufs \subseteq Nat

VARIABLES bc,       \* platform, bcinfo, and the unit that is the current device
          cdreq, cdio, cdmem, lost   \* the request, the loop of bc_read, the buffer, sectors given up
cdvars == <<bc, cdreq, cdio, cdmem, lost>>

CdJunk == -1
CdUnits == DOMAIN bc.info
\* CdUnits count from 0.
bc_unit2bios(unit) == IF unit + 1 \in CdUnits THEN bc.info[unit + 1] ELSE -1
bc_bios2unit(biosdev) ==
    IF \E i \in CdUnits : bc.info[i] = biosdev THEN (CHOOSE i \in CdUnits : bc.info[i] = biosdev /\ \A j \in CdUnits : bc.info[j] = biosdev => i <= j) - 1 ELSE -1

\* Whether the drive is taken: the BIOS returns a specification packet, a pc98 looks
\* for a CD among its SCSI devices.
i386_Answers(biosdev) == CdDrives[biosdev].answers
pc98_Answers(biosdev) == CdDrives[biosdev].scsi /\ CdDrives[biosdev].type = 5
bc_add(biosdev) ==
    /\ cdio.state = "start"
    /\ LET found == Len(bc.info) < MAXBCDEV /\ (IF bc.pc98 THEN pc98_Answers(biosdev) ELSE i386_Answers(biosdev)) IN
       bc' = [bc EXCEPT !.info = IF found THEN Append(@, biosdev) ELSE @, !.boot = biosdev]
    /\ cdio' = [cdio EXCEPT !.state = "added"] /\ UNCHANGED <<cdreq, cdmem, lost>>
\* The current device is the unit of the boot drive, -1 if it was not added; -1 is opened too.
bc_open ==
    /\ cdio.state = "added" /\ bc_bios2unit(bc.boot) < Len(bc.info)
    /\ bc' = [bc EXCEPT !.unit = bc_bios2unit(bc.boot)]
    /\ cdio' = [cdio EXCEPT !.state = "idle"] /\ UNCHANGED <<cdreq, cdmem, lost>>
\* The device the kernel is told: acd, and on a pc98 cd for a SCSI drive.
i386_bc_getdev(unit) == IF bc_unit2bios(unit) = -1 THEN "none" ELSE "acd"
pc98_bc_getdev(unit) == IF bc_unit2bios(unit) = -1 THEN "none" ELSE IF CdDrives[bc_unit2bios(unit)].scsi THEN "cd" ELSE "acd"

NoCd == [state |-> "start", dblk |-> 0, resid |-> 0, p |-> 0, retry |-> 0, maxfer |-> 0, bbuf |-> <<>>]
CdError(e) == cdio' = [NoCd EXCEPT !.state = e] /\ cdmem' = <<>> /\ lost' = {}
CdStrategy(r) ==
    /\ cdio.state \in {"idle", "EINVAL", "EROFS", "done"} /\ cdreq' = r /\ UNCHANGED bc
    /\ IF r.size % SECS # 0 THEN CdError("EINVAL")
       ELSE IF r.write THEN CdError("EROFS")
       ELSE IF r.dblk % SECS # 0 THEN CdError("EINVAL")
       ELSE LET blks == r.size \div SECS IN
            /\ cdmem' = [i \in 0 .. blks - 1 |-> CdJunk] /\ lost' = {}
            /\ \E max \in {IF r.buf < CDLOW THEN 0 ELSE IF blks < CD_BOUNCEBUF THEN blks ELSE CD_BOUNCEBUF} :
               cdio' = [state |-> IF blks = 0 THEN "done" ELSE "loop", dblk |-> r.dblk \div SECS, resid |-> blks, p |-> 0, retry |-> 0,
                        maxfer |-> max, bbuf |-> [i \in 1 .. max |-> CdJunk]]
bc_strategy(r) == ~bc.pc98 /\ CdStrategy(r)
pc98_bc_strategy(r) == bc.pc98 /\ CdStrategy(r)

\* Mutant of CdPiece: the last piece is as long as the others.
CdPieceFull == IF cdio.maxfer > 0 THEN cdio.maxfer ELSE cdio.resid
CdPiece == IF cdio.maxfer > 0 /\ cdio.maxfer < cdio.resid THEN cdio.maxfer ELSE cdio.resid
CdSector(i) == cdio.dblk + i
CdStore(f) == [i \in DOMAIN cdmem \union (cdio.p .. cdio.p + CdPiece - 1) |->
                IF i \in cdio.p .. cdio.p + CdPiece - 1 THEN f[i - cdio.p + 1] ELSE cdmem[i]]
\* Where the drive puts a piece, after n of its sectors: the bounce buffer, with what
\* is left of the piece before, or the caller's memory.
CdMoved(n) == IF cdio.maxfer > 0 THEN [i \in DOMAIN cdio.bbuf |-> IF i <= n THEN CdSector(i - 1) ELSE cdio.bbuf[i]]
            ELSE [i \in 1 .. CdPiece |-> IF i <= n THEN CdSector(i - 1) ELSE cdmem[cdio.p + i - 1]]
CdAdvanced(b) == [cdio EXCEPT !.p = @ + CdPiece, !.dblk = @ + CdPiece, !.resid = @ - CdPiece, !.retry = 0, !.bbuf = b]
CdBbuf(n) == IF cdio.maxfer > 0 THEN CdMoved(n) ELSE <<>>
CdWorks ==
    /\ cdio.state = "loop" /\ cdio.resid > 0 /\ bc_unit2bios(bc.unit) # -1 /\ CdSector(CdPiece) <= CdSectors
    /\ cdmem' = CdStore(CdMoved(CdPiece)) /\ cdio' = CdAdvanced(CdBbuf(CdPiece)) /\ UNCHANGED <<bc, cdreq, lost>>
\* A call that fails after n sectors.  After the third the loop goes on as if it had
\* worked, and what the bounce buffer holds is copied.
CdFails ==
    /\ cdio.state = "loop" /\ cdio.resid > 0
    /\ \E n \in 0 .. CdPiece - 1 :
        /\ n > 0 => bc_unit2bios(bc.unit) # -1 /\ CdSector(n) <= CdSectors
        /\ cdmem' = IF cdio.maxfer = 0 \/ cdio.retry = 2 THEN CdStore(CdMoved(n)) ELSE cdmem
        /\ cdio' = IF cdio.retry < 2 THEN [cdio EXCEPT !.retry = @ + 1, !.bbuf = CdBbuf(n)] ELSE CdAdvanced(CdBbuf(n))
    /\ lost' = IF cdio.retry < 2 THEN lost ELSE lost \union (cdio.p .. cdio.p + CdPiece - 1)
    /\ UNCHANGED <<bc, cdreq>>
bc_read == ~bc.pc98 /\ (CdWorks \/ CdFails)
pc98_bc_read == bc.pc98 /\ (CdWorks \/ CdFails)
CdDone == /\ cdio.state = "loop" /\ cdio.resid = 0
          /\ cdio' = [cdio EXCEPT !.state = "done"] /\ UNCHANGED <<bc, cdreq, cdmem, lost>>

CdInit == /\ \E pc98 \in BOOLEAN : bc = [pc98 |-> pc98, info |-> <<>>, boot |-> 0, unit |-> -1]
          /\ cdreq = [dblk |-> 0, size |-> 0, buf |-> 0, write |-> FALSE] /\ cdio = NoCd /\ cdmem = <<>> /\ lost = {}
CdNext ==
    \/ \E d \in BootDrives : bc_add(d)
    \/ bc_open
    \/ \E b \in CdBlocks, n \in CdSizes, a \in CdBufs, w \in BOOLEAN :
        LET r == [dblk |-> b, size |-> n, buf |-> a, write |-> w] IN bc_strategy(r) \/ pc98_bc_strategy(r)
    \/ bc_read \/ pc98_bc_read \/ CdDone

\* Both drivers, each with a drive of its own.
TransfersNext == (IoNext /\ UNCHANGED cdvars) \/ (CdNext /\ UNCHANGED iovars)
TransfersSpec == IoInit /\ CdInit /\ [][TransfersNext]_<<iovars, cdvars>>

-----------------------------------------------------------------------------
\* What bc_strategy reports as read is on the disc in that order, except for the pieces
\* whose three tries have failed: bc_read goes on, and reports them as read all the
\* same (bioscd.c:314-355).  A piece that failed spoils no other, and the caller's buffer
\* is filled to its length and no further, whatever the bounce buffer's size.
CdDelivered ==
    /\ cdio.state \in {"loop", "done"} => DOMAIN cdmem = 0 .. (cdreq.size \div SECS) - 1
    /\ \A i \in DOMAIN cdmem \ lost : i < cdio.p => cdmem[i] = cdreq.dblk \div SECS + i
\* A drive that was added is the one read and the one the kernel is told; one that was
\* refused is opened as unit -1, of which nothing is ever delivered (bc_open, bc_getdev).
RightDrive ==
    /\ bc.unit # -1 => /\ bc_unit2bios(bc.unit) = bc.boot
                       /\ (IF bc.pc98 THEN pc98_bc_getdev(bc.unit) ELSE i386_bc_getdev(bc.unit)) # "none"
    /\ bc.unit = -1 /\ cdio.state = "done" => DOMAIN cdmem = lost
CdSafe == CdDelivered /\ RightDrive
\* A disk transfer that is reported as done has put every sector where it belongs; one of a
\* CD all those of the pieces that were read in three tries, while the others are reported
\* too; whatever the size of the bounce buffer and the calls that fail.
TransfersSafe == IoSafe /\ CdSafe
=============================================================================
