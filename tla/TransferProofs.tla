--------------------------- MODULE TransferProofs ---------------------------
(***************************************************************************)
(* Theorems about the transfers of biosdisk.c and bioscd.c, for every       *)
(* geometry, every place and size of the buffers and every sequence of       *)
(* calls that fail half way: what has been moved is where it belongs.        *)
(***************************************************************************)
EXTENDS BiosCd, SequenceTheorems, TLAPS

Sectors == 0 .. Size - 1
Within == 0 .. req.blks - 1

DriveOK ==
    /\ od \in [pc98 : BOOLEAN, cyls : Nat, hds : Nat \ {0}, sec : Nat \ {0}, floppy : BOOLEAN,
               edd : BOOLEAN, platter : {od.platter}]
    /\ od.platter \in [Sectors -> Int]
RequestOK ==
    /\ req \in [dblk : Nat, blks : Nat, buf : Nat, write : BOOLEAN]
    /\ memory \in [Within -> Int]
    /\ io \in [state : {"idle", "loop", "done", "failed"}, dblk : Nat, resid : Nat, p : Nat, retry : Nat,
               maxfer : Nat, breg : Int]
    /\ io.state = "idle" => req = NoReq /\ io.p = 0

\* Where the loop is, and where its pieces go.
LoopOK ==
    io.state = "loop" =>
        /\ req.dblk + req.blks <= Size
        /\ io.p + io.resid = req.blks /\ io.dblk = req.dblk + io.p
        /\ req.buf < LOW => req.buf + req.blks <= LOW
        /\ ~Bounced(req) => io.maxfer = 0 /\ io.breg = Junk
        /\ Bounced(req) => /\ io.maxfer = BounceSize(req) /\ io.maxfer > 0
                           /\ \E at \in 0 .. SEG - 1 : io.breg = Bounce(req, at)

\* A read has filled the buffer up to p with the blocks asked for, and beyond it with nothing
\* else; a write has done the same to the platter.
ReadSoFar ==
    ~req.write =>
        /\ \A b \in Sectors : od.platter[b] = b
        /\ \A i \in Within : IF i < io.p THEN memory[i] = req.dblk + i ELSE memory[i] \in {Junk, req.dblk + i}
WrittenSoFar ==
    req.write =>
        /\ \A i \in Within : memory[i] = Data(i) /\ (i < io.p => od.platter[req.dblk + i] = Data(i))
        /\ \A b \in Sectors : b \notin Asked => od.platter[b] = b
Finished == io.state = "done" => io.p = req.blks

IoInv == DriveOK /\ RequestOK /\ LoopOK /\ ReadSoFar /\ WrittenSoFar /\ Finished

-----------------------------------------------------------------------------
CdBlks == cdreq.size \div SECS
Started == cdio.state \in {"loop", "done"}
CdTypes ==
    /\ cdreq \in [dblk : Nat, size : Nat, buf : Nat, write : BOOLEAN]
    /\ cdio \in [state : {"start", "added", "idle", "loop", "done", "EINVAL", "EROFS"}, dblk : Nat, resid : Nat,
                 p : Nat, retry : 0 .. 2, maxfer : Nat, bbuf : {cdio.bbuf}]
    /\ bc \in [pc98 : BOOLEAN, info : Seq(Nat), boot : Nat, unit : Int]
\* The one drive that may have been added is the one the loader was started from.
Added == /\ bc.info = <<>> \/ bc.info = <<bc.boot>>
         /\ bc.unit = -1 \/ (bc.unit = 0 /\ bc.info = <<bc.boot>>)
         /\ cdio.state = "start" => bc.info = <<>> /\ bc.unit = -1
CdLoopOK ==
    /\ Started =>
        /\ cdio.p + cdio.resid = CdBlks /\ cdio.dblk = cdreq.dblk \div SECS + cdio.p
        /\ DOMAIN cdmem = 0 .. CdBlks - 1
        /\ cdio.maxfer > 0 => DOMAIN cdio.bbuf = 1 .. cdio.maxfer
        /\ \A i \in DOMAIN cdmem \ lost : i < cdio.p => cdmem[i] = cdreq.dblk \div SECS + i
        /\ lost \subseteq 0 .. cdio.p - 1
        /\ bc.unit = -1 => lost = 0 .. cdio.p - 1
    /\ ~Started => cdmem = <<>>
    /\ cdio.state = "done" => cdio.resid = 0

CdInv == CdTypes /\ Added /\ CdLoopOK

-----------------------------------------------------------------------------
(* The CD. *)

\* What a unit number stands for.
LEMMA CdUnit ==
    ASSUME CdTypes, Added
    PROVE  /\ bc.info = <<>> => bc_bios2unit(bc.boot) = -1
           /\ bc.info = <<bc.boot>> => bc_bios2unit(bc.boot) = 0
           /\ bc.unit = -1 => bc_unit2bios(bc.unit) = -1
           /\ bc.unit = 0 => bc_unit2bios(bc.unit) = bc.boot
  <1>1. bc.boot \in Nat
      BY DEF CdTypes
  <1>2. ASSUME bc.info = <<>>
        PROVE  bc_bios2unit(bc.boot) = -1 /\ bc_unit2bios(-1) = -1
      BY <1>2 DEF bc_bios2unit, bc_unit2bios, CdUnits
  <1>3. ASSUME bc.info = <<bc.boot>>
        PROVE  bc_bios2unit(bc.boot) = 0 /\ bc_unit2bios(-1) = -1 /\ bc_unit2bios(0) = bc.boot
    <2>1. CdUnits = {1} /\ bc.info[1] = bc.boot
        BY <1>3 DEF CdUnits
    <2>2. (CHOOSE i \in CdUnits : bc.info[i] = bc.boot /\ \A j \in CdUnits : bc.info[j] = bc.boot => i <= j) = 1
        BY <2>1
    <2>3. bc_bios2unit(bc.boot) = 0
        BY <2>1, <2>2 DEF bc_bios2unit
    <2>4. bc_unit2bios(-1) = -1 /\ bc_unit2bios(0) = bc.boot
        BY <2>1 DEF bc_unit2bios
    <2> QED BY <2>3, <2>4
  <1> QED BY <1>2, <1>3 DEF Added

LEMMA CdAdding == ASSUME CdInv, NEW d \in BootDrives, bc_add(d) PROVE CdInv'
  <1>1. CdTypes /\ Added /\ CdLoopOK /\ d \in Nat
      BY CdAssumption DEF CdInv
  <1>2. /\ cdio.state = "start" /\ cdio' = [cdio EXCEPT !.state = "added"] /\ UNCHANGED <<cdreq, cdmem, lost>>
        /\ bc.info = <<>> /\ bc.unit = -1
      BY <1>1 DEF bc_add, Added
  <1>3. /\ bc' = [bc EXCEPT !.info = <<>>, !.boot = d] \/ bc' = [bc EXCEPT !.info = <<d>>, !.boot = d]
    <2>1. Append(bc.info, d) = <<d>>
        BY <1>2
    <2> QED BY <1>2, <2>1 DEF bc_add
  <1>4. /\ bc'.pc98 \in BOOLEAN /\ bc'.info \in Seq(Nat) /\ bc'.boot = d /\ bc'.unit = -1
        /\ bc'.info = <<>> \/ bc'.info = <<d>>
        /\ bc' \in [pc98 : BOOLEAN, info : Seq(Nat), boot : Nat, unit : Int]
    <2>1. \A l \in {<<>>, <<d>>} : l \in Seq(Nat)
      <3>1. <<>> \in Seq(Nat) /\ <<d>> \in Seq(Nat)
          BY <1>1
      <3> QED BY <3>1
    <2>2. PICK l \in {<<>>, <<d>>} : bc' = [bc EXCEPT !.info = l, !.boot = d]
        BY <1>3
    <2> QED BY <1>1, <1>2, <2>1, <2>2 DEF CdTypes
  <1>5. CdTypes' /\ Added' /\ cdio'.state = "added"
      BY <1>1, <1>2, <1>4 DEF CdTypes, Added
  <1>6. CdLoopOK'
      BY <1>1, <1>2, <1>5 DEF CdLoopOK, Started
  <1> QED BY <1>5, <1>6 DEF CdInv

LEMMA CdOpening == ASSUME CdInv, bc_open PROVE CdInv'
  <1>1. CdTypes /\ Added /\ CdLoopOK
      BY DEF CdInv
  <1>2. /\ cdio.state = "added" /\ cdio' = [cdio EXCEPT !.state = "idle"] /\ UNCHANGED <<cdreq, cdmem, lost>>
        /\ bc' = [bc EXCEPT !.unit = bc_bios2unit(bc.boot)]
      BY DEF bc_open
  <1>3. \/ bc.info = <<>> /\ bc' = [bc EXCEPT !.unit = -1]
        \/ bc.info = <<bc.boot>> /\ bc' = [bc EXCEPT !.unit = 0]
      BY <1>1, <1>2, CdUnit DEF Added
  <1>4. CdTypes' /\ Added' /\ cdio'.state = "idle"
    <2>1. PICK u \in {-1, 0} : bc' = [bc EXCEPT !.unit = u] /\ (u = -1 \/ bc.info = <<bc.boot>>)
        BY <1>3
    <2>2. /\ bc' \in [pc98 : BOOLEAN, info : Seq(Nat), boot : Nat, unit : Int]
          /\ bc'.unit = u /\ bc'.info = bc.info /\ bc'.boot = bc.boot
        BY <1>1, <2>1 DEF CdTypes
    <2>3. CdTypes' /\ cdio'.state = "idle"
        BY <1>1, <1>2, <2>2 DEF CdTypes
    <2> QED BY <1>1, <2>1, <2>2, <2>3 DEF Added
  <1>5. CdLoopOK'
      BY <1>1, <1>2, <1>4 DEF CdLoopOK, Started
  <1> QED BY <1>4, <1>5 DEF CdInv

LEMMA CdAsking ==
    ASSUME CdInv, NEW r \in [dblk : Nat, size : Nat, buf : Nat, write : BOOLEAN], CdStrategy(r) PROVE CdInv'
  <1>1. CdTypes /\ Added /\ CdLoopOK /\ SECS \in Nat \ {0} /\ CD_BOUNCEBUF \in Nat \ {0}
      BY CdAssumption DEF CdInv
  <1>2. cdreq' = r /\ bc' = bc /\ cdio.state # "start"
      BY DEF CdStrategy
  <1>3. ASSUME NEW e \in {"EINVAL", "EROFS"}, CdError(e) PROVE CdInv'
    <2>1. cdio' = [NoCd EXCEPT !.state = e] /\ cdmem' = <<>>
        BY <1>3 DEF CdError
    <2>2. cdio'.state = e /\ CdTypes'
      <3>1. 0 \in 0 .. 2 /\ 0 \in Nat
          OBVIOUS
      <3> QED BY <1>1, <1>2, <1>3, <2>1, <3>1 DEF CdTypes, NoCd
    <2>3. Added' /\ CdLoopOK'
        BY <1>1, <1>2, <2>1, <2>2 DEF Added, CdLoopOK, Started
    <2> QED BY <2>2, <2>3 DEF CdInv
  <1> DEFINE blks == r.size \div SECS
  <1>4. ASSUME cdmem' = [i \in 0 .. blks - 1 |-> CdJunk], lost' = {}, NEW max \in Nat,
               cdio' = [state |-> IF blks = 0 THEN "done" ELSE "loop", dblk |-> r.dblk \div SECS, resid |-> blks,
                        p |-> 0, retry |-> 0, maxfer |-> max, bbuf |-> [i \in 1 .. max |-> CdJunk]]
        PROVE  CdInv'
    <2>1. blks \in Nat /\ r.dblk \div SECS \in Nat
        BY <1>1
    <2>2. CdBlks' = blks /\ cdreq'.dblk = r.dblk
        BY <1>2 DEF CdBlks
    <2> HIDE DEF blks
    <2>3. /\ cdio'.state = (IF blks = 0 THEN "done" ELSE "loop") /\ cdio'.dblk = r.dblk \div SECS /\ cdio'.resid = blks
          /\ cdio'.p = 0 /\ cdio'.maxfer = max /\ cdio'.bbuf = [i \in 1 .. max |-> CdJunk]
        BY <1>4
    <2>4. CdTypes'
        BY <1>1, <1>2, <1>4, <2>1 DEF CdTypes
    <2>5. Added'
        BY <1>1, <1>2, <2>3 DEF Added
    <2>6. CdLoopOK'
        BY <1>2, <1>4, <2>1, <2>2, <2>3 DEF CdLoopOK, Started
    <2> QED BY <2>4, <2>5, <2>6 DEF CdInv
  <1>5. CASE r.size % SECS # 0 \/ r.write \/ r.dblk % SECS # 0
      BY <1>3, <1>5 DEF CdStrategy
  <1>6. CASE ~(r.size % SECS # 0 \/ r.write \/ r.dblk % SECS # 0)
    <2>1. blks \in Nat
        BY <1>1
    <2>2. PICK max \in {IF r.buf < CDLOW THEN 0 ELSE IF blks < CD_BOUNCEBUF THEN blks ELSE CD_BOUNCEBUF} :
             cdio' = [state |-> IF blks = 0 THEN "done" ELSE "loop", dblk |-> r.dblk \div SECS, resid |-> blks,
                      p |-> 0, retry |-> 0, maxfer |-> max, bbuf |-> [i \in 1 .. max |-> CdJunk]]
        BY <1>6 DEF CdStrategy
    <2>3. max \in Nat
        BY <1>1, <2>1
    <2>4. cdmem' = [i \in 0 .. blks - 1 |-> CdJunk] /\ lost' = {}
        BY <1>6 DEF CdStrategy
    <2> QED BY <1>4, <2>2, <2>3, <2>4
  <1> QED BY <1>5, <1>6

LEMMA CdPieceSize ==
    ASSUME CdInv, cdio.state = "loop", cdio.resid > 0
    PROVE  /\ CdPiece \in Nat /\ CdPiece > 0 /\ CdPiece <= cdio.resid
           /\ cdio.maxfer > 0 => CdPiece <= cdio.maxfer
  BY DEF CdInv, CdTypes, CdPiece

\* What a piece leaves behind when it has been moved or given up.
LEMMA CdGoesOn ==
    ASSUME CdInv, cdio.state = "loop", cdio.resid > 0, NEW n \in Nat, n <= CdPiece,
           cdmem' = CdStore(CdMoved(n)), cdio' = CdAdvanced(CdBbuf(n)), UNCHANGED <<bc, cdreq>>,
           \/ n = CdPiece /\ lost' = lost /\ bc.unit # -1
           \/ lost' = lost \union (cdio.p .. cdio.p + CdPiece - 1)
    PROVE  CdInv'
  <1>1. CdTypes /\ Added /\ CdLoopOK
      BY DEF CdInv
  <1> PICK x \in Nat : x = CdPiece
      BY CdPieceSize
  <1> PICK p \in Nat : p = cdio.p
      BY <1>1 DEF CdTypes
  <1> PICK m \in Nat : m = CdBlks
    <2>1. cdreq.size \in Nat /\ SECS \in Nat \ {0}
        BY <1>1, CdAssumption DEF CdTypes
    <2> QED BY <2>1 DEF CdBlks
  <1> PICK d \in Nat : d = cdreq.dblk \div SECS
    <2>1. cdreq.dblk \in Nat /\ SECS \in Nat \ {0}
        BY <1>1, CdAssumption DEF CdTypes
    <2> QED BY <2>1
  <1>2. /\ x > 0 /\ x <= cdio.resid /\ (cdio.maxfer > 0 => x <= cdio.maxfer) /\ cdio.resid \in Nat
        /\ p + cdio.resid = m /\ cdio.dblk = d + p /\ cdio.maxfer \in Nat
        /\ DOMAIN cdmem = 0 .. m - 1 /\ (cdio.maxfer > 0 => DOMAIN cdio.bbuf = 1 .. cdio.maxfer)
        /\ lost \subseteq 0 .. p - 1 /\ (bc.unit = -1 => lost = 0 .. p - 1)
        /\ \A i \in DOMAIN cdmem \ lost : i < p => cdmem[i] = d + i
      BY <1>1, CdPieceSize DEF CdLoopOK, Started, CdTypes
  <1> PICK q \in Nat : q = cdio.resid
      BY <1>2
  <1>0. x > 0 /\ x <= q /\ p + q = m
      BY <1>2
  <1>3. /\ cdio'.state = "loop" /\ cdio'.p = p + x /\ cdio'.dblk = d + p + x /\ cdio'.resid = cdio.resid - x
        /\ cdio'.maxfer = cdio.maxfer /\ cdio'.bbuf = CdBbuf(n)
        /\ cdio'.retry = 0
      BY <1>1, <1>2 DEF CdAdvanced, CdTypes
  <1>4. CdTypes'
    <2>1. cdio.resid - x \in Nat /\ p + x \in Nat /\ d + p + x \in Nat /\ 0 \in 0 .. 2
        BY <1>0
    <2>2. cdio' \in [state : {"start", "added", "idle", "loop", "done", "EINVAL", "EROFS"}, dblk : Nat, resid : Nat,
                     p : Nat, retry : 0 .. 2, maxfer : Nat, bbuf : {CdBbuf(n)}]
        BY <1>1, <1>2, <2>1 DEF CdAdvanced, CdTypes
    <2> QED BY <1>1, <1>3, <2>2 DEF CdTypes
  <1>5. Added'
      BY <1>1, <1>3 DEF Added
  <1>6. \A i \in p .. p + x - 1 : i \in 0 .. m - 1
      BY <1>2
  <1>7. cdmem' = [i \in 0 .. m - 1 |-> IF i \in p .. p + x - 1 THEN CdMoved(n)[i - p + 1] ELSE cdmem[i]]
    <2>1. DOMAIN cdmem \union (p .. p + x - 1) = 0 .. m - 1
        BY <1>2, <1>6
    <2> QED BY <2>1 DEF CdStore
  <1>8. DOMAIN cdmem' = 0 .. m - 1 /\ \A i \in 0 .. m - 1 : i \notin p .. p + x - 1 => cdmem'[i] = cdmem[i]
      BY <1>7
  <1>9. ASSUME n = x, NEW i \in p .. p + x - 1 PROVE cdmem'[i] = d + i
    <2>1. cdmem'[i] = CdMoved(x)[i - p + 1] /\ i - p + 1 \in 1 .. x
      <3>1. i \in 0 .. m - 1
          BY <1>6, <1>9
      <3>2. cdmem'[i] = CdMoved(x)[i - p + 1]
          BY <1>7, <1>9, <3>1
      <3>3. p \in Nat /\ x \in Nat /\ i \in Int /\ p <= i /\ i <= p + x - 1
          BY <1>2, <1>9
      <3>4. i - p + 1 \in 1 .. x
          BY <3>3
      <3> QED BY <3>2, <3>4
    <2>2. \A k \in 1 .. x : CdMoved(x)[k] = CdSector(k - 1)
      <3>1. CASE cdio.maxfer > 0
        <4>1. \A k \in 1 .. x : k \in DOMAIN cdio.bbuf /\ k <= x
          <5>1. cdio.maxfer \in Nat /\ x <= cdio.maxfer /\ DOMAIN cdio.bbuf = 1 .. cdio.maxfer
              BY <1>2, <3>1
          <5> QED BY <5>1
        <4> QED BY <3>1, <4>1 DEF CdMoved
      <3>2. CASE ~(cdio.maxfer > 0)
          BY <3>2 DEF CdMoved
      <3> QED BY <3>1, <3>2
    <2>3. CdSector((i - p + 1) - 1) = d + i
      <3>1. cdio.dblk = d + p /\ i \in Nat
          BY <1>2
      <3> QED BY <3>1 DEF CdSector
    <2> QED BY <2>1, <2>2, <2>3
  <1>10. CdBlks' = m /\ (cdreq.dblk \div SECS)' = d
      BY DEF CdBlks
  <1>11. (p + x) + (cdio.resid - x) = m /\ d + p + x = d + (p + x)
      BY <1>0
  <1>12. cdio.maxfer > 0 => DOMAIN CdBbuf(n) = 1 .. cdio.maxfer
      BY <1>2 DEF CdBbuf, CdMoved
  <1>13. \A i \in (0 .. m - 1) \ lost' : i < p + x => cdmem'[i] = d + i
    <2> SUFFICES ASSUME NEW i \in (0 .. m - 1) \ lost', i < p + x PROVE cdmem'[i] = d + i
        OBVIOUS
    <2>1. CASE i < p
      <3>1. i \notin p .. p + x - 1 /\ i \notin lost
          BY <2>1
      <3> QED BY <1>2, <1>8, <2>1, <3>1
    <2>2. CASE ~(i < p)
      <3>1. i \in p .. p + x - 1
          BY <2>2
      <3> QED BY <1>9, <3>1
    <2> QED BY <2>1, <2>2
  <1>14. lost' \subseteq 0 .. p + x - 1 /\ (bc.unit = -1 => lost' = 0 .. p + x - 1)
    <2>1. p .. p + x - 1 \subseteq 0 .. p + x - 1 /\ 0 .. p - 1 \subseteq 0 .. p + x - 1
        BY <1>0
    <2>2. 0 .. p + x - 1 = (0 .. p - 1) \union (p .. p + x - 1)
        BY <1>0
    <2> QED BY <1>2, <2>1, <2>2
  <1>15. CdLoopOK'
    <2>1. (cdio.p + cdio.resid = CdBlks /\ cdio.dblk = cdreq.dblk \div SECS + cdio.p)'
        BY <1>3, <1>10, <1>11
    <2>2. (DOMAIN cdmem = 0 .. CdBlks - 1 /\ (cdio.maxfer > 0 => DOMAIN cdio.bbuf = 1 .. cdio.maxfer))'
        BY <1>3, <1>8, <1>10, <1>12
    <2>3. (\A i \in DOMAIN cdmem \ lost : i < cdio.p => cdmem[i] = cdreq.dblk \div SECS + i)'
        BY <1>3, <1>8, <1>10, <1>13
    <2>4. (lost \subseteq 0 .. cdio.p - 1 /\ (bc.unit = -1 => lost = 0 .. cdio.p - 1))'
        BY <1>3, <1>14
    <2> QED BY <1>3, <2>1, <2>2, <2>3, <2>4 DEF CdLoopOK, Started
  <1> QED BY <1>4, <1>5, <1>15 DEF CdInv

\* A try that fails and is followed by another.
LEMMA CdTriesAgain ==
    ASSUME CdInv, cdio.state = "loop", cdio.resid > 0, cdio.retry < 2, NEW n \in Nat, n <= CdPiece,
           cdmem' = (IF cdio.maxfer = 0 THEN CdStore(CdMoved(n)) ELSE cdmem),
           cdio' = [cdio EXCEPT !.retry = @ + 1, !.bbuf = CdBbuf(n)], UNCHANGED <<bc, cdreq, lost>>
    PROVE  CdInv'
  <1>1. CdTypes /\ Added /\ CdLoopOK
      BY DEF CdInv
  <1>2. /\ CdPiece \in Nat /\ CdPiece <= cdio.resid /\ cdio.resid \in Nat /\ cdio.p \in Nat /\ CdBlks \in Nat
        /\ cdio.p + cdio.resid = CdBlks /\ DOMAIN cdmem = 0 .. CdBlks - 1
    <2>1. cdreq.size \in Nat /\ SECS \in Nat \ {0}
        BY <1>1, CdAssumption DEF CdTypes
    <2>2. CdBlks \in Nat
        BY <2>1 DEF CdBlks
    <2> QED BY <1>1, <2>2, CdPieceSize DEF CdLoopOK, Started, CdTypes
  <1>3. /\ cdio'.state = "loop" /\ cdio'.p = cdio.p /\ cdio'.dblk = cdio.dblk /\ cdio'.resid = cdio.resid
        /\ cdio'.maxfer = cdio.maxfer /\ cdio'.bbuf = CdBbuf(n)
      BY <1>1 DEF CdTypes
  <1>4. CdTypes'
    <2>1. cdio' \in [state : {"start", "added", "idle", "loop", "done", "EINVAL", "EROFS"}, dblk : Nat, resid : Nat,
                     p : Nat, retry : 0 .. 2, maxfer : Nat, bbuf : {CdBbuf(n)}]
      <3>1. cdio.retry \in 0 .. 2
          BY <1>1 DEF CdTypes
      <3>2. cdio.retry + 1 \in 0 .. 2
          BY <3>1
      <3> QED BY <1>1, <3>2 DEF CdTypes
    <2> QED BY <1>1, <1>3, <2>1 DEF CdTypes
  <1>5. Added'
      BY <1>1, <1>3 DEF Added
  <1>6. DOMAIN cdmem' = DOMAIN cdmem /\ \A i \in DOMAIN cdmem : i < cdio.p => cdmem'[i] = cdmem[i]
    <2>1. DOMAIN cdmem \union (cdio.p .. cdio.p + CdPiece - 1) = DOMAIN cdmem
      <3>1. cdio.p .. cdio.p + CdPiece - 1 \subseteq 0 .. CdBlks - 1
          BY <1>2
      <3> QED BY <1>2, <3>1
    <2>2. \A i \in DOMAIN cdmem : i < cdio.p => i \notin cdio.p .. cdio.p + CdPiece - 1
        BY <1>2
    <2> QED BY <2>1, <2>2 DEF CdStore
  <1>7. cdio.maxfer > 0 => DOMAIN CdBbuf(n) = 1 .. cdio.maxfer
      BY <1>1 DEF CdBbuf, CdMoved, CdLoopOK, Started
  <1>8. CdBlks' = CdBlks /\ UNCHANGED <<cdreq, bc, lost>>
      BY DEF CdBlks
  <1>9. CdLoopOK'
      BY <1>1, <1>3, <1>6, <1>7, <1>8 DEF CdLoopOK, Started
  <1> QED BY <1>4, <1>5, <1>9 DEF CdInv

LEMMA CdEnding == ASSUME CdInv, CdDone PROVE CdInv'
  <1>1. CdTypes /\ Added /\ CdLoopOK
      BY DEF CdInv
  <1>2. /\ cdio.state = "loop" /\ cdio.resid = 0 /\ cdio' = [cdio EXCEPT !.state = "done"]
        /\ UNCHANGED <<bc, cdreq, cdmem, lost>>
      BY DEF CdDone
  <1>3. /\ CdTypes' /\ cdio'.state = "done" /\ cdio'.p = cdio.p /\ cdio'.dblk = cdio.dblk /\ cdio'.resid = cdio.resid
        /\ cdio'.maxfer = cdio.maxfer /\ cdio'.bbuf = cdio.bbuf
      BY <1>1, <1>2 DEF CdTypes
  <1>4. Added'
      BY <1>1, <1>2, <1>3 DEF Added
  <1>5. CdLoopOK'
      BY <1>1, <1>2, <1>3 DEF CdLoopOK, Started, CdBlks
  <1> QED BY <1>3, <1>4, <1>5 DEF CdInv

LEMMA CdInvInductive == CdInv /\ [CdNext]_cdvars => CdInv'
  <1> SUFFICES ASSUME CdInv, [CdNext]_cdvars PROVE CdInv'
      OBVIOUS
  <1>1. CASE UNCHANGED cdvars
      BY <1>1 DEF cdvars, CdInv, CdTypes, Added, CdLoopOK, Started, CdBlks
  <1>2. ASSUME NEW b \in CdBlocks, NEW n \in CdSizes, NEW a \in CdBufs, NEW w \in BOOLEAN,
               CdStrategy([dblk |-> b, size |-> n, buf |-> a, write |-> w])
        PROVE  CdInv'
    <2>1. [dblk |-> b, size |-> n, buf |-> a, write |-> w] \in [dblk : Nat, size : Nat, buf : Nat, write : BOOLEAN]
        BY CdAssumption
    <2> QED BY <1>2, <2>1, CdAsking
  <1>3. CASE CdWorks
    <2>1. /\ cdio.state = "loop" /\ cdio.resid > 0 /\ bc_unit2bios(bc.unit) # -1
          /\ cdmem' = CdStore(CdMoved(CdPiece)) /\ cdio' = CdAdvanced(CdBbuf(CdPiece)) /\ UNCHANGED <<bc, cdreq, lost>>
        BY <1>3 DEF CdWorks
    <2>2. bc.unit # -1
        BY <2>1, CdUnit DEF CdInv
    <2>3. CdPiece \in Nat /\ CdPiece <= CdPiece
        BY <2>1, CdPieceSize
    <2> QED BY <2>1, <2>2, <2>3, CdGoesOn
  <1>4. CASE CdFails
    <2>1. cdio.state = "loop" /\ cdio.resid > 0 /\ UNCHANGED <<bc, cdreq>>
        BY <1>4 DEF CdFails
    <2>2. PICK n \in 0 .. CdPiece - 1 :
             /\ cdmem' = IF cdio.maxfer = 0 \/ cdio.retry = 2 THEN CdStore(CdMoved(n)) ELSE cdmem
             /\ cdio' = IF cdio.retry < 2 THEN [cdio EXCEPT !.retry = @ + 1, !.bbuf = CdBbuf(n)] ELSE CdAdvanced(CdBbuf(n))
        BY <1>4 DEF CdFails
    <2>3. n \in Nat /\ n <= CdPiece
        BY <2>1, CdPieceSize
    <2>4. lost' = IF cdio.retry < 2 THEN lost ELSE lost \union (cdio.p .. cdio.p + CdPiece - 1)
        BY <1>4 DEF CdFails
    <2>5. CASE cdio.retry < 2
      <3>1. cdio.retry # 2
          BY <2>5
      <3> QED BY <2>1, <2>2, <2>3, <2>4, <2>5, <3>1, CdTriesAgain
    <2>6. CASE ~(cdio.retry < 2)
      <3>1. cdio.retry \in 0 .. 2
          BY DEF CdInv, CdTypes
      <3>2. cdio.retry = 2
          BY <2>6, <3>1
      <3> QED BY <2>1, <2>2, <2>3, <2>4, <2>6, <3>2, CdGoesOn
    <2> QED BY <2>5, <2>6
  <1> QED BY <1>1, <1>2, <1>3, <1>4, CdAdding, CdOpening, CdEnding
          DEF CdNext, bc_strategy, pc98_bc_strategy, bc_read, pc98_bc_read

LEMMA CdInitInv == CdInit => CdInv
  BY DEF CdInit, CdInv, CdTypes, Added, CdLoopOK, Started, NoCd

LEMMA CdInvSafe == CdInv => CdSafe
  <1> SUFFICES ASSUME CdInv PROVE CdSafe
      OBVIOUS
  <1>1. CdTypes /\ Added /\ CdLoopOK
      BY DEF CdInv
  <1>2. CdDelivered
    <2>1. CASE Started
        BY <1>1, <2>1 DEF CdLoopOK, Started, CdDelivered, CdBlks
    <2>2. CASE ~Started
        BY <1>1, <2>2 DEF CdLoopOK, Started, CdDelivered
    <2> QED BY <2>1, <2>2
  <1>3. RightDrive
    <2>1. ASSUME bc.unit # -1
          PROVE  /\ bc_unit2bios(bc.unit) = bc.boot
                 /\ (IF bc.pc98 THEN pc98_bc_getdev(bc.unit) ELSE i386_bc_getdev(bc.unit)) # "none"
      <3>1. bc_unit2bios(bc.unit) = bc.boot /\ bc.boot \in Nat
          BY <1>1, <2>1, CdUnit DEF Added, CdTypes
      <3>2. bc.boot # -1
          BY <3>1
      <3> QED BY <3>1, <3>2 DEF pc98_bc_getdev, i386_bc_getdev
    <2>2. ASSUME bc.unit = -1, cdio.state = "done" PROVE DOMAIN cdmem = lost
      <3>1. /\ DOMAIN cdmem = 0 .. CdBlks - 1 /\ lost = 0 .. cdio.p - 1 /\ cdio.p + cdio.resid = CdBlks
            /\ cdio.resid = 0 /\ cdio.p \in Nat
          BY <1>1, <2>2 DEF CdLoopOK, Started, CdTypes
      <3> QED BY <3>1
    <2> QED BY <2>1, <2>2 DEF RightDrive
  <1> QED BY <1>2, <1>3 DEF CdSafe

-----------------------------------------------------------------------------
(* The disk. *)

LEMMA Divided ==
    ASSUME NEW x \in Nat, NEW n \in Nat \ {0}
    PROVE  /\ x \div n \in Nat /\ x % n \in Nat /\ x % n < n
           /\ x = n * (x \div n) + (x % n)
  OBVIOUS

\* Cylinder, head and sector give back the block they were made from.
LEMMA RoundTrip ==
    ASSUME NEW d \in Nat, NEW h \in Nat \ {0}, NEW s \in Nat \ {0}
    PROVE  (((d \div (s * h)) * h) + ((d % (s * h)) \div s)) * s + ((d % (s * h)) % s) = d
  <1>1. s * h \in Nat \ {0}
      OBVIOUS
  <1> PICK c \in Nat : c = d \div (s * h)
      BY <1>1, Divided
  <1> PICK r \in Nat : r = d % (s * h)
      BY <1>1, Divided
  <1> PICK a \in Nat : a = r \div s
      BY Divided
  <1> PICK b \in Nat : b = r % s
      BY Divided
  <1>2. d = (s * h) * c + r
      BY <1>1, Divided
  <1>3. r = s * a + b
      BY Divided
  <1>4. ((c * h) + a) * s + b = (s * h) * c + (s * a + b)
    <2>1. ((c * h) + a) * s = (c * h) * s + a * s
        OBVIOUS
    <2>2. (c * h) * s = (s * h) * c /\ a * s = s * a
      <3>1. \A u, v \in Nat : u * v = v * u
          OBVIOUS
      <3>2. \A u, v, w \in Nat : (u * v) * w = (w * v) * u
          OBVIOUS
      <3> QED BY <3>1, <3>2
    <2>3. (s * h) * c \in Nat /\ s * a \in Nat
        OBVIOUS
    <2> QED BY <2>1, <2>2, <2>3
  <1> QED BY <1>2, <1>3, <1>4

\* Addresses that lie between two of one segment are in it.
LEMMA SameSegment ==
    ASSUME NEW a \in Nat, NEW b \in Nat, NEW c \in Nat, a <= b, b <= c, a \div SEG = c \div SEG
    PROVE  b \div SEG = a \div SEG
  <1>1. SEG \in Nat \ {0}
      BY IoAssumption
  <1> PICK q \in Nat : q = a \div SEG
      BY <1>1, Divided
  <1> PICK k \in Nat : k = b \div SEG
      BY <1>1, Divided
  <1>2. SEG * q <= a /\ c < SEG * q + SEG
    <2>1. a = SEG * q + (a % SEG) /\ c = SEG * q + (c % SEG) /\ a % SEG \in Nat /\ c % SEG \in Nat /\ c % SEG < SEG
        BY <1>1, Divided
    <2>2. SEG * q \in Nat
        BY <1>1
    <2> QED BY <1>1, <2>1, <2>2
  <1>3. SEG * k <= b /\ b < SEG * k + SEG
    <2>1. b = SEG * k + (b % SEG) /\ b % SEG \in Nat /\ b % SEG < SEG
        BY <1>1, Divided
    <2>2. SEG * k \in Nat
        BY <1>1
    <2> QED BY <1>1, <2>1, <2>2
  <1>4. SEG * k < SEG * (q + 1) /\ SEG * q < SEG * (k + 1)
    <2>1. SEG * q \in Nat /\ SEG * k \in Nat /\ SEG * (q + 1) = SEG * q + SEG /\ SEG * (k + 1) = SEG * k + SEG
        BY <1>1
    <2> QED BY <1>1, <1>2, <1>3, <2>1
  <1>5. \A u, v \in Nat : SEG * u < SEG * v => u < v
      BY <1>1
  <1>6. k < q + 1 /\ q < k + 1
      BY <1>4, <1>5
  <1> QED BY <1>6

InSegment(t, n) == t \div SEG = (t + n - 1) \div SEG

\* The half of the bounce buffer that is used lies in one segment.
LEMMA BounceInSegment ==
    ASSUME NEW at \in Nat, NEW x \in Nat \ {0}, SEG >= 2 * x, NEW n \in Nat \ {0}, n <= x,
           NEW t \in Nat, (Crosses(at, x) /\ t = at + x) \/ (~Crosses(at, x) /\ t = at)
    PROVE  InSegment(t, n)
  <1>1. SEG \in Nat \ {0} /\ t + n - 1 \in Nat /\ t <= t + n - 1
      BY IoAssumption
  <1>2. CASE ~Crosses(at, x)
    <2>1. t + n - 1 <= at + x /\ at + x \in Nat /\ t = at
        BY <1>2
    <2>2. at \div SEG = (at + x) \div SEG
        BY <1>2 DEF Crosses
    <2>3. (t + n - 1) \div SEG = at \div SEG
        BY <1>1, <2>1, <2>2, SameSegment
    <2> QED BY <2>1, <2>3 DEF InSegment
  <1>3. CASE Crosses(at, x)
    <2>1. t = at + x /\ at \div SEG # (at + x) \div SEG
        BY <1>3 DEF Crosses
    <2> PICK q \in Nat : q = (at + x) \div SEG
        BY <1>1, Divided
    <2> PICK k \in Nat : k = at \div SEG
        BY <1>1, Divided
    <2> PICK o \in Nat : o = (at + x) % SEG
        BY <1>1, Divided
    <2>2. at + x = SEG * q + o /\ o < SEG /\ SEG * q \in Nat
        BY <1>1, Divided
    <2>3. at < SEG * q
      <3> SUFFICES ASSUME SEG * q <= at PROVE FALSE
          BY <2>2
      <3>1. SEG * q \in Nat /\ (SEG * q) \div SEG = q
          BY <1>1
      <3>2. (SEG * q) \div SEG = (at + x) \div SEG /\ at <= at + x
          BY <3>1
      <3>3. at \div SEG = (SEG * q) \div SEG
          BY <3>1, <3>2, SameSegment
      <3> QED BY <2>1, <3>1, <3>3
    <2>4. o < x /\ o + n - 1 < SEG /\ o + n - 1 \in Nat
        BY <1>1, <2>2, <2>3
    <2>5. t + n - 1 = SEG * q + (o + n - 1)
        BY <2>1, <2>2
    <2>6. \A y \in Nat : y < SEG => (SEG * q + y) \div SEG = q
        BY <1>1
    <2>7. (t + n - 1) \div SEG = q
        BY <2>4, <2>5, <2>6
    <2> QED BY <2>1, <2>7 DEF InSegment
  <1> QED BY <1>2, <1>3

LEMMA DriveFacts ==
    ASSUME DriveOK
    PROVE  /\ od.cyls \in Nat /\ od.hds \in Nat \ {0} /\ od.sec \in Nat \ {0} /\ Size \in Nat
           /\ DOMAIN od.platter = Sectors
  <1>1. od.cyls \in Nat /\ od.hds \in Nat \ {0} /\ od.sec \in Nat \ {0}
      BY DEF DriveOK
  <1>2. \A c, h, s \in Nat : (c * h) * s \in Nat
      OBVIOUS
  <1> QED BY <1>1, <1>2 DEF DriveOK, Size

LEMMA AddressIsBlock == ASSUME DriveOK, io.dblk \in Nat PROVE Address.lba = io.dblk
  <1>1. od.hds \in Nat \ {0} /\ od.sec \in Nat \ {0}
      BY DriveFacts
  <1> PICK d \in Nat : d = io.dblk
      OBVIOUS
  <1> DEFINE s == od.sec
             h == od.hds
             t == (d % (s * h)) % s
             c == ((d \div (s * h)) * h) + ((d % (s * h)) \div s)
  <1>2. c * s + t = d
      BY <1>1, RoundTrip
  <1>3. t \in Nat /\ c * s \in Int
    <2>1. s * h \in Nat \ {0} /\ s \in Nat \ {0}
        BY <1>1
    <2>2. d % (s * h) \in Nat /\ d \div (s * h) \in Nat
        BY <2>1, Divided
    <2>3. t \in Nat /\ (d % (s * h)) \div s \in Nat
        BY <2>1, <2>2, Divided
    <2>4. c \in Nat
        BY <1>1, <2>2, <2>3
    <2> QED BY <2>1, <2>3, <2>4
  <1>4. bd_chs_io(d).lba = c * s + (t + 1) - 1
      BY DEF bd_chs_io
  <1>5. \A f \in {0, 1} : pc98_chs_io(d).lba = c * s + (t + f) - f \/ f # (IF od.floppy THEN 1 ELSE 0)
      BY DEF pc98_chs_io
  <1>6. bd_edd_io(d).lba = d
      BY DEF bd_edd_io
  <1> HIDE DEF c, s, t
  <1>7. c * s + (t + 1) - 1 = d /\ c * s + (t + 0) - 0 = d
      BY <1>2, <1>3
  <1>8. pc98_chs_io(d).lba = d
      BY <1>5, <1>7
  <1> QED BY <1>4, <1>6, <1>7, <1>8 DEF Address

LEMMA PieceSize ==
    ASSUME IoInv, io.state = "loop", io.resid > 0
    PROVE  /\ Piece \in Nat /\ Piece > 0 /\ Piece <= io.resid
           /\ (io.dblk % od.sec) + Piece <= od.sec
           /\ io.maxfer > 0 => Piece <= io.maxfer
  <1>1. od.sec \in Nat \ {0} /\ io.dblk \in Nat /\ io.resid \in Nat /\ io.maxfer \in Nat
      BY DriveFacts DEF IoInv, RequestOK
  <1> PICK o \in Nat : o = io.dblk % od.sec /\ o < od.sec
      BY <1>1, Divided
  <1>2. od.sec - o \in Nat /\ od.sec - o > 0
      BY <1>1
  <1> QED BY <1>1, <1>2 DEF Piece, Min2

\* Where the loop is.
LEMMA LoopFacts ==
    ASSUME IoInv, io.state = "loop", io.resid > 0
    PROVE  /\ io.p \in Nat /\ io.resid \in Nat /\ io.dblk \in Nat /\ req.dblk \in Nat /\ req.blks \in Nat /\ Size \in Nat
           /\ io.p + io.resid = req.blks /\ io.dblk = req.dblk + io.p /\ req.dblk + req.blks <= Size
           /\ DOMAIN memory = Within /\ DOMAIN od.platter = Sectors /\ Address.lba = io.dblk
           /\ \A i \in io.p .. io.p + Piece - 1 :
                 /\ i \in Within
                 /\ Address.lba + i - io.p = req.dblk + i /\ req.dblk + i \in Sectors
  <1>1. /\ io.p \in Nat /\ io.resid \in Nat /\ io.dblk \in Nat /\ req.dblk \in Nat /\ req.blks \in Nat /\ Size \in Nat
        /\ DOMAIN memory = Within /\ DOMAIN od.platter = Sectors
      BY DriveFacts DEF IoInv, RequestOK
  <1>2. io.p + io.resid = req.blks /\ io.dblk = req.dblk + io.p /\ req.dblk + req.blks <= Size
      BY DEF IoInv, LoopOK
  <1>3. Address.lba = io.dblk
      BY <1>1, AddressIsBlock DEF IoInv
  <1>4. ASSUME NEW i \in io.p .. io.p + Piece - 1
        PROVE  i \in Within /\ Address.lba + i - io.p = req.dblk + i /\ req.dblk + i \in Sectors
    <2>1. Piece \in Nat /\ Piece <= io.resid
        BY PieceSize
    <2>2. i \in Nat /\ i < req.blks
        BY <1>1, <1>2, <2>1
    <2>3. i \in 0 .. req.blks - 1 /\ req.dblk + i \in 0 .. Size - 1
        BY <1>1, <1>2, <2>2
    <2>4. io.dblk + i - io.p = req.dblk + i
        BY <1>1, <1>2, <2>2
    <2> QED BY <1>3, <2>3, <2>4 DEF Within, Sectors
  <1> QED BY <1>1, <1>2, <1>3, <1>4

\* The first n sectors of a piece are read.
LEMMA ReadStep ==
    ASSUME IoInv, io.state = "loop", io.resid > 0, ~req.write, NEW n \in Nat, n <= Piece, UNCHANGED <<od, req>>,
           io'.p = io.p \/ io'.p = io.p + n,
           memory' = [i \in DOMAIN memory |->
                        IF i \in io.p .. io.p + n - 1 THEN od.platter[Address.lba + i - io.p] ELSE memory[i]]
    PROVE  ReadSoFar' /\ WrittenSoFar' /\ DriveOK' /\ memory' \in [Within' -> Int]
  <1>1. DriveOK /\ RequestOK /\ ReadSoFar
      BY DEF IoInv
  <1> PICK p \in Nat : p = io.p
      BY LoopFacts
  <1>2. /\ DOMAIN memory = Within /\ Piece \in Nat /\ req.dblk \in Nat /\ req.blks \in Nat
        /\ \A i \in p .. p + Piece - 1 : i \in Within /\ Address.lba + i - p = req.dblk + i /\ req.dblk + i \in Sectors
      BY LoopFacts, PieceSize
  <1>3. Within' = Within /\ Sectors' = Sectors /\ DriveOK'
      BY <1>1 DEF Within, Sectors, Size, DriveOK
  <1>4. \A i \in p .. p + n - 1 : i \in p .. p + Piece - 1
      BY <1>2
  <1>5. \A b \in Sectors : od.platter[b] = b
      BY <1>1 DEF ReadSoFar
  <1>6. \A i \in p .. p + n - 1 : i \in Within /\ memory'[i] = req.dblk + i
    <2> TAKE i \in p .. p + n - 1
    <2>1. i \in Within /\ Address.lba + i - p = req.dblk + i /\ req.dblk + i \in Sectors
        BY <1>2, <1>4
    <2>2. memory'[i] = od.platter[req.dblk + i]
        BY <1>2, <2>1
    <2> QED BY <1>5, <2>1, <2>2
  <1>7. \A i \in Within : i \notin p .. p + n - 1 => memory'[i] = memory[i]
      BY <1>2
  <1>8. ASSUME NEW i \in Within
        PROVE  IF i < io'.p THEN memory'[i] = req.dblk + i ELSE memory'[i] \in {Junk, req.dblk + i}
    <2>1. CASE i \in p .. p + n - 1
        BY <1>6, <2>1
    <2>2. CASE i \notin p .. p + n - 1
      <3>1. i \in Nat
          BY <1>2 DEF Within
      <3>2. i < io'.p => i < p
          BY <2>2, <3>1
      <3>3. IF i < p THEN memory[i] = req.dblk + i ELSE memory[i] \in {Junk, req.dblk + i}
          BY <1>1 DEF ReadSoFar
      <3> QED BY <1>7, <2>2, <3>2, <3>3
    <2> QED BY <2>1, <2>2
  <1>9. memory' \in [Within -> Int]
    <2>1. \A i \in Within : memory'[i] \in Int
      <3> TAKE i \in Within
      <3>1. i \in Int /\ memory[i] \in Int /\ req.dblk + i \in Int
          BY <1>1, <1>2 DEF Within, RequestOK
      <3> QED BY <1>6, <1>7, <3>1
    <2>2. memory' = [i \in Within |-> memory'[i]]
        BY <1>2
    <2> QED BY <2>1, <2>2
  <1> QED BY <1>3, <1>5, <1>8, <1>9 DEF ReadSoFar, WrittenSoFar

\* The first n sectors of a piece are written.
LEMMA WriteStep ==
    ASSUME IoInv, io.state = "loop", io.resid > 0, req.write, NEW n \in Nat, n <= Piece, UNCHANGED <<memory, req>>,
           io'.p = io.p \/ io'.p = io.p + n,
           od' = [od EXCEPT !.platter = [b \in DOMAIN od.platter |->
                    IF b \in Address.lba .. Address.lba + n - 1 THEN memory[io.p + b - Address.lba] ELSE od.platter[b]]]
    PROVE  ReadSoFar' /\ WrittenSoFar' /\ DriveOK' /\ memory' \in [Within' -> Int]
  <1>1. DriveOK /\ RequestOK /\ WrittenSoFar
      BY DEF IoInv
  <1> PICK p \in Nat : p = io.p
      BY LoopFacts
  <1> PICK d \in Nat : d = req.dblk
      BY LoopFacts
  <1>2. /\ DOMAIN memory = Within /\ Piece \in Nat /\ req.blks \in Nat /\ Address.lba = d + p /\ Size \in Nat
        /\ DOMAIN od.platter = Sectors /\ p + io.resid = req.blks /\ io.resid \in Nat /\ Piece <= io.resid
        /\ \A i \in p .. p + Piece - 1 : i \in Within /\ d + i \in Sectors
      BY LoopFacts, PieceSize
  <1> DEFINE f == [b \in Sectors |-> IF b \in d + p .. d + p + n - 1 THEN memory[p + b - (d + p)] ELSE od.platter[b]]
  <1>3. od' = [od EXCEPT !.platter = f]
      BY <1>2
  <1>4. \A b \in d + p .. d + p + n - 1 : p + b - (d + p) = b - d /\ b - d \in p .. p + n - 1 /\ b - d \in p .. p + Piece - 1
      BY <1>2
  <1>5. \A b \in d + p .. d + p + n - 1 : b - d \in Within /\ memory[p + b - (d + p)] = Data(b - d)
      BY <1>1, <1>2, <1>4 DEF WrittenSoFar
  <1>6. \A b \in Sectors : f[b] = IF b \in d + p .. d + p + n - 1 THEN Data(b - d) ELSE od.platter[b]
      BY <1>5
  <1>7. f \in [Sectors -> Int]
    <2>1. \A b \in Sectors : f[b] \in Int
      <3> TAKE b \in Sectors
      <3>1. b \in Int /\ od.platter[b] \in Int
          BY <1>1, <1>2 DEF Sectors, DriveOK
      <3>2. Data(b - d) \in Int
          BY <3>1 DEF Data
      <3> QED BY <1>6, <3>1, <3>2
    <2> QED BY <2>1
  <1> HIDE DEF f
  <1>8. /\ od'.cyls = od.cyls /\ od'.hds = od.hds /\ od'.sec = od.sec /\ od'.platter = f
        /\ od' \in [pc98 : BOOLEAN, cyls : Nat, hds : Nat \ {0}, sec : Nat \ {0}, floppy : BOOLEAN,
                    edd : BOOLEAN, platter : {f}]
      BY <1>1, <1>3 DEF DriveOK
  <1>9. Size' = Size /\ Sectors' = Sectors /\ Within' = Within /\ Asked' = Asked
      BY <1>8 DEF Size, Sectors, Within, Asked
  <1>10. DriveOK'
      BY <1>1, <1>7, <1>8, <1>9 DEF DriveOK
  <1>11. \A i \in Within : i < io'.p => f[d + i] = Data(i)
    <2> SUFFICES ASSUME NEW i \in Within, i < io'.p PROVE f[d + i] = Data(i)
        OBVIOUS
    <2>1. i \in Nat /\ d + i \in Sectors /\ (d + i) - d = i
      <3>1. req.dblk + req.blks <= Size /\ i \in 0 .. req.blks - 1
          BY LoopFacts DEF Within
      <3>2. req.blks \in Nat /\ Size \in Nat
          BY LoopFacts
      <3>3. i \in Nat /\ d + i \in 0 .. Size - 1 /\ (d + i) - d = i
          BY <3>1, <3>2
      <3> QED BY <3>3 DEF Sectors
    <2>2. CASE i < p
      <3>1. d + i \notin d + p .. d + p + n - 1
          BY <2>1, <2>2
      <3>2. od.platter[d + i] = Data(i)
          BY <1>1, <2>2 DEF WrittenSoFar
      <3> QED BY <1>6, <2>1, <3>1, <3>2
    <2>3. CASE ~(i < p)
      <3>1. d + i \in d + p .. d + p + n - 1
          BY <2>1, <2>3
      <3> QED BY <1>6, <2>1, <3>1
    <2> QED BY <2>2, <2>3
  <1>12. \A b \in Sectors : b \notin Asked => f[b] = b
    <2> SUFFICES ASSUME NEW b \in Sectors, b \notin Asked PROVE f[b] = b
        OBVIOUS
    <2>1. b \notin d + p .. d + p + n - 1
      <3>1. p + n <= req.blks
          BY <1>2
      <3>2. \A y \in d + p .. d + p + n - 1 : y \in d .. d + req.blks - 1
          BY <1>2, <3>1
      <3> QED BY <3>2 DEF Asked
    <2> QED BY <1>1, <1>6, <2>1 DEF WrittenSoFar
  <1>13. WrittenSoFar'
      BY <1>1, <1>8, <1>9, <1>11, <1>12 DEF WrittenSoFar
  <1> QED BY <1>1, <1>9, <1>10, <1>13 DEF ReadSoFar, RequestOK

LEMMA Asking ==
    ASSUME IoInv, NEW b \in Blocks, NEW n \in Lengths, NEW a \in Bufs, NEW w \in BOOLEAN, NEW at \in 0 .. SEG - 1,
           Request([dblk |-> b, blks |-> n, buf |-> a, write |-> w], at)
    PROVE  IoInv'
  <1> DEFINE r == [dblk |-> b, blks |-> n, buf |-> a, write |-> w]
  <1>1. DriveOK /\ RequestOK /\ ReadSoFar /\ WrittenSoFar /\ b \in Nat /\ n \in Nat /\ a \in Nat
        /\ (a < LOW => a + n <= LOW) /\ SEG \in Nat \ {0} /\ BOUNCE \in Nat \ {0}
      BY IoAssumption DEF IoInv
  <1>2. /\ io.state = "idle" /\ r.dblk + r.blks <= Size /\ req' = r /\ od' = od
        /\ memory' = [i \in 0 .. n - 1 |-> IF w THEN Data(i) ELSE Junk]
      BY DEF Request
  <1>3. /\ io'.state = (IF n = 0 THEN "done" ELSE "loop") /\ io'.dblk = b /\ io'.resid = n /\ io'.p = 0 /\ io'.retry = 0
        /\ io'.maxfer = (IF Bounced(r) THEN BounceSize(r) ELSE 0)
        /\ io'.breg = (IF Bounced(r) THEN Bounce(r, at) ELSE Junk)
      BY DEF Request
  <1>4. BounceSize(r) \in Nat /\ Bounce(r, at) \in Nat /\ (n # 0 => BounceSize(r) > 0)
    <2>1. od.sec \in Nat \ {0}
        BY <1>1, DriveFacts
    <2>2. BounceSize(r) \in Nat /\ (n # 0 => BounceSize(r) > 0)
        BY <1>1, <2>1 DEF BounceSize, Min2
    <2> QED BY <1>1, <2>2 DEF Bounce
  <1>5. io' = [state |-> IF n = 0 THEN "done" ELSE "loop", dblk |-> b, resid |-> n, p |-> 0, retry |-> 0,
               maxfer |-> IF Bounced(r) THEN BounceSize(r) ELSE 0,
               breg |-> IF Bounced(r) THEN Bounce(r, at) ELSE Junk]
      BY DEF Request
  <1>6. Within' = 0 .. n - 1 /\ Sectors' = Sectors /\ Size' = Size
      BY <1>2 DEF Within, Sectors, Size
  <1>7. DriveOK'
      BY <1>1, <1>2, <1>6 DEF DriveOK
  <1>8. RequestOK'
    <2>1. req' \in [dblk : Nat, blks : Nat, buf : Nat, write : BOOLEAN]
        BY <1>1, <1>2
    <2>2. memory' \in [0 .. n - 1 -> Int]
        BY <1>2 DEF Data, Junk
    <2>3. io' \in [state : {"idle", "loop", "done", "failed"}, dblk : Nat, resid : Nat, p : Nat, retry : Nat,
                   maxfer : Nat, breg : Int]
      <3>1. (IF Bounced(r) THEN BounceSize(r) ELSE 0) \in Nat /\ (IF Bounced(r) THEN Bounce(r, at) ELSE Junk) \in Int
          BY <1>4 DEF Junk
      <3> QED BY <1>1, <1>5, <3>1
    <2> QED BY <1>3, <1>6, <2>1, <2>2, <2>3 DEF RequestOK
  <1>9. \A x \in Sectors : od.platter[x] = x
    <2>1. ~req.write
        BY <1>1, <1>2 DEF RequestOK, NoReq
    <2> QED BY <1>1, <2>1 DEF ReadSoFar
  <1>10. ReadSoFar' /\ WrittenSoFar'
      BY <1>2, <1>3, <1>6, <1>9 DEF ReadSoFar, WrittenSoFar
  <1>11. /\ Bounced(req)' = Bounced(r) /\ BounceSize(req)' = BounceSize(r)
         /\ Bounce(req, at)' = Bounce(r, at)
      BY <1>2 DEF Bounced, i386_Bounced, pc98_Bounced, BounceSize, Bounce
  <1>12. LoopOK'
    <2> SUFFICES ASSUME n # 0 PROVE LoopOK'
        BY <1>3 DEF LoopOK
    <2>1. (req.dblk + req.blks <= Size /\ io.p + io.resid = req.blks /\ io.dblk = req.dblk + io.p
           /\ (req.buf < LOW => req.buf + req.blks <= LOW))'
        BY <1>1, <1>2, <1>3, <1>6
    <2>2. Bounced(r) => (io.maxfer = BounceSize(req) /\ io.maxfer > 0 /\ \E y \in 0 .. SEG - 1 : io.breg = Bounce(req, y))'
        BY <1>3, <1>4, <1>11
    <2>3. ~Bounced(r) => (io.maxfer = 0 /\ io.breg = Junk)'
        BY <1>3
    <2> QED BY <1>11, <2>1, <2>2, <2>3 DEF LoopOK
  <1>13. Finished'
      BY <1>2, <1>3 DEF Finished
  <1> QED BY <1>7, <1>8, <1>10, <1>12, <1>13 DEF IoInv

\* What the loop computes from the drive and the request stays as it is.
LEMMA LoopStays ==
    ASSUME LoopOK, io.state = "loop", io'.state = "loop", req' = req, NEW n \in Nat, n <= io.resid,
           io.p \in Nat, io.resid \in Nat, io.dblk \in Nat, req.dblk \in Nat,
           od'.cyls = od.cyls, od'.hds = od.hds, od'.sec = od.sec, od'.pc98 = od.pc98, od'.floppy = od.floppy,
           io'.p = io.p + n, io'.resid = io.resid - n, io'.dblk = io.dblk + n,
           io'.maxfer = io.maxfer, io'.breg = io.breg
    PROVE  LoopOK'
  <1>1. Size' = Size
      BY DEF Size
  <1>2. Bounced(req)' = Bounced(req)
      BY DEF Bounced, i386_Bounced, pc98_Bounced
  <1>3. BounceSize(req)' = BounceSize(req)
      BY DEF BounceSize
  <1>4. \A at \in 0 .. SEG - 1 : Bounce(req, at)' = Bounce(req, at)
      BY <1>3 DEF Bounce
  <1>5. io.p + io.resid = req.blks /\ io.dblk = req.dblk + io.p
      BY DEF LoopOK
  <1>6. io'.p + io'.resid = req'.blks /\ io'.dblk = req'.dblk + io'.p
      BY <1>5
  <1>7. /\ (req.dblk + req.blks <= Size)' /\ (req.buf < LOW => req.buf + req.blks <= LOW)'
        /\ (~Bounced(req) => io.maxfer = 0 /\ io.breg = Junk)'
      BY <1>1, <1>2 DEF LoopOK
  <1>8. ASSUME Bounced(req) PROVE (io.maxfer = BounceSize(req) /\ io.maxfer > 0 /\ \E at \in 0 .. SEG - 1 : io.breg = Bounce(req, at))'
      BY <1>3, <1>4, <1>8 DEF LoopOK
  <1> QED BY <1>2, <1>6, <1>7, <1>8 DEF LoopOK

LEMMA Working == ASSUME IoInv, Works PROVE IoInv'
  <1>1. DriveOK /\ RequestOK /\ LoopOK /\ io.state = "loop" /\ io.resid > 0 /\ req' = req /\ io' = Moved(Piece)
      BY DEF IoInv, Works
  <1>2. Piece \in Nat /\ Piece > 0 /\ Piece <= io.resid
      BY <1>1, PieceSize
  <1> PICK n \in Nat : n = Piece
      BY <1>2
  <1>3. io \in [state : {"idle", "loop", "done", "failed"}, dblk : Nat, resid : Nat, p : Nat, retry : Nat,
                maxfer : Nat, breg : Int]
      BY <1>1 DEF RequestOK
  <1>4. /\ io'.state = "loop" /\ io'.p = io.p + n /\ io'.resid = io.resid - n /\ io'.dblk = io.dblk + n
        /\ io'.maxfer = io.maxfer /\ io'.breg = io.breg
      BY <1>1, <1>3 DEF Moved
  <1>5. /\ io' \in [state : {"idle", "loop", "done", "failed"}, dblk : Nat, resid : Nat, p : Nat, retry : Nat,
                    maxfer : Nat, breg : Int]
    <2>1. io.p + n \in Nat /\ io.resid - n \in Nat /\ io.dblk + n \in Nat
        BY <1>2, <1>3
    <2> QED BY <1>1, <1>3, <2>1 DEF Moved
  <1>6. /\ od'.cyls = od.cyls /\ od'.hds = od.hds /\ od'.sec = od.sec /\ od'.pc98 = od.pc98 /\ od'.floppy = od.floppy
    <2>1. od' = od \/ \E f : od' = [od EXCEPT !.platter = f]
        BY DEF Works
    <2> QED BY <1>1, <2>1 DEF DriveOK
  <1>7. LoopOK'
      BY <1>1, <1>2, <1>3, <1>4, <1>6, LoopStays DEF RequestOK
  <1>8. ReadSoFar' /\ WrittenSoFar' /\ DriveOK' /\ memory' \in [Within' -> Int]
    <2>1. CASE req.write
      <3>1. /\ memory' = memory
            /\ od' = [od EXCEPT !.platter = [b \in DOMAIN od.platter |->
                       IF b \in Address.lba .. Address.lba + n - 1 THEN memory[io.p + b - Address.lba] ELSE od.platter[b]]]
          BY <2>1 DEF Works
      <3> QED BY <1>1, <1>2, <1>4, <2>1, <3>1, WriteStep
    <2>2. CASE ~req.write
      <3>1. /\ od' = od
            /\ memory' = [i \in DOMAIN memory |->
                  IF i \in io.p .. io.p + n - 1 THEN od.platter[Address.lba + i - io.p] ELSE memory[i]]
          BY <2>2 DEF Works
      <3> QED BY <1>1, <1>2, <1>4, <2>2, <3>1, ReadStep
    <2> QED BY <2>1, <2>2
  <1>9. RequestOK'
      BY <1>1, <1>4, <1>5, <1>8 DEF RequestOK
  <1>10. Finished'
      BY <1>4 DEF Finished
  <1> QED BY <1>7, <1>8, <1>9, <1>10 DEF IoInv

LEMMA Failing == ASSUME IoInv, Fails PROVE IoInv'
  <1>1. DriveOK /\ RequestOK /\ LoopOK /\ io.state = "loop" /\ io.resid > 0 /\ req' = req
      BY DEF IoInv, Fails
  <1>2. Piece \in Nat /\ Piece > 0 /\ Piece <= io.resid
      BY <1>1, PieceSize
  <1>3. PICK done \in 0 .. Piece - 1 :
            /\ memory' = IF req.write \/ io.breg # Junk THEN memory
                         ELSE [i \in DOMAIN memory |-> IF Address.ok /\ i \in io.p .. io.p + done - 1
                                                        THEN od.platter[Address.lba + i - io.p] ELSE memory[i]]
            /\ od' = IF ~req.write \/ ~Address.ok THEN od
                     ELSE [od EXCEPT !.platter = [b \in DOMAIN od.platter |->
                            IF b \in Address.lba .. Address.lba + done - 1 THEN memory[io.p + b - Address.lba] ELSE od.platter[b]]]
      BY DEF Fails
  <1>4. done \in Nat /\ done <= Piece
      BY <1>2
  <1>5. io \in [state : {"idle", "loop", "done", "failed"}, dblk : Nat, resid : Nat, p : Nat, retry : Nat,
                maxfer : Nat, breg : Int]
      BY <1>1 DEF RequestOK
  <1>6. /\ io' \in [state : {"idle", "loop", "done", "failed"}, dblk : Nat, resid : Nat, p : Nat, retry : Nat,
                    maxfer : Nat, breg : Int]
        /\ io'.state \in {"loop", "failed"} /\ io'.p = io.p /\ io'.resid = io.resid /\ io'.dblk = io.dblk
        /\ io'.maxfer = io.maxfer /\ io'.breg = io.breg
    <2>1. io' = IF io.retry = 2 THEN [io EXCEPT !.state = "failed"] ELSE [io EXCEPT !.retry = io.retry + 1]
        BY DEF Fails
    <2>2. io.retry + 1 \in Nat
        BY <1>5
    <2> QED BY <1>1, <1>5, <2>1, <2>2
  <1>7. DOMAIN memory = Within /\ DOMAIN od.platter = Sectors /\ io.p \in Nat /\ Address.lba \in Nat
      BY <1>1, LoopFacts
  <1>9. ReadSoFar' /\ WrittenSoFar' /\ DriveOK' /\ memory' \in [Within' -> Int]
    <2>1. CASE req.write /\ Address.ok
      <3>1. memory' = memory
          BY <1>3, <2>1
      <3> QED BY <1>1, <1>3, <1>4, <1>6, <2>1, <3>1, WriteStep
    <2>2. CASE ~req.write /\ io.breg = Junk /\ Address.ok
      <3>1. memory' = [i \in DOMAIN memory |-> IF i \in io.p .. io.p + done - 1
                                               THEN od.platter[Address.lba + i - io.p] ELSE memory[i]]
          BY <1>3, <2>2
      <3> QED BY <1>1, <1>3, <1>4, <1>6, <2>2, <3>1, ReadStep
    \* Nothing has been moved.
    <2>3. CASE (req.write /\ ~Address.ok) \/ (~req.write /\ (io.breg # Junk \/ ~Address.ok))
      <3>1. memory \in [Within -> Int]
          BY <1>1 DEF RequestOK
      <3>2. memory' = memory
        <4>1. [i \in DOMAIN memory |-> memory[i]] = memory
            BY <3>1
        <4> QED BY <1>3, <2>3, <4>1
      <3>3. od' = od
          BY <1>3, <2>3
      <3>4. Within' = Within /\ Sectors' = Sectors /\ Asked' = Asked /\ DriveOK'
          BY <1>1, <3>3 DEF Within, Sectors, Size, Asked, DriveOK
      <3> QED BY <1>1, <1>6, <3>1, <3>2, <3>3, <3>4 DEF IoInv, ReadSoFar, WrittenSoFar
    <2> QED BY <2>1, <2>2, <2>3
  <1>10. LoopOK'
    <2>1. CASE io'.state = "loop"
      <3>1. /\ od'.cyls = od.cyls /\ od'.hds = od.hds /\ od'.sec = od.sec /\ od'.pc98 = od.pc98 /\ od'.floppy = od.floppy
        <4>1. od' = od \/ \E f : od' = [od EXCEPT !.platter = f]
            BY <1>3
        <4> QED BY <1>1, <4>1 DEF DriveOK
      <3>2. io'.p = io.p + 0 /\ io'.resid = io.resid - 0 /\ io'.dblk = io.dblk + 0 /\ 0 \in Nat /\ 0 <= io.resid
            /\ io.p \in Nat /\ io.resid \in Nat /\ io.dblk \in Nat /\ req.dblk \in Nat
          BY <1>1, <1>5, <1>6 DEF RequestOK
      <3> QED BY <1>1, <1>6, <2>1, <3>1, <3>2, LoopStays
    <2>2. CASE io'.state # "loop"
        BY <2>2 DEF LoopOK
    <2> QED BY <2>1, <2>2
  <1>11. RequestOK'
      BY <1>1, <1>6, <1>9 DEF RequestOK
  <1>12. Finished'
      BY <1>6 DEF Finished
  <1> QED BY <1>9, <1>10, <1>11, <1>12 DEF IoInv

LEMMA Returning == ASSUME IoInv, Returns PROVE IoInv'
  <1>1. io.state = "loop" /\ io.resid = 0 /\ od' = od /\ req' = req /\ memory' = memory
        /\ io' = [io EXCEPT !.state = "done"]
      BY DEF Returns
  <1>2. DriveOK /\ RequestOK /\ LoopOK /\ ReadSoFar /\ WrittenSoFar
      BY DEF IoInv
  <1>3. io'.state = "done" /\ io'.p = io.p
      BY <1>1, <1>2 DEF RequestOK
  <1>4. Within' = Within /\ Sectors' = Sectors /\ Asked' = Asked /\ DriveOK'
      BY <1>1, <1>2 DEF Within, Sectors, Size, Asked, DriveOK
  <1>5. RequestOK'
      BY <1>1, <1>2, <1>4 DEF RequestOK
  <1>6. ReadSoFar' /\ WrittenSoFar' /\ LoopOK'
      BY <1>1, <1>2, <1>3, <1>4 DEF ReadSoFar, WrittenSoFar, LoopOK
  <1>7. Finished'
      BY <1>1, <1>2, <1>3 DEF LoopOK, RequestOK, Finished
  <1> QED BY <1>4, <1>5, <1>6, <1>7 DEF IoInv

LEMMA IoInvInductive == IoInv /\ [IoNext]_iovars => IoInv'
  <1> SUFFICES ASSUME IoInv, [IoNext]_iovars PROVE IoInv'
      OBVIOUS
  <1>1. CASE UNCHANGED iovars
    <2>1. od' = od /\ req' = req /\ io' = io /\ memory' = memory
        BY <1>1 DEF iovars
    <2>2. Within' = Within /\ Sectors' = Sectors /\ Asked' = Asked /\ Size' = Size
        BY <2>1 DEF Within, Sectors, Size, Asked
    <2>3. DriveOK' /\ RequestOK' /\ ReadSoFar' /\ WrittenSoFar' /\ Finished'
        BY <2>1, <2>2 DEF IoInv, DriveOK, RequestOK, ReadSoFar, WrittenSoFar, Finished
    <2>4. LoopOK'
        BY <2>1, <2>2 DEF IoInv, LoopOK, Bounced, i386_Bounced, pc98_Bounced, BounceSize, Bounce
    <2> QED BY <2>3, <2>4 DEF IoInv
  <1>2. ASSUME NEW b \in Blocks, NEW n \in Lengths, NEW a \in Bufs, NEW w \in BOOLEAN, NEW at \in 0 .. SEG - 1,
               LET r == [dblk |-> b, blks |-> n, buf |-> a, write |-> w] IN bd_realstrategy(r, at) \/ pc98_realstrategy(r, at)
        PROVE  IoInv'
      BY <1>2, Asking DEF bd_realstrategy, pc98_realstrategy
  <1> QED BY <1>1, <1>2, Working, Failing, Returning DEF IoNext

LEMMA IoInitInv == IoInit => IoInv
  <1> SUFFICES ASSUME IoInit PROVE IoInv
      OBVIOUS
  <1>1. PICK g \in Geometries, floppy \in BOOLEAN, edd \in BOOLEAN, pc98 \in BOOLEAN :
            od = [pc98 |-> pc98, cyls |-> g.cyls, hds |-> g.hds, sec |-> g.sec, floppy |-> floppy, edd |-> edd,
                  platter |-> [b \in 0 .. (g.cyls * g.hds * g.sec) - 1 |-> b]]
      BY DEF IoInit
  <1>2. req = NoReq /\ io = Idle /\ memory = [i \in {} |-> Junk]
      BY DEF IoInit
  <1>3. g \in [cyls : Nat, hds : Nat \ {0}, sec : Nat \ {0}]
      BY IoAssumption
  <1>4. Sectors = 0 .. (g.cyls * g.hds * g.sec) - 1
      BY <1>1 DEF Sectors, Size
  <1>5. od.platter = [b \in Sectors |-> b]
      BY <1>1, <1>4
  <1>6. \A b \in Sectors : b \in Int
    <2>1. Size \in Int
      <3>1. \A c, h, s \in Nat : (c * h) * s \in Nat
          OBVIOUS
      <3>2. Size = (g.cyls * g.hds) * g.sec
          BY <1>1 DEF Size
      <3> QED BY <1>3, <3>1, <3>2
    <2> QED BY <2>1 DEF Sectors
  <1>7. DriveOK
      BY <1>1, <1>3, <1>5, <1>6 DEF DriveOK
  <1>8. Within = {}
      BY <1>2 DEF Within, NoReq
  <1>9. RequestOK
    <2>1. memory \in [Within -> Int]
        BY <1>2, <1>8
    <2>2. NoReq \in [dblk : Nat, blks : Nat, buf : Nat, write : BOOLEAN]
        BY DEF NoReq
    <2>3. Idle \in [state : {"idle", "loop", "done", "failed"}, dblk : Nat, resid : Nat, p : Nat, retry : Nat,
                    maxfer : Nat, breg : Int] /\ Idle.p = 0
        BY DEF Idle, Junk
    <2> QED BY <1>2, <2>1, <2>2, <2>3 DEF RequestOK
  <1>10. ReadSoFar
      BY <1>5, <1>8 DEF ReadSoFar
  <1> QED BY <1>2, <1>7, <1>9, <1>10 DEF IoInv, LoopOK, WrittenSoFar, Finished, Idle, NoReq

\* What the BIOS is asked for in a round of the loop.
LEMMA IoAddressable == IoInv => Addressable
  <1> SUFFICES ASSUME IoInv, io.state = "loop", io.resid > 0
               PROVE  /\ Piece > 0
                      /\ io.breg = Junk => Target < LOW
                      /\ (od.floppy \/ od.pc98) /\ ~LongTrack => Target \div SEG = (Target + Piece - 1) \div SEG
                      /\ ~od.edd => (io.dblk % od.sec) + Piece <= od.sec
      BY DEF Addressable
  <1>1. Piece \in Nat /\ Piece > 0 /\ Piece <= io.resid /\ (io.dblk % od.sec) + Piece <= od.sec
        /\ (io.maxfer > 0 => Piece <= io.maxfer)
      BY PieceSize
  <1>2. io.p \in Nat /\ io.resid \in Nat /\ req.blks \in Nat /\ io.p + io.resid = req.blks /\ req.buf \in Nat
      BY LoopFacts DEF IoInv, RequestOK
  <1>3. SEG \in Nat \ {0} /\ BOUNCE \in Nat \ {0} /\ SEG >= 2 * BOUNCE /\ LOW \in Nat
      BY IoAssumption
  <1>4. od.sec \in Nat \ {0}
      BY DriveFacts DEF IoInv, DriveOK
  <1>5. CASE Bounced(req)
    <2>1. io.maxfer = BounceSize(req) /\ io.maxfer > 0
        BY <1>5 DEF IoInv, LoopOK
    <2>2. PICK at \in 0 .. SEG - 1 : io.breg = Bounce(req, at)
        BY <1>5 DEF IoInv, LoopOK
    <2> PICK x \in Nat \ {0} : x = BounceSize(req)
      <3>1. BounceSize(req) \in Nat
          BY <1>2, <1>3, <1>4 DEF BounceSize, Min2
      <3>2. BounceSize(req) <= od.sec \/ BounceSize(req) <= BOUNCE
          BY <1>2, <1>3, <1>4 DEF BounceSize, Min2
      <3> QED BY <1>3, <1>4, <2>1, <3>1, <3>2
    <2>3. at \in Nat
        BY <1>3
    <2>4. io.breg = (IF Crosses(at, x) THEN at + x ELSE at) /\ io.breg \in Nat /\ io.breg # Junk
        BY <2>2, <2>3 DEF Bounce, Junk
    <2>5. Piece \in Nat \ {0} /\ Piece <= x
        BY <1>1, <2>1
    <2> PICK t \in Nat : t = io.breg
        BY <2>4
    <2> PICK k \in Nat \ {0} : k = Piece
        BY <2>5
    <2>6. ASSUME ~LongTrack PROVE InSegment(t, k)
      <3>0. SEG >= 2 * x
          BY <1>3, <2>1, <2>4, <2>6 DEF LongTrack
      <3>1. ((Crosses(at, x) /\ t = at + x) \/ (~Crosses(at, x) /\ t = at)) /\ k <= x /\ SEG >= 2 * x
          BY <2>4, <2>5, <3>0
      <3> QED BY <2>3, <3>1, BounceInSegment
    <2> QED BY <1>1, <2>4, <2>6 DEF Target, InSegment
  <1>6. CASE ~Bounced(req)
    <2>1. io.breg = Junk /\ Target = req.buf + io.p /\ (req.buf < LOW => req.buf + req.blks <= LOW)
        BY <1>6 DEF IoInv, LoopOK, Target
    <2>2. req.buf < LOW /\ (od.floppy \/ od.pc98 => ~Crosses(req.buf, req.blks))
        BY <1>2, <1>3, <1>6 DEF Bounced, i386_Bounced, pc98_Bounced
    <2>3. Target < LOW
        BY <1>2, <1>3, <2>1, <2>2
    <2>4. ASSUME od.floppy \/ od.pc98 PROVE Target \div SEG = (Target + Piece - 1) \div SEG
      <3>1. req.buf \div SEG = (req.buf + req.blks) \div SEG
          BY <2>2, <2>4 DEF Crosses
      <3>2. /\ req.buf <= Target /\ Target <= req.buf + req.blks /\ Target + Piece - 1 <= req.buf + req.blks
            /\ req.buf <= Target + Piece - 1 /\ Target \in Nat /\ Target + Piece - 1 \in Nat /\ req.buf + req.blks \in Nat
          BY <1>1, <1>2, <2>1
      <3>3. Target \div SEG = req.buf \div SEG
          BY <1>2, <3>1, <3>2, SameSegment
      <3>4. (Target + Piece - 1) \div SEG = req.buf \div SEG
          BY <1>2, <3>1, <3>2, SameSegment
      <3> QED BY <3>3, <3>4
    <2> QED BY <1>1, <2>3, <2>4
  <1> QED BY <1>5, <1>6

LEMMA IoInvSafe == IoInv => IoSafe
  <1> SUFFICES ASSUME IoInv PROVE IoSafe
      OBVIOUS
  <1>1. DriveOK /\ RequestOK /\ ReadSoFar /\ WrittenSoFar /\ Finished
      BY DEF IoInv
  <1>2. DOMAIN memory = Within /\ DOMAIN od.platter = Sectors /\ req.blks \in Nat
      BY <1>1, DriveFacts DEF RequestOK
  <1>3. Transferred
    <2> SUFFICES ASSUME io.state = "done", NEW i \in Within
                 PROVE  IF req.write THEN od.platter[req.dblk + i] = Data(i) ELSE memory[i] = req.dblk + i
        BY DEF Transferred, Within
    <2>1. i < io.p
        BY <1>1, <1>2 DEF Finished, Within
    <2> QED BY <1>1, <2>1 DEF ReadSoFar, WrittenSoFar
  <1>4. NothingAstray
      BY <1>1, <1>2 DEF NothingAstray, ReadSoFar, WrittenSoFar
  <1> QED BY <1>3, <1>4, IoAddressable DEF IoSafe

-----------------------------------------------------------------------------
\* Of every sequence of transfers of the disk and the CD, on every drive and with every failure:
\* what bd_io reports as moved is where it belongs, and so is what bc_read has read within three
\* tries (it reports the rest too); no block outside of a request has been written or received; and
\* the BIOS was never given an address or a track it cannot serve, nor a segment, unless the buffer of
\* a pc98 is longer than half of one.
THEOREM TransfersArrive == TransfersSpec => []TransfersSafe
  <1> DEFINE Inv == IoInv /\ CdInv
  <1>1. IoInit /\ CdInit => Inv
      BY IoInitInv, CdInitInv
  <1>2. Inv /\ [TransfersNext]_<<iovars, cdvars>> => Inv'
    <2>1. [TransfersNext]_<<iovars, cdvars>> => [IoNext]_iovars /\ [CdNext]_cdvars
        BY DEF TransfersNext
    <2> QED BY <2>1, IoInvInductive, CdInvInductive
  <1>3. Inv => TransfersSafe
      BY IoInvSafe, CdInvSafe DEF TransfersSafe
  <1> QED BY <1>1, <1>2, <1>3, PTL DEF TransfersSpec

=============================================================================
