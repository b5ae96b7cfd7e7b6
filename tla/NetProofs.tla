----------------------------- MODULE NetProofs ------------------------------
(***************************************************************************)
(* Theorem about the network, for every answer of its servers, every frame,  *)
(* every failed start of a driver and every loss, repetition and delay of     *)
(* packets: the loader's network device and drivers, and the download of       *)
(* the AT91 boards, with the exceptions that NetworkSafe names.                 *)
(***************************************************************************)
EXTENDS Tftp, SequenceTheorems, TLAPS

Kinds == {"net", "once", "pxe"}
Devices == [kind : Kinds, sock : {-1, 0}, opens : Nat, name : {"none", "freed", "net0", "net1", "pxe"}, live : {0, 1}, root : BOOLEAN]
\* (The provers do not know that a literal is a string.)
PathNames == STRING \union {"NULL", "/pxeroot"}
Roots == [srv : Nat, path : PathNames]
Params == [myip : Nat, netmask : Nat, gateip : Nat, rootip : Nat, rootpath : Roots]
Environments == [ip : Nat, netmask : Nat, gateway : Nat, server : Nat, path : PathNames, handle : {<<>>} \union (Nat \X PathNames)]
Histories == [opened : Nat, other : BOOLEAN, alone : BOOLEAN, booted : BOOLEAN, trap : BOOLEAN]
FirmwareStates ==
    [state : {"enabled", "ready", "none"}, pxenv : [sig : BOOLEAN, short : BOOLEAN, sum : BOOLEAN, version : Nat],
     bang : [sig : BOOLEAN, sum : BOOLEAN], gci : BOOLEAN, call : {"NULL", "pxenv", "bangpxe"}, pxenv_p : BOOLEAN, pxe_p : BOOLEAN]
DevTypes == dev \in Devices /\ ip \in Params /\ env \in Environments /\ fw \in FirmwareStates /\ hist \in Histories /\ nfiles \in Nat

\* The interface is open once or not at all, and who counts on it.  A device that is opened
\* only once keeps its count when files are closed.
Counts ==
    /\ dev.live = (IF dev.sock >= 0 THEN 1 ELSE 0)
    /\ dev.sock >= 0 => dev.name \notin {"none", "freed"}
    /\ ~Once /\ ~hist.booted => dev.opens = nfiles /\ (dev.sock >= 0 <=> dev.opens > 0)
    /\ Once /\ ~hist.other /\ ~hist.booted /\ dev.opens > 0 => dev.sock >= 0
    /\ nfiles > 0 => dev.opens > 0
    /\ hist.booted => nfiles = 0 /\ hist.opened = MaxOpens
    /\ dev.kind = "pxe" => ~hist.booted /\ ~hist.alone /\ ~hist.other

\* What the variables name is what the loader uses while the device is open, and whenever a server is
\* known; while the device is open one is known unless no answer named it.
Told == env.server = ip.rootip /\ env.path = ip.rootpath.path /\ env.ip = ip.myip
Known ==
    /\ ip.rootpath.srv = 0
    /\ ip.rootip # 0 => Told /\ ~hist.alone
    /\ dev.opens > 0 /\ ~hist.booted /\ ~hist.other => Told /\ (ip.rootip = 0 => hist.alone)

\* PXE keeps the server it has found, and the handle belongs to that one.
Handles ==
    /\ dev.kind # "pxe" => env.handle = <<>>
    /\ env.handle \notin {<<>>, <<0, "NULL">>} => ip.rootip # 0 /\ env.handle = <<env.server, env.path>>
Firmware == PxeChecked /\ (fw.state = "enabled" => fw.call = "NULL" /\ fw.pxenv_p /\ ~hist.trap)

DevInv == DevTypes /\ Counts /\ Known /\ Handles /\ Firmware

-----------------------------------------------------------------------------
\* A driver n.
Frames == [id : Nat, len : Nat]
NicTypes(n) ==
    n \in [drv : {"efi", "ofw", "uboot", "ps3"}, up : BOOLEAN, state : {"stopped", "started", "initialized"}, filters : BOOLEAN,
           failed : {"none", "protocol", "start", "initialize", "filters"}, fate : {"runs", "panic", "wild"},
           starts : Nat, hwq : Seq(Frames), rx : {"none", "owned", "full"}, frame : Frames, tx : {"free", "owned"}, txbuf : Frames,
           vlan : BOOLEAN, arrived : Nat, got : Seq(Nat), want : Nat, ret : Int, putret : Int, sent : Nat, wire : Seq(Frames)]
Rising(s) == \A i, j \in DOMAIN s : i < j => s[i] < s[j]
RisingIds(s) == \A i, j \in DOMAIN s : i < j => s[i].id < s[j].id
AllBelow(s, x) == \A i \in DOMAIN s : s[i] < x
IdsBelow(s, x) == \A i \in DOMAIN s : s[i].id < x

\* Frames wait in the order of their arrival, behind those that were delivered.
InOrder(n) ==
    /\ Rising(n.got) /\ AllBelow(n.got, n.arrived + 1)
    /\ RisingIds(n.hwq) /\ IdsBelow(n.hwq, n.arrived + 1) /\ \A j \in DOMAIN n.hwq : AllBelow(n.got, n.hwq[j].id)
    /\ n.frame.id <= n.arrived /\ (n.rx = "full" => AllBelow(n.got, n.frame.id))
    /\ n.drv # "ps3" => n.rx = "none"
    /\ n.drv = "ps3" => n.hwq = <<>> /\ (n.up => n.rx # "none")
\* What has left is what was put, up to one frame that the hardware owns.
Left(n) ==
    /\ RisingIds(n.wire) /\ IdsBelow(n.wire, n.sent + 1)
    /\ n.drv # "ps3" => n.tx = "free"
    /\ n.tx = "owned" => n.txbuf.id <= n.sent /\ IdsBelow(n.wire, n.txbuf.id)
    /\ n.drv = "uboot" => \A i \in DOMAIN n.wire : n.wire[i].len >= MINLEN
    /\ n.drv = "ps3" => Len(n.wire) + (IF n.tx = "owned" THEN 1 ELSE 0) = n.sent
Running9(n) == /\ n.drv # "ps3" => n.ret <= n.want
               /\ n.drv = "efi" /\ n.up /\ n.failed = "none" => n.state = "initialized" /\ n.filters
               /\ n.fate = "wild" => n.drv = "efi" /\ n.failed = "protocol"

NicOK(n) == NicTypes(n) /\ InOrder(n) /\ Left(n) /\ Running9(n)

-----------------------------------------------------------------------------
Files91 == DOMAIN TftpFiles
Text == STRING
FileOf(q) == TftpFiles[transfers[q].file]
Ports == DOMAIN transfers
Hosts91 == IPs \union {"none"}
Transfers91 == [file : Files91, n : Nat \ {0}, dl : Nat, ip : Hosts91]
TftpTypes ==
    /\ ndl \in Nat /\ serverPort \in Nat /\ ackBlock \in Int
    /\ dl \in [file : Files91 \union {"missing", "none"}, got : Seq(Text), state : {"idle", "busy", "done", "timeout"}]
    /\ transfers \in Seq(Transfers91) /\ serverIP \in Hosts91
    /\ serverMACSet \in BOOLEAN /\ serverMACAddr \in Hosts91 /\ (serverMACSet => serverMACAddr = serverIP)

\* A transfer is for a download that was asked for, and stops at the number that wraps; one of this
\* download sends the file asked for, was opened after the server's address was heard, and goes on
\* only with the acknowledgements of the client.
Opened91 ==
    \A q \in Ports :
        /\ transfers[q].dl \in 1 .. ndl /\ transfers[q].n <= Len(FileOf(q)) + 1 /\ transfers[q].n <= BLOCKNUMS
        /\ transfers[q].dl = ndl =>
              /\ transfers[q].file = dl.file /\ (dl.state = "busy" => transfers[q].ip = serverIP /\ serverMACSet)
              /\ transfers[q].n <= (IF q = serverPort THEN Len(dl.got) ELSE 0) + 1

\* What may still arrive: blocks a transfer has sent, requests and acknowledgements of this
\* download that belong to it.
Sent91(m, n) == n <= transfers[m.port].n /\ m = DataPacket(m.port, transfers[m.port].file, n)
PacketOK(m) ==
    /\ m.k \in {"arp request", "arp reply", "tftp", "data", "other"}
    /\ m.k = "arp reply" => m.mac = m.ip
    /\ m.k = "data" => m.port \in Ports /\ \E n \in 1 .. Len(FileOf(m.port)) : Sent91(m, n)
    /\ m.k = "tftp" => m.what.op \in {"RRQ", "ACK"} /\ m.ip \in Hosts91
    /\ m.k = "tftp" /\ m.what.op = "RRQ" =>
          /\ m.what.dl \in 1 .. ndl /\ m.mac = m.ip
          /\ m.what.dl = ndl => m.what.file = dl.file /\ (dl.state = "busy" => m.ip = serverIP /\ serverMACSet)
    /\ m.k = "tftp" /\ m.what.op = "ACK" =>
          /\ m.port \in Ports /\ m.what.block \in 1 .. BLOCKNUMS - 1 /\ (m.mac # m.ip => transfers[m.port].dl # ndl)
          /\ transfers[m.port].dl = ndl => m.port = serverPort /\ m.what.block <= Len(dl.got)
Packets91 == \A m \in sent91 : PacketOK(m)

\* What has been stored is the beginning of the file that the port followed sends.
Stored91 ==
    /\ serverPort \in Ports \/ (serverPort = RRQPORT /\ dl.got = <<>>)
    /\ Len(dl.got) < BLOCKNUMS
    /\ serverPort \in Ports => /\ Len(dl.got) <= Len(FileOf(serverPort))
                               /\ \A i \in 1 .. Len(dl.got) : dl.got[i] = FileOf(serverPort)[i]
    /\ dl.state = "busy" => /\ ndl > 0
                            /\ \/ ackBlock = -1 /\ dl.got = <<>> /\ serverPort = RRQPORT
                               \/ ackBlock = Len(dl.got) /\ ackBlock > 0 /\ serverPort \in Ports
    /\ Fresh91 /\ dl.state = "done" => Len(dl.got) = Len(FileOf(serverPort)) \/ Len(FileOf(serverPort)) = BLOCKNUMS

TftpInv == TftpTypes /\ Opened91 /\ Packets91 /\ Stored91

-----------------------------------------------------------------------------
(* The drivers *)
LEMMA AppendNumber ==
    ASSUME NEW s \in Seq(Nat), NEW x \in Nat, Rising(s), AllBelow(s, x)
    PROVE  /\ Append(s, x) \in Seq(Nat) /\ Rising(Append(s, x))
           /\ \A y \in Nat : x < y => AllBelow(Append(s, x), y)
BY DEF Rising, AllBelow

LEMMA AppendFrame ==
    ASSUME NEW s \in Seq(Frames), NEW f \in Frames, RisingIds(s), IdsBelow(s, f.id)
    PROVE  /\ Append(s, f) \in Seq(Frames) /\ Len(Append(s, f)) = Len(s) + 1 /\ RisingIds(Append(s, f))
           /\ \A y \in Nat : f.id < y => IdsBelow(Append(s, f), y)
           /\ \A i \in DOMAIN Append(s, f) : Append(s, f)[i] = f \/ (i \in DOMAIN s /\ Append(s, f)[i] = s[i])
<1>1. /\ Append(s, f) \in Seq(Frames) /\ Len(Append(s, f)) = Len(s) + 1
      /\ \A i \in DOMAIN Append(s, f) : Append(s, f)[i] = f \/ (i \in DOMAIN s /\ Append(s, f)[i] = s[i])
      OBVIOUS
<1>2. RisingIds(Append(s, f))
      BY DEF RisingIds, IdsBelow, Frames
<1>3. ASSUME NEW y \in Nat, f.id < y, NEW i \in DOMAIN Append(s, f) PROVE Append(s, f)[i].id < y
      <2>1. CASE Append(s, f)[i] = f  BY <1>3, <2>1
      <2>2. CASE i \in DOMAIN s /\ Append(s, f)[i] = s[i]
            <3>1. s[i].id < f.id /\ s[i] \in Frames  BY <2>2 DEF IdsBelow
            <3> QED BY <3>1, <2>2, <1>3 DEF Frames
      <2> QED BY <1>1, <2>1, <2>2
<1> QED BY <1>1, <1>2, <1>3 DEF IdsBelow

LEMMA TailFrames ==
    ASSUME NEW s \in Seq(Frames), s # <<>>, RisingIds(s)
    PROVE  /\ Head(s) \in Frames /\ Head(s) = s[1] /\ 1 \in DOMAIN s
           /\ Tail(s) \in Seq(Frames) /\ RisingIds(Tail(s))
           /\ \A j \in DOMAIN Tail(s) : j + 1 \in DOMAIN s /\ Tail(s)[j] = s[j + 1] /\ Head(s).id < Tail(s)[j].id
<1>1. /\ Head(s) \in Frames /\ Head(s) = s[1] /\ 1 \in DOMAIN s /\ Tail(s) \in Seq(Frames)
      /\ \A j \in DOMAIN Tail(s) : j \in Nat /\ j >= 1 /\ j + 1 \in DOMAIN s /\ Tail(s)[j] = s[j + 1]
      OBVIOUS
<1>2. \A j \in DOMAIN Tail(s) : s[1].id < s[j + 1].id
      BY <1>1 DEF RisingIds
<1>3. RisingIds(Tail(s))
      BY <1>1 DEF RisingIds
<1> QED BY <1>1, <1>2, <1>3

\* A frame that was waiting is delivered.
LEMMA TookKeeps ==
    ASSUME NEW n, NicOK(n), NEW want \in Nat, NEW f \in Frames, AllBelow(n.got, f.id), f.id <= n.arrived,
           \A j \in DOMAIN n.hwq : f.id < n.hwq[j].id, n.rx # "full"
    PROVE  NicOK(Took(n, want, f))
<1> DEFINE m == Took(n, want, f)
<1>1. Append(n.got, f.id) \in Seq(Nat) /\ Rising(Append(n.got, f.id)) /\ \A y \in Nat : f.id < y => AllBelow(Append(n.got, f.id), y)
      BY AppendNumber DEF NicOK, NicTypes, InOrder, Frames
<1>2. (IF f.len < want THEN f.len ELSE want) \in Int /\ (IF f.len < want THEN f.len ELSE want) <= want
      BY DEF Frames
<1>3. NicTypes(m)
      BY <1>1, <1>2 DEF Took, NicOK, NicTypes
<1>4. /\ m.drv = n.drv /\ m.up = n.up /\ m.state = n.state /\ m.filters = n.filters /\ m.failed = n.failed /\ m.fate = n.fate /\ m.hwq = n.hwq /\ m.rx = n.rx /\ m.frame = n.frame
      /\ m.tx = n.tx /\ m.txbuf = n.txbuf /\ m.arrived = n.arrived /\ m.got = Append(n.got, f.id) /\ m.want = want
      /\ m.ret = (IF f.len < want THEN f.len ELSE want) /\ m.sent = n.sent /\ m.wire = n.wire
      BY DEF Took, NicOK, NicTypes
<1>5. Left(m)
      BY <1>4 DEF NicOK, Left
<1>6. Running9(m)
      BY <1>2, <1>4 DEF NicOK, Running9
<1>7. InOrder(m)
      <2>1. AllBelow(m.got, m.arrived + 1) /\ Rising(m.got)
            <3>1. n.arrived + 1 \in Nat /\ f.id < n.arrived + 1  BY DEF NicOK, NicTypes, Frames
            <3> QED BY <3>1, <1>1, <1>4
      <2>2. \A j \in DOMAIN m.hwq : AllBelow(m.got, m.hwq[j].id)
            <3> TAKE j \in DOMAIN m.hwq
            <3>1. n.hwq[j] \in Frames /\ f.id < n.hwq[j].id  BY <1>4 DEF NicOK, NicTypes
            <3> QED BY <3>1, <1>1, <1>4 DEF Frames
      <2> QED BY <2>1, <2>2, <1>4 DEF NicOK, InOrder
<1> QED BY <1>3, <1>5, <1>6, <1>7 DEF NicOK

LEMMA NothingKeeps ==
    ASSUME NEW n, NicOK(n), NEW want \in Nat, NEW r \in Int, n.drv # "ps3" => r <= want
    PROVE  NicOK(Nothing(n, want, r))
<1> DEFINE m == Nothing(n, want, r)
<1>1. NicTypes(m)  BY DEF Nothing, NicOK, NicTypes
<1>2. /\ m.drv = n.drv /\ m.up = n.up /\ m.state = n.state /\ m.filters = n.filters /\ m.failed = n.failed /\ m.fate = n.fate /\ m.hwq = n.hwq /\ m.rx = n.rx /\ m.frame = n.frame
      /\ m.tx = n.tx /\ m.txbuf = n.txbuf /\ m.arrived = n.arrived /\ m.got = n.got /\ m.want = want
      /\ m.ret = r /\ m.sent = n.sent /\ m.wire = n.wire
      BY DEF Nothing, NicOK, NicTypes
<1>3. InOrder(m)  BY <1>2 DEF NicOK, InOrder
<1>4. Left(m)  BY <1>2 DEF NicOK, Left
<1>5. Running9(m)  BY <1>2 DEF NicOK, Running9
<1> QED BY <1>1, <1>3, <1>4, <1>5 DEF NicOK

\* The first of the frames that wait is taken from the queue: all that stays is behind it.
LEMMA TakenKeeps ==
    ASSUME NEW n, NicOK(n), n.hwq # <<>>, NEW m, m = [n EXCEPT !.hwq = Tail(@)]
    PROVE  /\ NicOK(m) /\ m.drv = n.drv /\ m.rx # "full" /\ Head(n.hwq) \in Frames /\ AllBelow(m.got, Head(n.hwq).id)
           /\ Head(n.hwq).id <= m.arrived /\ \A j \in DOMAIN m.hwq : Head(n.hwq).id < m.hwq[j].id
<1> DEFINE h == Head(n.hwq)
<1>1. /\ h \in Frames /\ h = n.hwq[1] /\ 1 \in DOMAIN n.hwq /\ Tail(n.hwq) \in Seq(Frames) /\ RisingIds(Tail(n.hwq))
      /\ \A j \in DOMAIN Tail(n.hwq) : j + 1 \in DOMAIN n.hwq /\ Tail(n.hwq)[j] = n.hwq[j + 1] /\ h.id < Tail(n.hwq)[j].id
      BY TailFrames DEF NicOK, NicTypes, InOrder
<1>2. NicTypes(m)  BY <1>1 DEF NicOK, NicTypes
<1>3. /\ m.drv = n.drv /\ m.up = n.up /\ m.state = n.state /\ m.filters = n.filters /\ m.failed = n.failed /\ m.fate = n.fate /\ m.hwq = Tail(n.hwq) /\ m.rx = n.rx /\ m.frame = n.frame
      /\ m.tx = n.tx /\ m.txbuf = n.txbuf /\ m.arrived = n.arrived /\ m.got = n.got /\ m.want = n.want
      /\ m.ret = n.ret /\ m.sent = n.sent /\ m.wire = n.wire
      BY DEF NicOK, NicTypes
<1>4. n.drv # "ps3" /\ m.rx # "full"  BY <1>3 DEF NicOK, InOrder
<1>5. IdsBelow(m.hwq, m.arrived + 1)
      BY <1>1, <1>3 DEF NicOK, InOrder, IdsBelow
<1>6. \A j \in DOMAIN m.hwq : AllBelow(m.got, m.hwq[j].id)
      BY <1>1, <1>3 DEF NicOK, InOrder
<1>7. InOrder(m)
      BY <1>1, <1>3, <1>4, <1>5, <1>6 DEF NicOK, InOrder
<1>8. Left(m)  BY <1>3 DEF NicOK, Left
<1>9. Running9(m)  BY <1>3 DEF NicOK, Running9
<1>10. AllBelow(m.got, h.id) /\ h.id < n.arrived + 1
      BY <1>1, <1>3 DEF NicOK, InOrder, IdsBelow
<1>11. h.id <= m.arrived
      BY <1>1, <1>3, <1>10 DEF NicOK, NicTypes, Frames
<1> QED BY <1>1, <1>2, <1>3, <1>4, <1>7, <1>8, <1>9, <1>10, <1>11 DEF NicOK

\* The descriptor of the PlayStation's hardware is given back to it.
LEMMA RestartKeeps ==
    ASSUME NEW n, NicOK(n), n.drv = "ps3"
    PROVE  LET m == restartdma(n) IN
           /\ NicOK(m) /\ m.drv = n.drv /\ m.up = n.up /\ m.rx = "owned" /\ m.frame = n.frame /\ m.got = n.got /\ m.hwq = n.hwq /\ m.arrived = n.arrived
<1> DEFINE m == restartdma(n)
<1>1. NicTypes(m)  BY DEF restartdma, NicOK, NicTypes
<1>2. /\ m.drv = n.drv /\ m.up = n.up /\ m.state = n.state /\ m.filters = n.filters /\ m.failed = n.failed /\ m.fate = n.fate /\ m.hwq = n.hwq /\ m.rx = "owned" /\ m.frame = n.frame
      /\ m.tx = n.tx /\ m.txbuf = n.txbuf /\ m.arrived = n.arrived /\ m.got = n.got /\ m.want = n.want
      /\ m.ret = n.ret /\ m.sent = n.sent /\ m.wire = n.wire
      BY DEF restartdma, NicOK, NicTypes
<1>3. InOrder(m)  BY <1>2 DEF NicOK, InOrder
<1>4. Left(m)  BY <1>2 DEF NicOK, Left
<1>5. Running9(m)  BY <1>2 DEF NicOK, Running9
<1> QED BY <1>1, <1>2, <1>3, <1>4, <1>5 DEF NicOK

\* Starting and stopping, and following a pointer that was not set: what was delivered and what was put stays as it is.
LEMMA StateKeeps ==
    ASSUME NicOK(nic), NicTypes(nic'), nic'.drv = nic.drv, nic'.hwq \in {nic.hwq, <<>>}, nic'.frame = nic.frame, nic'.tx = nic.tx,
           nic'.txbuf = nic.txbuf, nic'.arrived = nic.arrived, nic'.got = nic.got, nic'.want = nic.want, nic'.ret = nic.ret,
           nic'.sent = nic.sent, nic'.wire = nic.wire,
           nic.drv # "ps3" => nic'.rx = nic.rx,
           nic.drv = "ps3" => nic'.rx = "owned" \/ (nic'.rx = nic.rx /\ ~nic'.up),
           nic.drv = "efi" /\ nic'.up /\ nic'.failed = "none" => nic'.state = "initialized" /\ nic'.filters,
           nic'.fate = "wild" => nic.drv = "efi" /\ nic'.failed = "protocol"
    PROVE  NicOK(nic')
<1>1. RisingIds(nic'.hwq) /\ IdsBelow(nic'.hwq, nic'.arrived + 1) /\ \A j \in DOMAIN nic'.hwq : AllBelow(nic'.got, nic'.hwq[j].id)
      BY DEF NicOK, InOrder, RisingIds, IdsBelow
<1>2. InOrder(nic')  BY <1>1 DEF NicOK, InOrder
<1>3. Left(nic')  BY DEF NicOK, Left
<1>4. Running9(nic')  BY DEF NicOK, Running9
<1> QED BY <1>2, <1>3, <1>4 DEF NicOK

\* A pointer that was not set is followed.
LEMMA WildKeeps ==
    ASSUME NicOK(nic), nic.drv = "efi", nic.failed = "protocol", nic' = Wild(nic)
    PROVE  NicOK(nic')
<1>1. nic' = [nic EXCEPT !.fate = "wild"]  BY DEF Wild
<1>2. NicTypes(nic')  BY <1>1 DEF NicOK, NicTypes
<1>3. /\ nic'.drv = nic.drv /\ nic'.up = nic.up /\ nic'.state = nic.state /\ nic'.filters = nic.filters /\ nic'.failed = nic.failed /\ nic'.fate = "wild" /\ nic'.hwq = nic.hwq
      /\ nic'.rx = nic.rx /\ nic'.frame = nic.frame /\ nic'.tx = nic.tx /\ nic'.txbuf = nic.txbuf /\ nic'.arrived = nic.arrived
      /\ nic'.got = nic.got /\ nic'.want = nic.want /\ nic'.ret = nic.ret /\ nic'.sent = nic.sent /\ nic'.wire = nic.wire
      BY <1>1 DEF NicOK, NicTypes
<1> QED BY <1>2, <1>3, StateKeeps

LEMMA GetKeeps ==
    ASSUME NicOK(nic), NEW want \in FrameLens, Get(want)
    PROVE  NicOK(nic')
<1>0. want \in Nat /\ 0 <= want /\ -1 <= want  BY NetAssumption
<1>1. CASE nic.drv = "efi"
      <2>1. nic' = efinet_get(nic, want)  BY <1>1 DEF Get
      <2>0. CASE nic.failed = "protocol"  BY <1>1, <2>0, <2>1, WildKeeps DEF efinet_get
      <2>2. CASE nic.failed # "protocol" /\ (nic.state # "initialized" \/ nic.hwq = <<>>)  BY <1>0, <2>1, <2>2, NothingKeeps DEF efinet_get
      <2>3. CASE nic.failed # "protocol" /\ nic.state = "initialized" /\ nic.hwq # <<>>
            <3> DEFINE m == [nic EXCEPT !.hwq = Tail(@)]
                       f == Head(nic.hwq)
            <3>1. nic' = IF f.len = 0 THEN Nothing(m, want, 0) ELSE Took(m, want, f)  BY <2>1, <2>3 DEF efinet_get
            <3>2. /\ NicOK(m) /\ m.rx # "full" /\ f \in Frames /\ AllBelow(m.got, f.id) /\ f.id <= m.arrived
                  /\ \A j \in DOMAIN m.hwq : f.id < m.hwq[j].id
                  BY <2>3, TakenKeeps
            <3> HIDE DEF m, f
            <3> QED BY <1>0, <3>1, <3>2, TookKeeps, NothingKeeps
      <2> QED BY <2>0, <2>2, <2>3
<1>2. CASE nic.drv = "ofw"
      <2>1. nic' = ofwn_get(nic, want)  BY <1>2 DEF Get
      <2>2. CASE nic.state # "initialized" \/ nic.hwq = <<>>  BY <1>0, <2>1, <2>2, NothingKeeps DEF ofwn_get
      <2>3. CASE nic.state = "initialized" /\ nic.hwq # <<>>
            <3> DEFINE m == [nic EXCEPT !.hwq = Tail(@)]
                       f == Head(nic.hwq)
            <3>1. nic' = IF f.len < 12 THEN Nothing(m, want, -1) ELSE Took(m, want, f)  BY <2>1, <2>3 DEF ofwn_get
            <3>2. /\ NicOK(m) /\ m.rx # "full" /\ f \in Frames /\ AllBelow(m.got, f.id) /\ f.id <= m.arrived
                  /\ \A j \in DOMAIN m.hwq : f.id < m.hwq[j].id
                  BY <2>3, TakenKeeps
            <3> HIDE DEF m, f
            <3> QED BY <1>0, <3>1, <3>2, TookKeeps, NothingKeeps
      <2> QED BY <2>2, <2>3
<1>3. CASE nic.drv = "uboot"
      <2>1. nic' = uboot_get(nic, want)  BY <1>3 DEF Get
      <2>2. CASE nic.hwq = <<>>  BY <1>0, <2>1, <2>2, NothingKeeps DEF uboot_get
      <2>3. CASE nic.hwq # <<>>
            <3> DEFINE m == [nic EXCEPT !.hwq = Tail(@)]
                       f == Head(nic.hwq)
            <3>1. nic' = IF f.len = 0 THEN Nothing(m, want, -1) ELSE Took(m, want, f)  BY <2>1, <2>3 DEF uboot_get
            <3>2. /\ NicOK(m) /\ m.rx # "full" /\ f \in Frames /\ AllBelow(m.got, f.id) /\ f.id <= m.arrived
                  /\ \A j \in DOMAIN m.hwq : f.id < m.hwq[j].id
                  BY <2>3, TakenKeeps
            <3> HIDE DEF m, f
            <3> QED BY <1>0, <3>1, <3>2, TookKeeps, NothingKeeps
      <2> QED BY <2>2, <2>3
<1>4. CASE nic.drv = "ps3"
      <2>1. nic' = ps3net_get(nic, want)  BY <1>4 DEF Get
      <2>2. CASE nic.rx = "owned"  BY <1>0, <1>4, <2>1, <2>2, NothingKeeps DEF ps3net_get, ETIMEDOUT
      <2>3. CASE nic.rx # "owned" /\ nic.frame.len = 0
            <3>1. nic' = restartdma(Nothing(nic, want, -1))  BY <2>1, <2>3 DEF ps3net_get
            <3>2. NicOK(Nothing(nic, want, -1))  BY <1>0, NothingKeeps
            <3>3. Nothing(nic, want, -1).drv = "ps3"  BY <1>4 DEF Nothing, NicOK, NicTypes
            <3> QED BY <3>1, <3>2, <3>3, RestartKeeps
      <2>4. CASE nic.rx # "owned" /\ nic.frame.len # 0
            <3> DEFINE m == restartdma(nic)
            <3>1. nic' = restartdma(Took(nic, want, nic.frame))  BY <2>1, <2>4 DEF ps3net_get
            <3>2. restartdma(Took(nic, want, nic.frame)) = Took(m, want, nic.frame)
                  BY DEF restartdma, Took, NicOK, NicTypes
            <3>3. NicOK(m) /\ m.rx = "owned" /\ m.got = nic.got /\ m.hwq = nic.hwq /\ m.arrived = nic.arrived
                  BY <1>4, RestartKeeps
            <3>4. nic.rx = "full" /\ nic.frame \in Frames
                  BY <1>4, <2>4 DEF NicOK, NicTypes, InOrder, Get, Running
            <3>5. AllBelow(nic.got, nic.frame.id) /\ nic.frame.id <= nic.arrived /\ nic.hwq = <<>>
                  BY <1>4, <3>4 DEF NicOK, InOrder
            <3>6. \A j \in DOMAIN m.hwq : nic.frame.id < m.hwq[j].id  BY <3>3, <3>5
            <3> HIDE DEF m
            <3> QED BY <1>0, <3>1, <3>2, <3>3, <3>4, <3>5, <3>6, TookKeeps
      <2> QED BY <2>2, <2>3, <2>4
<1> QED BY <1>1, <1>2, <1>3, <1>4 DEF NicOK, NicTypes

\* What arrives has the highest number so far; the PlayStation loses it unless it owns the descriptor.
LEMMA ArrivesKeeps ==
    ASSUME NicOK(nic), NEW len \in FrameLens, Arrives(len)
    PROVE  NicOK(nic')
<1> DEFINE f == [id |-> nic.arrived + 1, len |-> len]
<1>0. f \in Frames /\ f.id = nic.arrived + 1 /\ nic.arrived \in Nat  BY NetAssumption DEF NicOK, NicTypes, Frames
<1>1. AllBelow(nic.got, nic.arrived + 2) /\ AllBelow(nic.got, f.id)
      BY <1>0 DEF NicOK, NicTypes, InOrder, AllBelow
<1>2. IdsBelow(nic.hwq, nic.arrived + 2) /\ IdsBelow(nic.hwq, f.id)
      <2>1. \A j \in DOMAIN nic.hwq : nic.hwq[j] \in Frames /\ nic.hwq[j].id < nic.arrived + 1
            BY DEF NicOK, NicTypes, InOrder, IdsBelow
      <2> QED BY <1>0, <2>1 DEF IdsBelow, Frames
<1>3. CASE nic.drv # "ps3" /\ Hears(nic)
      <2>1. nic' = [nic EXCEPT !.arrived = @ + 1, !.hwq = Append(@, f)]  BY <1>3 DEF Arrives
      <2>2. /\ Append(nic.hwq, f) \in Seq(Frames) /\ RisingIds(Append(nic.hwq, f))
            /\ \A y \in Nat : f.id < y => IdsBelow(Append(nic.hwq, f), y)
            /\ \A i \in DOMAIN Append(nic.hwq, f) : Append(nic.hwq, f)[i] = f \/ (i \in DOMAIN nic.hwq /\ Append(nic.hwq, f)[i] = nic.hwq[i])
            BY <1>0, <1>2, AppendFrame DEF NicOK, NicTypes, InOrder
      <2>3. NicTypes(nic')
            <3>1. PICK a \in Nat : a = nic.arrived + 1  BY <1>0
            <3>2. nic' = [nic EXCEPT !.arrived = a, !.hwq = Append(nic.hwq, f)]  BY <2>1, <3>1 DEF NicOK, NicTypes
            <3> HIDE DEF f
            <3> QED BY <2>2, <3>2 DEF NicOK, NicTypes
      <2>4. /\ nic'.drv = nic.drv /\ nic'.up = nic.up /\ nic'.state = nic.state /\ nic'.filters = nic.filters /\ nic'.failed = nic.failed /\ nic'.fate = nic.fate /\ nic'.hwq = Append(nic.hwq, f)
            /\ nic'.rx = nic.rx /\ nic'.frame = nic.frame /\ nic'.tx = nic.tx /\ nic'.txbuf = nic.txbuf /\ nic'.arrived = nic.arrived + 1
            /\ nic'.got = nic.got /\ nic'.want = nic.want /\ nic'.ret = nic.ret /\ nic'.sent = nic.sent /\ nic'.wire = nic.wire
            BY <2>1 DEF NicOK, NicTypes
      <2>5. IdsBelow(nic'.hwq, nic'.arrived + 1)
            <3>1. nic.arrived + 2 \in Nat /\ f.id < nic.arrived + 2 /\ (nic.arrived + 1) + 1 = nic.arrived + 2  BY <1>0
            <3> QED BY <2>2, <2>4, <3>1
      <2>6. \A j \in DOMAIN nic'.hwq : AllBelow(nic'.got, nic'.hwq[j].id)
            BY <1>1, <2>2, <2>4 DEF NicOK, InOrder
      <2>7. nic'.frame.id <= nic'.arrived
            BY <2>4 DEF NicOK, NicTypes, InOrder, Frames
      <2>8. AllBelow(nic'.got, nic'.arrived + 1)  BY <1>0, <1>1, <2>4 DEF AllBelow
      <2>9. InOrder(nic')  BY <1>3, <2>2, <2>4, <2>5, <2>6, <2>7, <2>8 DEF NicOK, InOrder
      <2>10. Left(nic')  BY <2>4 DEF NicOK, Left
      <2>11. Running9(nic')  BY <2>4 DEF NicOK, Running9
      <2> QED BY <2>3, <2>9, <2>10, <2>11 DEF NicOK
<1>4. CASE nic.drv = "ps3"
      <2>1. nic' = IF nic.rx = "owned" THEN [nic EXCEPT !.arrived = @ + 1, !.rx = "full", !.frame = f] ELSE [nic EXCEPT !.arrived = @ + 1]
            BY <1>4 DEF Arrives, Hears
      <2>2. NicTypes(nic')
            <3>1. PICK a \in Nat : a = nic.arrived + 1  BY <1>0
            <3>2. nic' = IF nic.rx = "owned" THEN [nic EXCEPT !.arrived = a, !.rx = "full", !.frame = f] ELSE [nic EXCEPT !.arrived = a]
                  BY <2>1, <3>1 DEF NicOK, NicTypes
            <3> HIDE DEF f
            <3>3. CASE nic.rx = "owned"  BY <1>0, <3>2, <3>3 DEF NicOK, NicTypes
            <3>4. CASE nic.rx # "owned"  BY <3>2, <3>4 DEF NicOK, NicTypes
            <3> QED BY <3>3, <3>4
      <2>3. /\ nic'.drv = nic.drv /\ nic'.up = nic.up /\ nic'.state = nic.state /\ nic'.filters = nic.filters /\ nic'.failed = nic.failed /\ nic'.fate = nic.fate /\ nic'.hwq = nic.hwq
            /\ nic'.tx = nic.tx /\ nic'.txbuf = nic.txbuf /\ nic'.arrived = nic.arrived + 1
            /\ nic'.got = nic.got /\ nic'.want = nic.want /\ nic'.ret = nic.ret /\ nic'.sent = nic.sent /\ nic'.wire = nic.wire
            /\ (nic'.rx = nic.rx /\ nic'.frame = nic.frame) \/ (nic'.rx = "full" /\ nic'.frame = f)
            <3> HIDE DEF f
            <3>1. CASE nic.rx = "owned"  BY <2>1, <3>1 DEF NicOK, NicTypes
            <3>2. CASE nic.rx # "owned"  BY <2>1, <3>2 DEF NicOK, NicTypes
            <3> QED BY <3>1, <3>2
      <2>4. AllBelow(nic'.got, nic'.arrived + 1)  BY <1>0, <1>1, <2>3 DEF AllBelow
      <2>5. nic'.frame.id <= nic'.arrived
            BY <1>0, <2>3 DEF NicOK, NicTypes, InOrder, Frames
      <2>6. nic'.rx = "full" => AllBelow(nic'.got, nic'.frame.id)
            BY <1>1, <2>3 DEF NicOK, InOrder
      <2>7. IdsBelow(nic'.hwq, nic'.arrived + 1) /\ \A j \in DOMAIN nic'.hwq : AllBelow(nic'.got, nic'.hwq[j].id)
            BY <1>4, <2>3 DEF NicOK, InOrder, IdsBelow
      <2>8. InOrder(nic')
            BY <1>4, <2>3, <2>4, <2>5, <2>6, <2>7 DEF NicOK, InOrder
      <2>9. Left(nic')  BY <2>3 DEF NicOK, Left
      <2>10. Running9(nic')  BY <2>3 DEF NicOK, Running9
      <2> QED BY <2>2, <2>8, <2>9, <2>10 DEF NicOK
<1>5. CASE nic.drv # "ps3" /\ ~Hears(nic)
      <2>0. PICK a \in Nat : a = nic.arrived + 1  BY <1>0
      <2>1. nic' = [nic EXCEPT !.arrived = a]  BY <1>5, <2>0 DEF Arrives, NicOK, NicTypes
      <2>2. NicTypes(nic')  BY <2>1 DEF NicOK, NicTypes
      <2>3. /\ nic'.drv = nic.drv /\ nic'.up = nic.up /\ nic'.state = nic.state /\ nic'.filters = nic.filters /\ nic'.failed = nic.failed /\ nic'.fate = nic.fate /\ nic'.hwq = nic.hwq
            /\ nic'.rx = nic.rx /\ nic'.frame = nic.frame /\ nic'.tx = nic.tx /\ nic'.txbuf = nic.txbuf /\ nic'.arrived = nic.arrived + 1
            /\ nic'.got = nic.got /\ nic'.want = nic.want /\ nic'.ret = nic.ret /\ nic'.sent = nic.sent /\ nic'.wire = nic.wire
            BY <2>0, <2>1 DEF NicOK, NicTypes
      <2>4. AllBelow(nic'.got, nic'.arrived + 1)  BY <1>0, <1>1, <2>3 DEF AllBelow
      <2>5. nic'.frame.id <= nic'.arrived  BY <1>0, <2>3 DEF NicOK, NicTypes, InOrder, Frames
      <2>6. IdsBelow(nic'.hwq, nic'.arrived + 1)
            <3>1. nic'.arrived + 1 = nic.arrived + 2  BY <1>0, <2>3
            <3> QED BY <1>2, <2>3, <3>1
      <2>7. InOrder(nic')  BY <1>5, <2>3, <2>4, <2>5, <2>6 DEF NicOK, InOrder
      <2>8. Left(nic')  BY <2>3 DEF NicOK, Left
      <2>9. Running9(nic')  BY <2>3 DEF NicOK, Running9
      <2> QED BY <2>2, <2>7, <2>8, <2>9 DEF NicOK
<1> QED BY <1>3, <1>4, <1>5

\* How a put may end: not at all, with a frame on the wire, or with one that the hardware owns.
Puts(l, r, ft) ==
    \/ /\ nic.drv # "ps3" /\ ft \in {"runs", "panic", "wild"} /\ (ft = "wild" => nic.drv = "efi" /\ nic.failed = "protocol")
       /\ nic' = [nic EXCEPT !.putret = r, !.fate = ft, !.sent = @ + 1]
    \/ /\ nic.drv # "ps3" /\ (nic.drv = "uboot" => l >= MINLEN) /\ l \in Nat
       /\ nic' = [nic EXCEPT !.putret = r, !.wire = Append(@, [id |-> nic.sent + 1, len |-> l]), !.sent = @ + 1]
    \/ /\ nic.drv = "ps3" /\ nic.tx = "free" /\ l \in Nat
       /\ nic' = [nic EXCEPT !.putret = r, !.tx = "owned", !.txbuf = [id |-> nic.sent + 1, len |-> l], !.sent = @ + 1]

\* A frame leaves; the frames before it have lower numbers.
LEMMA PutKeeps ==
    ASSUME NicOK(nic), NEW len \in FrameLens, Put(len)
    PROVE  NicOK(nic')
<1>0. len \in Nat /\ nic.sent \in Nat /\ nic.wire \in Seq(Frames) /\ RisingIds(nic.wire) /\ IdsBelow(nic.wire, nic.sent + 1)
      BY NetAssumption DEF NicOK, NicTypes, Left
<1>1. IdsBelow(nic.wire, nic.sent + 2)
      <2>1. \A j \in DOMAIN nic.wire : nic.wire[j] \in Frames /\ nic.wire[j].id < nic.sent + 1
            BY <1>0 DEF IdsBelow
      <2> QED BY <1>0, <2>1 DEF IdsBelow, Frames
<1>a. nic.fate = "runs"  BY DEF Put, Running
<1>2. \E l, r \in Int, ft \in {"runs", "wild"} : Puts(l, r, ft)
      <2>0. PICK how \in {"sent", "lost", "unsure"} :
              /\ nic.drv = "ps3" => nic.tx = "free"
              /\ LET n == CASE nic.drv = "efi" -> efinet_put(nic, len, how) [] nic.drv = "ofw" -> ofwn_put(nic, len, how)
                            [] nic.drv = "uboot" -> uboot_put(nic, len, how) [] nic.drv = "ps3" -> ps3net_put(nic, len)
                 IN  nic' = [n EXCEPT !.sent = @ + 1]
            BY DEF Put
      <2>a. ASSUME nic.drv # "ps3", nic' = [nic EXCEPT !.putret = -1, !.sent = @ + 1] PROVE Puts(-1, -1, "runs")
            <3>0. PICK z \in Int, s1 \in Nat : z = -1 /\ s1 = nic.sent + 1  BY <1>0
            <3>a. nic' = [nic EXCEPT !.putret = z, !.sent = s1]  BY <2>a, <3>0
            <3>b. nic' = [nic EXCEPT !.putret = z, !.fate = "runs", !.sent = s1]  BY <1>a, <3>a DEF NicOK, NicTypes
            <3>1. nic' = [nic EXCEPT !.putret = -1, !.fate = "runs", !.sent = @ + 1]  BY <3>0, <3>b
            <3> QED BY <2>a, <3>1 DEF Puts
      <2>1. CASE nic.drv = "efi"
            <3>1. nic' = [efinet_put(nic, len, how) EXCEPT !.sent = @ + 1]  BY <2>0, <2>1
            <3>0. CASE nic.failed = "protocol"
                  <4>1. nic' = [nic EXCEPT !.putret = nic.putret, !.fate = "wild", !.sent = @ + 1]  BY <3>1, <3>0 DEF efinet_put, Wild, NicOK, NicTypes
                  <4>2. Puts(-1, nic.putret, "wild") /\ nic.putret \in Int  BY <2>1, <3>0, <4>1 DEF Puts, NicOK, NicTypes
                  <4> QED BY <4>2
            <3>2. CASE nic.failed # "protocol" /\ (nic.state # "initialized" \/ how = "lost")
                  <4>1. nic' = [nic EXCEPT !.putret = -1, !.sent = @ + 1]  BY <3>1, <3>2 DEF efinet_put, NicOK, NicTypes
                  <4>2. Puts(-1, -1, "runs")  BY <2>1, <2>a, <4>1
                  <4> QED BY <4>2
            <3>3. CASE nic.failed # "protocol" /\ nic.state = "initialized" /\ how # "lost"
                  <4>0. PICK r0 \in Int : r0 = IF how = "unsure" THEN -1 ELSE len  BY <1>0
                  <4>1. nic' = [nic EXCEPT !.putret = r0, !.wire = Append(@, [id |-> nic.sent + 1, len |-> len]), !.sent = @ + 1]
                        BY <3>1, <3>3, <4>0 DEF efinet_put, NicOK, NicTypes
                  <4>2. Puts(len, r0, "runs")  BY <1>0, <2>1, <4>1 DEF Puts
                  <4> QED BY <1>0, <4>2
            <3> QED BY <3>0, <3>2, <3>3
      <2>2. CASE nic.drv = "ofw"
            <3>1. nic' = [ofwn_put(nic, len, how) EXCEPT !.sent = @ + 1]  BY <2>0, <2>2
            <3>2. CASE nic.state # "initialized" \/ how = "lost"
                  <4>1. nic' = [nic EXCEPT !.putret = -1, !.sent = @ + 1]  BY <3>1, <3>2 DEF ofwn_put, NicOK, NicTypes
                  <4>2. Puts(-1, -1, "runs")  BY <2>2, <2>a, <4>1
                  <4> QED BY <4>2
            <3>3. CASE nic.state = "initialized" /\ how # "lost"
                  <4>1. nic' = [nic EXCEPT !.putret = len, !.wire = Append(@, [id |-> nic.sent + 1, len |-> len]), !.sent = @ + 1]
                        BY <3>1, <3>3 DEF ofwn_put, NicOK, NicTypes
                  <4>2. Puts(len, len, "runs")  BY <1>0, <2>2, <4>1 DEF Puts
                  <4> QED BY <1>0, <4>2
            <3> QED BY <3>2, <3>3
      <2>3. CASE nic.drv = "uboot"
            <3>1. nic' = [uboot_put(nic, len, how) EXCEPT !.sent = @ + 1]  BY <2>0, <2>3
            <3>2. CASE how = "lost"
                  <4>1. nic' = [nic EXCEPT !.putret = -1, !.sent = @ + 1]  BY <3>1, <3>2 DEF uboot_put, NicOK, NicTypes
                  <4>2. Puts(-1, -1, "runs")  BY <2>3, <2>a, <4>1
                  <4> QED BY <4>2
            <3>3. CASE how # "lost"
                  <4> DEFINE l0 == IF len < MINLEN THEN MINLEN ELSE len
                  <4>1. nic' = [nic EXCEPT !.putret = len, !.wire = Append(@, [id |-> nic.sent + 1, len |-> l0]), !.sent = @ + 1]
                        BY <3>1, <3>3 DEF uboot_put, NicOK, NicTypes
                  <4>2. l0 \in Nat /\ l0 >= MINLEN  BY <1>0 DEF MINLEN
                  <4> HIDE DEF l0
                  <4>3. Puts(l0, len, "runs")  BY <2>3, <4>1, <4>2 DEF Puts
                  <4> QED BY <1>0, <4>2, <4>3
            <3> QED BY <3>2, <3>3
      <2>4. CASE nic.drv = "ps3"
            <3> DEFINE l0 == IF nic.vlan THEN len + 4 ELSE len
            <3>1. nic' = [ps3net_put(nic, len) EXCEPT !.sent = @ + 1] /\ nic.tx = "free"  BY <2>0, <2>4
            <3>2. nic' = [nic EXCEPT !.putret = len, !.tx = "owned", !.txbuf = [id |-> nic.sent + 1, len |-> l0], !.sent = @ + 1]
                  BY <3>1 DEF ps3net_put, NicOK, NicTypes
            <3>3. l0 \in Nat  BY <1>0
            <3> HIDE DEF l0
            <3>4. Puts(l0, len, "runs")  BY <2>4, <3>1, <3>2, <3>3 DEF Puts
            <3> QED BY <1>0, <3>3, <3>4
      <2> QED BY <2>1, <2>2, <2>3, <2>4 DEF NicOK, NicTypes
<1>3. PICK l \in Int, r \in Int, ft \in {"runs", "wild"} : Puts(l, r, ft)  BY <1>2
<1>4. PICK s1 \in Nat : s1 = nic.sent + 1  BY <1>0
<1> DEFINE f == [id |-> s1, len |-> l]
<1>5. l \in Nat => f \in Frames /\ f.id = nic.sent + 1 /\ f.len = l  BY <1>4 DEF Frames
<1>6. CASE /\ nic.drv # "ps3" /\ (ft = "wild" => nic.drv = "efi" /\ nic.failed = "protocol")
           /\ nic' = [nic EXCEPT !.putret = r, !.fate = ft, !.sent = s1]
      <2>1. NicTypes(nic')  BY <1>6 DEF NicOK, NicTypes
      <2>2. /\ nic'.drv = nic.drv /\ nic'.up = nic.up /\ nic'.state = nic.state /\ nic'.filters = nic.filters /\ nic'.failed = nic.failed /\ nic'.fate = ft /\ nic'.hwq = nic.hwq
            /\ nic'.rx = nic.rx /\ nic'.frame = nic.frame /\ nic'.tx = nic.tx /\ nic'.txbuf = nic.txbuf /\ nic'.arrived = nic.arrived
            /\ nic'.got = nic.got /\ nic'.want = nic.want /\ nic'.ret = nic.ret /\ nic'.sent = s1 /\ nic'.wire = nic.wire
            BY <1>6 DEF NicOK, NicTypes
      <2>3. InOrder(nic')  BY <2>2 DEF NicOK, InOrder
      <2>4. s1 + 1 = nic.sent + 2 /\ nic.tx = "free"  BY <1>0, <1>4, <1>6 DEF NicOK, Left
      <2>5. Left(nic')  BY <1>1, <1>6, <2>2, <2>4 DEF NicOK, Left
      <2>6. Running9(nic')  BY <1>6, <2>2 DEF NicOK, Running9
      <2> QED BY <2>1, <2>3, <2>5, <2>6 DEF NicOK
<1>7. CASE nic.drv # "ps3" /\ (nic.drv = "uboot" => l >= MINLEN) /\ l \in Nat /\ nic' = [nic EXCEPT !.putret = r, !.wire = Append(nic.wire, f), !.sent = s1]
      <2>0. /\ Append(nic.wire, f) \in Seq(Frames) /\ RisingIds(Append(nic.wire, f))
            /\ \A y \in Nat : f.id < y => IdsBelow(Append(nic.wire, f), y)
            /\ \A i \in DOMAIN Append(nic.wire, f) : Append(nic.wire, f)[i] = f \/ (i \in DOMAIN nic.wire /\ Append(nic.wire, f)[i] = nic.wire[i])
            BY <1>0, <1>5, <1>7, AppendFrame
      <2>00. f.len = l /\ f.id = nic.sent + 1  BY <1>5, <1>7
      <2> HIDE DEF f
      <2>1. NicTypes(nic')  BY <1>7, <2>0 DEF NicOK, NicTypes
      <2>2. /\ nic'.drv = nic.drv /\ nic'.up = nic.up /\ nic'.state = nic.state /\ nic'.filters = nic.filters /\ nic'.failed = nic.failed /\ nic'.fate = nic.fate /\ nic'.hwq = nic.hwq
            /\ nic'.rx = nic.rx /\ nic'.frame = nic.frame /\ nic'.tx = nic.tx /\ nic'.txbuf = nic.txbuf /\ nic'.arrived = nic.arrived
            /\ nic'.got = nic.got /\ nic'.want = nic.want /\ nic'.ret = nic.ret /\ nic'.sent = s1 /\ nic'.wire = Append(nic.wire, f)
            BY <1>7 DEF NicOK, NicTypes
      <2>3. InOrder(nic')  BY <2>2 DEF NicOK, InOrder
      <2>4. s1 + 1 \in Nat /\ f.id < s1 + 1  BY <1>0, <1>4, <2>00
      <2>5. IdsBelow(nic'.wire, nic'.sent + 1)  BY <2>0, <2>2, <2>4
      <2>6. nic.drv = "uboot" => \A i \in DOMAIN nic'.wire : nic'.wire[i].len >= MINLEN
            BY <1>7, <2>00, <2>0, <2>2 DEF NicOK, Left
      <2>7. nic.tx = "free"  BY <1>7 DEF NicOK, Left
      <2>8. Left(nic')  BY <1>7, <2>0, <2>2, <2>5, <2>6, <2>7 DEF Left
      <2>9. Running9(nic')  BY <2>2 DEF NicOK, Running9
      <2> QED BY <2>1, <2>3, <2>8, <2>9 DEF NicOK
<1>8. CASE nic.drv = "ps3" /\ nic.tx = "free" /\ l \in Nat /\ nic' = [nic EXCEPT !.putret = r, !.tx = "owned", !.txbuf = f, !.sent = s1]
      <2>0. f \in Frames /\ f.id = nic.sent + 1  BY <1>5, <1>8
      <2> HIDE DEF f
      <2>1. NicTypes(nic')  BY <1>8, <2>0 DEF NicOK, NicTypes
      <2>2. /\ nic'.drv = nic.drv /\ nic'.up = nic.up /\ nic'.state = nic.state /\ nic'.filters = nic.filters /\ nic'.failed = nic.failed /\ nic'.fate = nic.fate /\ nic'.hwq = nic.hwq
            /\ nic'.rx = nic.rx /\ nic'.frame = nic.frame /\ nic'.tx = "owned" /\ nic'.txbuf = f /\ nic'.arrived = nic.arrived
            /\ nic'.got = nic.got /\ nic'.want = nic.want /\ nic'.ret = nic.ret /\ nic'.sent = s1 /\ nic'.wire = nic.wire
            BY <1>8 DEF NicOK, NicTypes
      <2>3. InOrder(nic')  BY <2>2 DEF NicOK, InOrder
      <2>4. s1 + 1 = nic.sent + 2  BY <1>0, <1>4
      <2>5. Len(nic.wire) = nic.sent  BY <1>0, <1>8 DEF NicOK, Left
      <2>6. Left(nic')  BY <1>0, <1>1, <1>4, <1>8, <2>0, <2>2, <2>4, <2>5 DEF Left
      <2>7. Running9(nic')  BY <2>2 DEF NicOK, Running9
      <2> QED BY <2>1, <2>3, <2>6, <2>7 DEF NicOK
<1> QED BY <1>3, <1>4, <1>6, <1>7, <1>8 DEF Puts, NicOK, NicTypes

LEMMA TransmittedKeeps ==
    ASSUME NicOK(nic), Transmitted
    PROVE  NicOK(nic')
<1>0. nic.drv = "ps3" /\ nic.tx = "owned" /\ nic' = [nic EXCEPT !.tx = "free", !.wire = Append(nic.wire, nic.txbuf)]
      BY DEF Transmitted, NicOK, NicTypes
<1>1. nic.txbuf \in Frames /\ nic.wire \in Seq(Frames) /\ RisingIds(nic.wire) /\ IdsBelow(nic.wire, nic.txbuf.id) /\ nic.txbuf.id <= nic.sent /\ nic.sent \in Nat
      BY <1>0 DEF NicOK, NicTypes, Left
<1>2. /\ Append(nic.wire, nic.txbuf) \in Seq(Frames) /\ RisingIds(Append(nic.wire, nic.txbuf)) /\ Len(Append(nic.wire, nic.txbuf)) = Len(nic.wire) + 1
      /\ \A y \in Nat : nic.txbuf.id < y => IdsBelow(Append(nic.wire, nic.txbuf), y)
      BY <1>1, AppendFrame
<1>3. NicTypes(nic')  BY <1>0, <1>2 DEF NicOK, NicTypes
<1>4. /\ nic'.drv = nic.drv /\ nic'.up = nic.up /\ nic'.state = nic.state /\ nic'.filters = nic.filters /\ nic'.failed = nic.failed /\ nic'.fate = nic.fate /\ nic'.hwq = nic.hwq
      /\ nic'.rx = nic.rx /\ nic'.frame = nic.frame /\ nic'.tx = "free" /\ nic'.txbuf = nic.txbuf /\ nic'.arrived = nic.arrived
      /\ nic'.got = nic.got /\ nic'.want = nic.want /\ nic'.ret = nic.ret /\ nic'.sent = nic.sent /\ nic'.wire = Append(nic.wire, nic.txbuf)
      BY <1>0 DEF NicOK, NicTypes
<1>5. InOrder(nic')  BY <1>4 DEF NicOK, InOrder
<1>6. nic.sent + 1 \in Nat /\ nic.txbuf.id < nic.sent + 1  BY <1>1 DEF Frames
<1>7. IdsBelow(nic'.wire, nic'.sent + 1)  BY <1>2, <1>4, <1>6
<1>8. Len(nic.wire) + 1 = nic.sent  BY <1>0 DEF NicOK, Left
<1>9. Left(nic')  BY <1>0, <1>1, <1>2, <1>4, <1>7, <1>8 DEF Left
<1>10. Running9(nic')  BY <1>4 DEF NicOK, Running9
<1> QED BY <1>3, <1>5, <1>9, <1>10 DEF NicOK

LEMMA StopKeeps ==
    ASSUME NicOK(nic), Stop9
    PROVE  NicOK(nic')
<1>0. PICK bad \in BOOLEAN : nic' = CASE nic.drv = "efi" -> efinet_end(nic, bad) [] nic.drv = "ofw" -> ofwn_end(nic)
                                     [] nic.drv = "uboot" -> uboot_end(nic, bad) [] nic.drv = "ps3" -> ps3net_end(nic)
      BY DEF Stop9
<1>00. nic.fate = "runs"  BY DEF Stop9, Running
<1>1. CASE nic.drv = "efi"
      <2>0. nic' = efinet_end(nic, bad)  BY <1>0, <1>1
      <2>1. CASE nic.failed = "protocol"  BY <1>1, <2>0, <2>1, WildKeeps DEF efinet_end
      <2>2. CASE nic.failed # "protocol" /\ nic.state # "initialized"
            <3>1. nic' = [nic EXCEPT !.up = FALSE]  BY <2>0, <2>2 DEF efinet_end
            <3>2. NicTypes(nic')  BY <3>1 DEF NicOK, NicTypes
            <3> QED BY <1>1, <1>00, <3>1, <3>2, StateKeeps DEF NicOK, NicTypes
      <2>3. CASE nic.failed # "protocol" /\ nic.state = "initialized"
            <3>1. PICK b \in BOOLEAN : b = (nic.filters /\ ~bad)  OBVIOUS
            <3>2. nic' = [nic EXCEPT !.up = FALSE, !.state = "started", !.filters = b, !.hwq = <<>>]
                  BY <2>0, <2>3, <3>1 DEF efinet_end, NicOK, NicTypes
            <3>3. <<>> \in Seq(Frames)  OBVIOUS
            <3>4. NicTypes(nic')  BY <3>2, <3>3 DEF NicOK, NicTypes
            <3> QED BY <1>1, <1>00, <3>2, <3>4, StateKeeps DEF NicOK, NicTypes
      <2> QED BY <2>1, <2>2, <2>3
<1>2. CASE nic.drv = "ofw"
      <2>1. nic' = [nic EXCEPT !.up = FALSE, !.state = "stopped"]  BY <1>0, <1>2 DEF ofwn_end
      <2>2. NicTypes(nic')  BY <2>1 DEF NicOK, NicTypes
      <2> QED BY <1>2, <1>00, <2>1, <2>2, StateKeeps DEF NicOK, NicTypes
<1>3. CASE nic.drv = "uboot" /\ bad
      <2>1. nic' = [nic EXCEPT !.fate = "panic"]  BY <1>0, <1>3 DEF uboot_end
      <2>2. NicTypes(nic')  BY <2>1 DEF NicOK, NicTypes
      <2> QED BY <1>3, <2>1, <2>2, StateKeeps DEF NicOK, NicTypes
<1>4. CASE nic.drv = "ps3" \/ (nic.drv = "uboot" /\ ~bad)
      <2>1. nic' = [nic EXCEPT !.up = FALSE]  BY <1>0, <1>4 DEF ps3net_end, uboot_end
      <2>2. NicTypes(nic')  BY <2>1 DEF NicOK, NicTypes
      <2> QED BY <1>4, <1>00, <2>1, <2>2, StateKeeps DEF NicOK, NicTypes
<1> QED BY <1>1, <1>2, <1>3, <1>4 DEF NicOK, NicTypes

LEMMA StartKeeps ==
    ASSUME NicOK(nic), Start9
    PROVE  NicOK(nic')
<1>0. PICK fails \in {"none", "protocol", "start", "initialize", "filters"}, vlan \in BOOLEAN :
        LET n == CASE nic.drv = "efi" -> efinet_init(nic, fails) [] nic.drv = "ofw" -> ofwn_init(nic, fails)
                   [] nic.drv = "uboot" -> uboot_init(nic, fails) [] nic.drv = "ps3" -> ps3net_init(nic, vlan)
        IN  nic' = [n EXCEPT !.starts = @ + 1]
      BY DEF Start9
<1>00. ~nic.up /\ nic.fate = "runs"  BY DEF Start9
<1>1. PICK s1 \in Nat : s1 = nic.starts + 1  BY DEF NicOK, NicTypes
<1>2. CASE nic.drv = "efi"
      <2>1. nic' = [efinet_init(nic, fails) EXCEPT !.starts = @ + 1]  BY <1>0, <1>2
      <2> DEFINE started == IF nic.state = "stopped" THEN "started" ELSE nic.state
                 m == [nic EXCEPT !.up = TRUE, !.failed = fails]
      <2>2. started \in {"stopped", "started", "initialized"}  BY DEF NicOK, NicTypes
      <2>3. \/ efinet_init(nic, fails) = m /\ fails # "none"
            \/ efinet_init(nic, fails) = [m EXCEPT !.state = started] /\ fails # "none"
            \/ efinet_init(nic, fails) = [m EXCEPT !.state = "initialized"] /\ fails # "none"
            \/ efinet_init(nic, fails) = [m EXCEPT !.state = "initialized", !.filters = TRUE, !.failed = "none"]
            BY DEF efinet_init
      <2> HIDE DEF started
      <2>4. CASE efinet_init(nic, fails) = m /\ fails # "none"
            <3>1. nic' = [nic EXCEPT !.up = TRUE, !.failed = fails, !.starts = s1]  BY <1>1, <2>1, <2>4 DEF NicOK, NicTypes
            <3>2. NicTypes(nic')  BY <3>1 DEF NicOK, NicTypes
            <3> QED BY <1>2, <1>00, <2>4, <3>1, <3>2, StateKeeps DEF NicOK, NicTypes
      <2>5. CASE efinet_init(nic, fails) = [m EXCEPT !.state = started] /\ fails # "none"
            <3>1. nic' = [nic EXCEPT !.up = TRUE, !.failed = fails, !.state = started, !.starts = s1]  BY <1>1, <2>1, <2>5 DEF NicOK, NicTypes
            <3>2. NicTypes(nic')  BY <2>2, <3>1 DEF NicOK, NicTypes
            <3> QED BY <1>2, <1>00, <2>5, <3>1, <3>2, StateKeeps DEF NicOK, NicTypes
      <2>6. CASE efinet_init(nic, fails) = [m EXCEPT !.state = "initialized"] /\ fails # "none"
            <3>1. nic' = [nic EXCEPT !.up = TRUE, !.failed = fails, !.state = "initialized", !.starts = s1]  BY <1>1, <2>1, <2>6 DEF NicOK, NicTypes
            <3>2. NicTypes(nic')  BY <3>1 DEF NicOK, NicTypes
            <3> QED BY <1>2, <1>00, <2>6, <3>1, <3>2, StateKeeps DEF NicOK, NicTypes
      <2>7. CASE efinet_init(nic, fails) = [m EXCEPT !.state = "initialized", !.filters = TRUE, !.failed = "none"]
            <3>1. nic' = [nic EXCEPT !.up = TRUE, !.failed = "none", !.state = "initialized", !.filters = TRUE, !.starts = s1]
                  BY <1>1, <2>1, <2>7 DEF NicOK, NicTypes
            <3>2. NicTypes(nic')  BY <3>1 DEF NicOK, NicTypes
            <3> QED BY <1>2, <1>00, <3>1, <3>2, StateKeeps DEF NicOK, NicTypes
      <2> QED BY <2>3, <2>4, <2>5, <2>6, <2>7
<1>3. CASE nic.drv = "ofw"
      <2>1. PICK st \in {"stopped", "initialized"} : st = IF fails \in {"protocol", "start"} THEN "stopped" ELSE "initialized"  OBVIOUS
      <2>2. nic' = [[nic EXCEPT !.up = TRUE, !.failed = fails, !.state = st] EXCEPT !.starts = @ + 1]  BY <1>0, <1>3, <2>1 DEF ofwn_init
      <2>3. nic' = [nic EXCEPT !.up = TRUE, !.failed = fails, !.state = st, !.starts = s1]  BY <1>1, <2>2 DEF NicOK, NicTypes
      <2>4. NicTypes(nic')  BY <2>3 DEF NicOK, NicTypes
      <2> QED BY <1>3, <1>00, <2>3, <2>4, StateKeeps DEF NicOK, NicTypes
<1>5. CASE nic.drv = "uboot"
      <2>1. \/ nic' = [[nic EXCEPT !.up = TRUE] EXCEPT !.starts = @ + 1]
            \/ nic' = [[nic EXCEPT !.fate = "panic"] EXCEPT !.starts = @ + 1]
            BY <1>0, <1>5 DEF uboot_init
      <2>2. CASE nic' = [[nic EXCEPT !.up = TRUE] EXCEPT !.starts = @ + 1]
            <3>1. nic' = [nic EXCEPT !.up = TRUE, !.starts = s1]  BY <1>1, <2>2 DEF NicOK, NicTypes
            <3>2. NicTypes(nic')  BY <3>1 DEF NicOK, NicTypes
            <3> QED BY <1>5, <1>00, <3>1, <3>2, StateKeeps DEF NicOK, NicTypes
      <2>3. CASE nic' = [[nic EXCEPT !.fate = "panic"] EXCEPT !.starts = @ + 1]
            <3>1. nic' = [nic EXCEPT !.fate = "panic", !.starts = s1]  BY <1>1, <2>3 DEF NicOK, NicTypes
            <3>2. NicTypes(nic')  BY <3>1 DEF NicOK, NicTypes
            <3> QED BY <1>5, <3>1, <3>2, StateKeeps DEF NicOK, NicTypes
      <2> QED BY <2>1, <2>2, <2>3
<1>4. CASE nic.drv = "ps3"
      <2>1. nic' = [ps3net_init(nic, vlan) EXCEPT !.starts = @ + 1]  BY <1>0, <1>4
      <2>2. nic' = [nic EXCEPT !.up = TRUE, !.vlan = vlan, !.rx = "owned", !.starts = s1]
            BY <1>1, <2>1 DEF ps3net_init, restartdma, NicOK, NicTypes
      <2>3. NicTypes(nic')  BY <2>2 DEF NicOK, NicTypes
      <2> QED BY <1>4, <1>00, <2>2, <2>3, StateKeeps DEF NicOK, NicTypes
<1> QED BY <1>2, <1>3, <1>4, <1>5 DEF NicOK, NicTypes

LEMMA NicStarts ==
    ASSUME NicInit
    PROVE  NicOK(nic)
<1>1. PICK d \in {"efi", "ofw", "uboot", "ps3"}, s \in {"stopped", "initialized"} :
        nic = [drv |-> d, up |-> FALSE, state |-> s, filters |-> FALSE, failed |-> "none", fate |-> "runs", starts |-> 0, hwq |-> <<>>, rx |-> "none", frame |-> [id |-> 0, len |-> 0], tx |-> "free",
               txbuf |-> [id |-> 0, len |-> 0], vlan |-> FALSE, arrived |-> 0, got |-> <<>>, want |-> 0, ret |-> 0, putret |-> 0, sent |-> 0, wire |-> <<>>]
      BY DEF NicInit
<1>2. [id |-> 0, len |-> 0] \in Frames /\ <<>> \in Seq(Frames) /\ <<>> \in Seq(Nat)  BY DEF Frames
<1>3. NicTypes(nic)  BY <1>1, <1>2 DEF NicTypes
<1>4. InOrder(nic)  BY <1>1 DEF InOrder, Rising, RisingIds, AllBelow, IdsBelow
<1>5. Left(nic)  BY <1>1 DEF Left, RisingIds, IdsBelow
<1>6. Running9(nic)  BY <1>1 DEF Running9
<1> QED BY <1>3, <1>4, <1>5, <1>6 DEF NicOK

LEMMA NicKeeps ==
    ASSUME NicOK(nic), NicNext
    PROVE  NicOK(nic')
BY StartKeeps, StopKeeps, TransmittedKeeps, ArrivesKeeps, GetKeeps, PutKeeps DEF NicNext

LEMMA NicSafe ==
    ASSUME NicOK(nic)
    PROVE  FramesSafe
BY DEF NicOK, InOrder, Left, Running9, Rising, RisingIds, FramesSafe

-----------------------------------------------------------------------------
(* The device *)
\* Once split, a path names no server.
LEMMA SplitParams ==
    ASSUME NEW s \in Params
    PROVE  /\ Split(s) \in Params /\ Split(s).rootpath.srv = 0 /\ Split(s).myip = s.myip
           /\ Split(s).rootip = (IF s.rootpath.srv = 0 THEN s.rootip ELSE s.rootpath.srv)
<1>1. s.rootpath \in Roots /\ s.rootpath.srv \in Nat  BY DEF Params, Roots
<1>2. CASE s.rootpath.srv = 0  BY <1>2 DEF Split
<1>3. CASE s.rootpath.srv # 0
      <2>1. Split(s) = [s EXCEPT !.rootip = s.rootpath.srv, !.rootpath = [s.rootpath EXCEPT !.srv = 0]]  BY <1>3 DEF Split, Params
      <2>2. [s.rootpath EXCEPT !.srv = 0] \in Roots /\ [s.rootpath EXCEPT !.srv = 0].srv = 0  BY <1>1 DEF Roots
      <2> HIDE DEF Split
      <2>3. Split(s) \in Params  BY <1>1, <2>1, <2>2 DEF Params
      <2>4. Split(s).rootpath = [s.rootpath EXCEPT !.srv = 0] /\ Split(s).myip = s.myip /\ Split(s).rootip = s.rootpath.srv  BY <2>1 DEF Params
      <2> QED BY <1>3, <2>2, <2>3, <2>4
<1> QED BY <1>2, <1>3

LEMMA BootpParams ==
    ASSUME NEW s \in Params, NEW a \in Answers
    PROVE  /\ bootp(s, a) \in Params /\ (a.bootp.ip = 0 => bootp(s, a) = s)
           /\ a.bootp.ip # 0 => /\ bootp(s, a).myip # 0 /\ bootp(s, a).rootip = (IF a.bootp.server # 0 THEN a.bootp.server ELSE s.rootip)
                                /\ bootp(s, a).rootpath = (IF a.bootp.path # NoPath THEN a.bootp.path ELSE s.rootpath)
<1>1. a.bootp \in [ip : Nat, mask : Nat, gate : Nat, server : Nat, path : Roots]
      BY NetAssumption DEF RootPaths, Roots, PathNames
<1>2. CASE a.bootp.ip = 0  BY <1>2 DEF bootp
<1>3. CASE a.bootp.ip # 0
      <2>1. PICK r \in Nat : r = IF a.bootp.server # 0 THEN a.bootp.server ELSE s.rootip  BY <1>1 DEF Params
      <2>2. PICK q \in Roots : q = IF a.bootp.path # NoPath THEN a.bootp.path ELSE s.rootpath  BY <1>1 DEF Params
      <2>3. bootp(s, a) = [s EXCEPT !.myip = a.bootp.ip, !.netmask = a.bootp.mask, !.gateip = a.bootp.gate, !.rootip = r, !.rootpath = q]
            BY <1>3, <2>1, <2>2 DEF bootp, Params
      <2>4. bootp(s, a) \in Params  BY <1>1, <2>3 DEF Params
      <2>5. bootp(s, a).myip = a.bootp.ip /\ bootp(s, a).rootip = r /\ bootp(s, a).rootpath = q  BY <2>3 DEF Params
      <2> QED BY <1>3, <2>1, <2>2, <2>4, <2>5
<1> QED BY <1>2, <1>3

\* Parameters that were found name their server apart from the path, and none if no answer did; without them no server is known.
LEMMA ParamsFound ==
    ASSUME NEW s0 \in Params, s0.rootip = 0, s0.rootpath.srv = 0, NEW a \in Answers
    PROVE  LET p == net_getparams(s0, a) IN
           p.ip \in Params /\ p.ip.rootpath.srv = 0 /\ (p.err = 0 => (p.ip.rootip = 0 <=> Alone(s0, a))) /\ (p.err # 0 => p.ip.rootip = 0)
<1> DEFINE s == bootp(s0, a)
           r == [s EXCEPT !.myip = a.rarp]
           g == [r EXCEPT !.gateip = a.gateway.ip, !.netmask = IF a.gateway.mask # 0 THEN a.gateway.mask ELSE @]
           f == [g EXCEPT !.rootip = a.getfile.srv, !.rootpath = [a.getfile EXCEPT !.srv = 0]]
<1>1. a.rarp \in Nat /\ a.gateway \in [ip : Nat, mask : Nat] /\ a.getfile \in Roots
      BY NetAssumption DEF RootPaths, Roots, PathNames
<1>2. s \in Params /\ (a.bootp.ip = 0 => s = s0) /\ (a.bootp.ip # 0 => s.myip # 0)  BY BootpParams
<1>a. ASSUME s.myip # 0 PROVE Split(s).rootip = 0 <=> Alone(s0, a)
      <2>1. CASE a.bootp.ip = 0
            <3>1. s = s0  BY <1>2, <2>1
            <3>2. Split(s).rootip = 0  BY <3>1, SplitParams
            <3> QED BY <1>a, <2>1, <3>1, <3>2 DEF Alone
      <2>2. CASE a.bootp.ip # 0
            <3>0. a.bootp.server \in Nat /\ a.bootp.path \in RootPaths /\ a.bootp.path.srv \in Nat  BY NetAssumption DEF RootPaths
            <3>1. s.rootip = a.bootp.server  BY <2>2, <3>0, BootpParams
            <3>2. s.rootpath.srv = a.bootp.path.srv  BY <2>2, <3>0, BootpParams DEF NoPath
            <3> HIDE DEF s
            <3>3. Split(s).rootip = (IF a.bootp.path.srv = 0 THEN a.bootp.server ELSE a.bootp.path.srv)  BY <1>2, <3>1, <3>2, SplitParams
            <3> QED BY <2>2, <3>3 DEF Alone
      <2> QED BY <2>1, <2>2
<1>b. s.myip = 0 => s = s0 /\ a.bootp.ip = 0 /\ s0.myip = 0 /\ s.rootip = 0 /\ s.rootpath.srv = 0  BY <1>2
<1> HIDE DEF s
<1>3. r \in Params /\ r.rootip = s.rootip /\ r.rootpath = s.rootpath  BY <1>1, <1>2 DEF Params
<1> HIDE DEF r
<1>4. g \in Params /\ g.rootip = r.rootip /\ g.rootpath = r.rootpath
      <2>1. PICK m \in Nat : m = IF a.gateway.mask # 0 THEN a.gateway.mask ELSE r.netmask  BY <1>1, <1>3 DEF Params
      <2>2. g = [r EXCEPT !.gateip = a.gateway.ip, !.netmask = m]  BY <1>3, <2>1 DEF Params
      <2> QED BY <1>1, <1>3, <2>2 DEF Params
<1> HIDE DEF g
<1>5. f \in Params /\ f.rootip = a.getfile.srv /\ f.rootpath.srv = 0
      <2>1. [a.getfile EXCEPT !.srv = 0] \in Roots /\ a.getfile.srv \in Nat /\ [a.getfile EXCEPT !.srv = 0].srv = 0  BY <1>1 DEF Roots
      <2> QED BY <1>4, <2>1 DEF Params
<1> HIDE DEF f
<1>6. net_getparams(s0, a) =
        IF s.myip # 0 THEN [err |-> 0, ip |-> Split(s)]
        ELSE IF a.rarp = 0 THEN [err |-> 5, ip |-> s]
        ELSE IF ~a.whoami THEN [err |-> 5, ip |-> r]
        ELSE IF a.getfile = NoPath THEN [err |-> 5, ip |-> g]
        ELSE [err |-> 0, ip |-> Split(f)]
      BY DEF net_getparams, s, r, g, f
<1>7. /\ Split(s) \in Params /\ Split(s).rootpath.srv = 0
      /\ Split(f) \in Params /\ Split(f).rootpath.srv = 0 /\ Split(f).rootip = a.getfile.srv
      BY <1>2, <1>5, SplitParams
<1>8. s.myip = 0 => (Alone(s0, a) <=> a.getfile.srv = 0)  BY <1>b DEF Alone
<1> QED BY <1>2, <1>a, <1>b, <1>3, <1>4, <1>6, <1>7, <1>8

LEMMA SaidParams ==
    ASSUME NEW s \in Params, env \in Environments
    PROVE  /\ Say(s) \in Environments /\ Say(s).handle = env.handle
           /\ Say(s).server = s.rootip /\ Say(s).path = s.rootpath.path /\ Say(s).ip = s.myip
BY DEF Say, Params, Environments, Roots

LEMMA CleanedDevice ==
    ASSUME NEW d \in Devices, NEW i \in Params, d.live = (IF d.sock >= 0 THEN 1 ELSE 0)
    PROVE  LET c == Cleaned(d, i) IN
           /\ c.d \in Devices /\ c.d.kind = d.kind /\ c.d.opens = d.opens /\ c.d.root = d.root /\ c.d.sock = -1 /\ c.d.live = 0
           /\ c.i \in Params /\ c.i \in {i, [i EXCEPT !.rootip = 0]} /\ (d.sock < 0 => c.d = d /\ c.i = i)
<1>1. CASE d.sock >= 0
      <2>1. Cleaned(d, i) = [d |-> netif_close(d), i |-> [i EXCEPT !.rootip = 0]]  BY <1>1 DEF Cleaned
      <2>2. netif_close(d) = [d EXCEPT !.sock = -1, !.live = 0, !.name = "freed"]  BY <1>1 DEF netif_close, Devices
      <2>3. [i EXCEPT !.rootip = 0] \in Params  BY DEF Params
      <2>4. PICK z \in {-1, 0} : z = -1  OBVIOUS
      <2>5. netif_close(d) = [d EXCEPT !.sock = z, !.live = 0, !.name = "freed"]  BY <2>2, <2>4
      <2>6. netif_close(d) \in Devices  BY <2>5 DEF Devices
      <2>7. /\ netif_close(d).kind = d.kind /\ netif_close(d).opens = d.opens /\ netif_close(d).root = d.root
            /\ netif_close(d).sock = z /\ netif_close(d).live = 0
            BY <2>5 DEF Devices
      <2>8. ~(d.sock < 0)  BY <1>1 DEF Devices
      <2> QED BY <2>1, <2>3, <2>4, <2>6, <2>7, <2>8
<1>2. CASE ~(d.sock >= 0)  BY <1>2 DEF Cleaned, Devices
<1> QED BY <1>1, <1>2

LEMMA OpenedInterface ==
    ASSUME NEW d \in Devices, d.sock = -1, d.live = 0, NEW name \in {"net0", "net1", "pxe"}
    PROVE  LET o == netif_open(d, name) IN
           o \in Devices /\ o.kind = d.kind /\ o.opens = d.opens /\ o.root = d.root /\ o.sock = 0 /\ o.live = 1 /\ o.name = name
<1>1. netif_open(d, name) = [d EXCEPT !.sock = 0, !.live = 1, !.name = name]  BY DEF netif_open, Devices
<1> QED BY <1>1 DEF Devices

LEMMA ClosedInterface ==
    ASSUME NEW d \in Devices, d.sock = 0, d.live = 1
    PROVE  LET o == netif_close(d) IN
           o \in Devices /\ o.kind = d.kind /\ o.opens = d.opens /\ o.root = d.root /\ o.sock = -1 /\ o.live = 0
<1>1. PICK z \in {-1, 0} : z = -1  OBVIOUS
<1>2. netif_close(d) = [d EXCEPT !.sock = z, !.live = 0, !.name = "freed"]  BY <1>1 DEF netif_close, Devices
<1> QED BY <1>1, <1>2 DEF Devices

LEMMA NetOpenKeeps ==
    ASSUME DevInv, NEW name \in {"net0", "net1"}, NEW a \in Answers, NEW opens \in BOOLEAN, net_open(name, a, opens)
    PROVE  DevInv'
<1> DEFINE switch == Once /\ dev.sock >= 0 /\ dev.name # name
           c == IF Once /\ dev.sock >= 0 /\ dev.name # name THEN Cleaned(dev, ip) ELSE [d |-> dev, i |-> ip]
           first == c.d.opens = 0
           o == IF first /\ c.d.sock < 0 THEN netif_open(c.d, name) ELSE c.d
           failed == first /\ c.d.sock < 0 /\ ~opens
           asks == first /\ c.i.rootip = 0
           p == net_getparams(c.i, a)
<1>0. /\ dev \in Devices /\ ip \in Params /\ env \in Environments /\ hist \in Histories /\ nfiles \in Nat
      /\ dev.sock \in {-1, 0} /\ dev.opens \in Nat /\ dev.live = (IF dev.sock >= 0 THEN 1 ELSE 0)
      BY DEF DevInv, DevTypes, Counts, Devices
<1>1. /\ c.d \in Devices /\ c.d.kind = dev.kind /\ c.d.opens = dev.opens /\ c.d.root = dev.root /\ c.i \in Params
      /\ c.d.live = (IF c.d.sock >= 0 THEN 1 ELSE 0) /\ c.d.sock \in {-1, 0}
      /\ (switch => c.d.sock = -1 /\ c.i \in {ip, [ip EXCEPT !.rootip = 0]}) /\ (~switch => c.d = dev /\ c.i = ip)
      <2>1. CASE switch
            <3>1. c = Cleaned(dev, ip)  BY <2>1
            <3> QED BY <1>0, <2>1, <3>1, CleanedDevice
      <2>2. CASE ~switch  BY <1>0, <2>2
      <2> QED BY <2>1, <2>2
<1>2. /\ dev.kind \in {"net", "once"} /\ hist.opened < MaxOpens /\ fw' = fw
      /\ IF failed THEN dev' = c.d /\ ip' = c.i /\ nfiles' = nfiles /\ env' = env
         ELSE IF asks /\ p.err # 0 THEN dev' = netif_close(o) /\ ip' = p.ip /\ nfiles' = nfiles /\ env' = env
         ELSE /\ dev' = [o EXCEPT !.opens = @ + 1] /\ nfiles' = nfiles + 1
              /\ ip' = (IF asks THEN p.ip ELSE c.i) /\ env' = (IF asks THEN Say(p.ip) ELSE env)
      /\ hist' = [hist EXCEPT !.opened = @ + 1, !.other = @ \/ switch, !.alone = IF asks /\ ~failed THEN Alone(c.i, a) ELSE @]
      BY DEF net_open
<1> HIDE DEF c
<1>4. (c.i.rootip # 0 => c.i = ip) /\ c.i.rootpath.srv = 0  BY <1>0, <1>1 DEF Params, DevInv, Known
<1>3. asks => p.ip \in Params /\ p.ip.rootpath.srv = 0 /\ (p.err = 0 => (p.ip.rootip = 0 <=> Alone(c.i, a))) /\ (p.err # 0 => p.ip.rootip = 0)
      BY <1>1, <1>4, ParamsFound
<1>5. /\ o \in Devices /\ o.kind = dev.kind /\ o.opens = dev.opens /\ o.root = dev.root /\ o.live = (IF o.sock >= 0 THEN 1 ELSE 0)
      /\ (first => o.sock = 0) /\ (~first => o = c.d) /\ (o.sock >= 0 => o.name \notin {"none", "freed"})
      <2>1. CASE first /\ c.d.sock < 0
            <3>1. c.d.sock = -1 /\ c.d.live = 0  BY <1>1, <2>1
            <3>2. o = netif_open(c.d, name)  BY <2>1
            <3> QED BY <1>1, <2>1, <3>1, <3>2, OpenedInterface
      <2>2. CASE ~(first /\ c.d.sock < 0)
            <3>1. o = c.d  BY <2>2
            <3>2. c.d.sock >= 0 => ~switch /\ c.d = dev  BY <1>1
            <3>3. first => c.d.sock = 0  BY <1>1, <2>2
            <3>4. dev.sock >= 0 => dev.name \notin {"none", "freed"}  BY DEF DevInv, Counts
            <3> QED BY <1>1, <3>1, <3>2, <3>3, <3>4
      <2> QED BY <2>1, <2>2
<1> HIDE DEF o, p
<1>6. ~hist.booted /\ hist'.booted = hist.booted /\ hist'.trap = hist.trap /\ hist'.other = (hist.other \/ switch) /\ hist' \in Histories
      /\ (asks /\ ~failed => hist'.alone = Alone(c.i, a)) /\ (~(asks /\ ~failed) => hist'.alone = hist.alone)
      <2>0. hist.opened \in Nat /\ hist.other \in BOOLEAN /\ hist.alone \in BOOLEAN  BY <1>0 DEF Histories
      <2>a. PICK n \in Nat : n = hist.opened + 1  BY <2>0
      <2>b. PICK b \in BOOLEAN : b = (hist.other \/ switch)  OBVIOUS
      <2>c. PICK q \in BOOLEAN : q = IF asks /\ ~failed THEN Alone(c.i, a) ELSE hist.alone
            BY <2>0 DEF Alone
      <2>1. n = hist.opened + 1 /\ b = (hist.other \/ switch) /\ q = IF asks /\ ~failed THEN Alone(c.i, a) ELSE hist.alone
            BY <2>a, <2>b, <2>c
      <2>2. hist' = [hist EXCEPT !.opened = n, !.other = b, !.alone = q]  BY <1>0, <1>2, <2>1 DEF Histories
      <2>3. ~hist.booted  BY <1>0, <1>2, NetAssumption DEF DevInv, Counts, Histories
      <2> HIDE DEF switch, asks, failed
      <2> QED BY <1>0, <2>1, <2>2, <2>3 DEF Histories
<1>7. Firmware'
      BY <1>2, <1>6 DEF DevInv, Firmware, PxeChecked
<1>8. nfiles > 0 => dev.opens > 0  BY DEF DevInv, Counts
<1>9. CASE failed
      <2>1. dev' = c.d /\ ip' = c.i /\ nfiles' = nfiles /\ env' = env  BY <1>2, <1>9
      <2>2. DevTypes'  BY <1>0, <1>1, <1>2, <1>6, <2>1 DEF DevInv, DevTypes
      <2>3. dev'.opens = 0 /\ dev'.sock = -1 /\ dev'.live = 0 /\ nfiles' = 0 /\ dev'.kind = dev.kind
            BY <1>0, <1>1, <1>8, <1>9, <2>1
      <2>4. Counts'  BY <1>2, <1>6, <2>3 DEF Counts, Once
      <2>5. Known'  BY <1>4, <1>6, <1>9, <2>1, <2>3 DEF DevInv, Known, Told
      <2>6. Handles'  BY <1>2, <2>1, <2>3 DEF DevInv, Handles
      <2> QED BY <1>7, <2>2, <2>4, <2>5, <2>6 DEF DevInv
<1>10. CASE ~failed /\ asks /\ p.err # 0
      <2>1. dev' = netif_close(o) /\ ip' = p.ip /\ nfiles' = nfiles /\ env' = env  BY <1>2, <1>10
      <2>2. dev' \in Devices /\ dev'.opens = 0 /\ dev'.sock = -1 /\ dev'.live = 0 /\ dev'.kind = dev.kind
            BY <1>1, <1>5, <1>10, <2>1, ClosedInterface
      <2>3. DevTypes'  BY <1>0, <1>2, <1>3, <1>6, <1>10, <2>1, <2>2 DEF DevInv, DevTypes
      <2>4. nfiles' = 0  BY <1>0, <1>1, <1>8, <1>10, <2>1
      <2>5. Counts'  BY <1>2, <1>6, <2>2, <2>4 DEF Counts, Once
      <2>6. ip'.rootip = 0  BY <1>3, <1>10, <2>1
      <2>b. ip'.rootpath.srv = 0  BY <1>3, <1>10, <2>1
      <2>7. Known'  BY <2>2, <2>6, <2>b DEF Known
      <2>8. Handles'  BY <1>2, <2>1, <2>2 DEF DevInv, Handles
      <2> QED BY <1>7, <2>3, <2>5, <2>7, <2>8 DEF DevInv
<1>11. CASE ~failed /\ ~(asks /\ p.err # 0)
      <2>1. /\ dev' = [o EXCEPT !.opens = @ + 1] /\ nfiles' = nfiles + 1
            /\ ip' = (IF asks THEN p.ip ELSE c.i) /\ env' = (IF asks THEN Say(p.ip) ELSE env)
            BY <1>2, <1>11
      <2>2. PICK n \in Nat : n = dev.opens + 1 /\ n > 0  BY <1>0
      <2>3. dev' = [o EXCEPT !.opens = n]  BY <1>5, <2>1, <2>2 DEF Devices
      <2>4. /\ dev' \in Devices /\ dev'.kind = dev.kind /\ dev'.opens = n /\ dev'.sock = o.sock /\ dev'.live = o.live /\ dev'.name = o.name
            BY <1>5, <2>3 DEF Devices
      <2>5. asks => /\ env' \in Environments /\ env'.handle = env.handle
                    /\ env'.server = ip'.rootip /\ env'.path = ip'.rootpath.path /\ env'.ip = ip'.myip /\ ip'.rootpath.srv = 0 /\ ip' \in Params
            BY <1>0, <1>3, <1>11, <2>1, SaidParams
      <2>6. ~asks => env' = env /\ ip' = c.i  BY <2>1
      <2>7. DevTypes'  BY <1>0, <1>1, <1>2, <1>6, <2>1, <2>4, <2>5, <2>6 DEF DevInv, DevTypes
      <2>8. ~Once => switch = FALSE  OBVIOUS
      <2>9. ~Once /\ ~first => (dev.sock >= 0 <=> dev.opens > 0) /\ dev.opens = nfiles  BY <1>6 DEF DevInv, Counts
      <2>10. ~Once => dev.opens = nfiles  BY <1>6 DEF DevInv, Counts
      <2>11. Once /\ ~hist.other /\ dev.opens > 0 => dev.sock >= 0  BY <1>6 DEF DevInv, Counts
      <2>12. ~Once => dev'.sock >= 0
            <3>1. CASE first  BY <1>5, <2>4, <3>1
            <3>2. CASE ~first  BY <1>0, <1>1, <1>5, <2>4, <2>9, <3>2
            <3> QED BY <3>1, <3>2
      <2>13. Once /\ ~hist'.other => dev'.sock >= 0
            <3>1. CASE first  BY <1>5, <2>4, <3>1
            <3>2. ASSUME ~first, Once, ~hist'.other PROVE dev'.sock >= 0
                  <4>1. ~hist.other /\ ~switch  BY <1>6, <3>2
                  <4>2. dev.opens > 0 /\ c.d = dev  BY <1>0, <1>1, <3>2, <4>1
                  <4>3. dev.sock >= 0  BY <2>11, <3>2, <4>1, <4>2
                  <4> QED BY <1>5, <2>4, <3>2, <4>2, <4>3
            <3> QED BY <3>1, <3>2
      <2>14. Counts'
             <3>1. Once' = Once  BY <2>4 DEF Once
             <3>2. nfiles' = nfiles + 1 /\ nfiles' > 0 /\ dev'.opens = dev.opens + 1 /\ dev'.opens > 0  BY <1>0, <2>1, <2>2, <2>4
             <3>3. dev'.live = (IF dev'.sock >= 0 THEN 1 ELSE 0) /\ (dev'.sock >= 0 => dev'.name \notin {"none", "freed"})  BY <1>5, <2>4
             <3> HIDE DEF switch, first, failed, asks
             <3> QED BY <1>2, <1>6, <2>4, <2>10, <2>12, <2>13, <3>1, <3>2, <3>3 DEF Counts
      <2>15. ip'.rootpath.srv = 0 /\ (ip'.rootip # 0 => Told' /\ ~hist'.alone)
             <3>1. CASE asks
                   <4>1. Told' /\ ip'.rootpath.srv = 0  BY <2>5, <3>1 DEF Told
                   <4>2. hist'.alone = Alone(c.i, a) /\ ip' = p.ip /\ p.err = 0  BY <1>6, <1>11, <2>1, <3>1
                   <4> HIDE DEF asks
                   <4> QED BY <1>3, <3>1, <4>1, <4>2
             <3>2. CASE ~asks
                   <4>1. ip' = c.i /\ env' = env /\ hist'.alone = hist.alone  BY <1>6, <2>6, <3>2
                   <4> HIDE DEF asks
                   <4> QED BY <1>4, <4>1 DEF DevInv, Known, Told
             <3> QED BY <3>1, <3>2
      <2>16. ~hist'.other => Told' /\ (ip'.rootip = 0 => hist'.alone)
             <3>1. CASE asks
                   <4>1. Told'  BY <2>5, <3>1 DEF Told
                   <4>2. hist'.alone = Alone(c.i, a) /\ ip' = p.ip /\ p.err = 0  BY <1>6, <1>11, <2>1, <3>1
                   <4> HIDE DEF asks
                   <4> QED BY <1>3, <3>1, <4>1, <4>2
             <3>2. CASE ~asks /\ first
                   <4>1. ip'.rootip # 0  BY <2>6, <3>2
                   <4> QED BY <2>15, <4>1
             <3>3. CASE ~first
                   <4>1. dev.opens > 0 /\ ip' = c.i /\ env' = env /\ hist'.alone = hist.alone  BY <1>0, <1>1, <1>6, <2>6, <3>3
                   <4>2. ~hist'.other => ~hist.other /\ c.i = ip  BY <1>1, <1>6
                   <4> QED BY <1>6, <4>1, <4>2 DEF DevInv, Known, Told
             <3> QED BY <3>1, <3>2, <3>3
      <2>17. Known'  BY <2>15, <2>16 DEF Known
      <2>18. env'.handle = env.handle  BY <2>5, <2>6
      <2>19. Handles'  BY <1>2, <2>4, <2>18 DEF DevInv, Handles
      <2> QED BY <1>7, <2>7, <2>14, <2>17, <2>19 DEF DevInv
<1> QED BY <1>9, <1>10, <1>11

LEMMA NetCloseKeeps ==
    ASSUME DevInv, net_close
    PROVE  DevInv'
<1>0. /\ dev \in Devices /\ ip \in Params /\ hist \in Histories /\ nfiles \in Nat /\ dev.opens \in Nat /\ dev.sock \in {-1, 0}
      /\ env' = env /\ fw' = fw /\ hist' = hist /\ nfiles > 0 /\ nfiles' = nfiles - 1 /\ nfiles' \in Nat /\ dev.kind \in {"net", "once"}
      /\ dev.live = (IF dev.sock >= 0 THEN 1 ELSE 0) /\ dev.opens > 0 /\ ~hist.booted
      BY DEF DevInv, DevTypes, Counts, Devices, net_close
<1>1. Firmware'  BY <1>0 DEF DevInv, Firmware, PxeChecked
<1>2. CASE Once
      <2>1. dev' = dev /\ ip' = ip  BY <1>2 DEF net_close
      <2>2. DevTypes'  BY <1>0, <2>1 DEF DevInv, DevTypes
      <2>3. Counts'  BY <1>0, <1>2, <2>1 DEF DevInv, Counts, Once
      <2>4. Known' /\ Handles'  BY <1>0, <2>1 DEF DevInv, Known, Told, Handles
      <2> QED BY <1>1, <2>2, <2>3, <2>4 DEF DevInv
<1>3. CASE ~Once /\ dev.opens - 1 > 0
      <2>1. dev' = [dev EXCEPT !.opens = @ - 1] /\ ip' = ip  BY <1>0, <1>3 DEF net_close
      <2>2. PICK n \in Nat : n = dev.opens - 1 /\ n > 0  BY <1>0, <1>3
      <2>3. dev' = [dev EXCEPT !.opens = n]  BY <1>0, <2>1, <2>2 DEF Devices
      <2>4. dev' \in Devices /\ dev'.kind = dev.kind /\ dev'.opens = n /\ dev'.sock = dev.sock /\ dev'.live = dev.live /\ dev'.name = dev.name
            BY <1>0, <2>3 DEF Devices
      <2>5. DevTypes'  BY <1>0, <2>1, <2>4 DEF DevInv, DevTypes
      <2>6. Counts'  BY <1>0, <1>3, <2>2, <2>4 DEF DevInv, Counts, Once
      <2>7. Known' /\ Handles'  BY <1>0, <2>1, <2>4 DEF DevInv, Known, Told, Handles
      <2> QED BY <1>1, <2>5, <2>6, <2>7 DEF DevInv
<1>4. CASE ~Once /\ ~(dev.opens - 1 > 0)
      <2> DEFINE e == [dev EXCEPT !.opens = 0]
                 c == Cleaned(e, ip)
      <2>1. dev' = c.d /\ ip' = c.i  BY <1>0, <1>4 DEF net_close
      <2>2. e \in Devices /\ e.kind = dev.kind /\ e.opens = 0 /\ e.sock = dev.sock /\ e.live = dev.live  BY <1>0 DEF Devices
      <2> HIDE DEF e
      <2>3. /\ c.d \in Devices /\ c.d.kind = dev.kind /\ c.d.opens = 0 /\ c.d.sock = -1 /\ c.d.live = 0
            /\ c.i \in Params /\ c.i \in {ip, [ip EXCEPT !.rootip = 0]}
            BY <1>0, <2>2, CleanedDevice
      <2> HIDE DEF c
      <2>4. DevTypes'  BY <1>0, <2>1, <2>3 DEF DevInv, DevTypes
      <2>5. dev.opens = 1 /\ nfiles = 1  BY <1>0, <1>4 DEF DevInv, Counts
      <2>6. Counts'  BY <1>0, <2>1, <2>3, <2>5 DEF DevInv, Counts, Once
      <2>7. (c.i.rootip # 0 => c.i = ip) /\ c.i.rootpath.srv = 0  BY <1>0, <2>3 DEF Params, DevInv, Known
      <2>8. Known'  BY <1>0, <2>1, <2>3, <2>7 DEF DevInv, Known, Told
      <2>9. Handles'  BY <1>0, <2>1, <2>3 DEF DevInv, Handles
      <2> QED BY <1>1, <2>4, <2>6, <2>8, <2>9 DEF DevInv
<1> QED BY <1>2, <1>3, <1>4

LEMMA NetCleanupKeeps ==
    ASSUME DevInv, net_cleanup
    PROVE  DevInv'
<1> DEFINE c == Cleaned(dev, ip)
<1>0. /\ dev \in Devices /\ ip \in Params /\ hist \in Histories /\ env' = env /\ fw' = fw /\ nfiles' = 0 /\ dev.kind \in {"net", "once"}
      /\ dev' = c.d /\ ip' = c.i /\ hist' = [hist EXCEPT !.booted = TRUE, !.opened = MaxOpens]
      /\ dev.live = (IF dev.sock >= 0 THEN 1 ELSE 0)
      BY DEF DevInv, DevTypes, Counts, net_cleanup
<1>1. /\ c.d \in Devices /\ c.d.kind = dev.kind /\ c.d.sock = -1 /\ c.d.live = 0 /\ c.i \in Params /\ c.i \in {ip, [ip EXCEPT !.rootip = 0]}
      BY <1>0, CleanedDevice
<1> HIDE DEF c
<1>2. /\ hist' \in Histories /\ hist'.booted /\ hist'.opened = MaxOpens /\ hist'.trap = hist.trap /\ hist'.other = hist.other /\ hist'.alone = hist.alone
      BY <1>0, NetAssumption DEF Histories
<1>3. Firmware'  BY <1>0, <1>2 DEF DevInv, Firmware, PxeChecked
<1>4. DevTypes'  BY <1>0, <1>1, <1>2 DEF DevInv, DevTypes
<1>5. Counts'  BY <1>0, <1>1, <1>2 DEF Counts, Once
<1>6. (c.i.rootip # 0 => c.i = ip) /\ c.i.rootpath.srv = 0  BY <1>0, <1>1 DEF Params, DevInv, Known
<1>7. Known'  BY <1>0, <1>2, <1>6 DEF DevInv, Known, Told
<1>8. Handles'  BY <1>0, <1>1 DEF DevInv, Handles
<1> QED BY <1>3, <1>4, <1>5, <1>7, <1>8 DEF DevInv

LEMMA PxeInitKeeps ==
    ASSUME DevInv, pxe_init
    PROVE  DevInv'
<1> DEFINE ok == fw.pxenv.sig /\ fw.pxenv.short /\ fw.pxenv.sum
           bang == fw.pxenv.version >= 2 /\ fw.bang.sig /\ fw.bang.sum
<1>0. fw \in FirmwareStates /\ fw.state = "enabled" /\ UNCHANGED <<dev, ip, env, hist, nfiles>> /\ fw.call = "NULL"
      BY DEF DevInv, DevTypes, Firmware, pxe_init
<1>1. fw' = IF ~ok THEN [fw EXCEPT !.state = "none", !.pxenv_p = FALSE]
            ELSE [fw EXCEPT !.state = IF fw.gci THEN "ready" ELSE "none", !.call = IF bang THEN "bangpxe" ELSE "pxenv",
                            !.pxe_p = IF fw.pxenv.version >= 2 THEN bang /\ fw.gci ELSE fw.gci]
      BY DEF pxe_init
<1>2. DevTypes' /\ Firmware'
      <2>1. CASE ~ok
            <3>1. fw' = [fw EXCEPT !.state = "none", !.pxenv_p = FALSE]  BY <1>1, <2>1
            <3>2. fw' \in FirmwareStates /\ fw'.call = "NULL" /\ fw'.state = "none" /\ fw'.gci = fw.gci  BY <1>0, <3>1 DEF FirmwareStates
            <3> QED BY <1>0, <3>2 DEF DevInv, DevTypes, Firmware, PxeChecked
      <2>2. CASE ok
            <3>1. PICK s \in {"ready", "none"} : s = IF fw.gci THEN "ready" ELSE "none"  OBVIOUS
            <3>2. PICK k \in {"bangpxe", "pxenv"} : k = IF bang THEN "bangpxe" ELSE "pxenv"  OBVIOUS
            <3>3. fw.gci \in BOOLEAN /\ fw.pxenv_p \in BOOLEAN /\ fw.bang \in [sig : BOOLEAN, sum : BOOLEAN]  BY <1>0 DEF FirmwareStates
            <3>4. PICK b \in BOOLEAN : b = IF fw.pxenv.version >= 2 THEN bang /\ fw.gci ELSE fw.gci  BY <3>3
            <3>5. fw' = [fw EXCEPT !.state = s, !.call = k, !.pxe_p = b]  BY <1>1, <2>2, <3>1, <3>2, <3>4
            <3>6. /\ fw' \in FirmwareStates /\ fw'.call = k /\ fw'.state = s /\ fw'.gci = fw.gci /\ fw'.pxenv_p = fw.pxenv_p
                  /\ fw'.pxe_p = b /\ fw'.bang = fw.bang
                  BY <1>0, <3>5 DEF FirmwareStates
            <3>7. fw.pxenv_p  BY <1>0 DEF DevInv, Firmware
            <3>8. k = "bangpxe" => bang  BY <3>2
            <3>9. k = "bangpxe" /\ fw.gci => b /\ fw.bang.sum  BY <3>4, <3>8
            <3>10. hist.trap => ~fw.gci  BY DEF DevInv, Firmware, PxeChecked
            <3> HIDE DEF ok, bang
            <3> QED BY <1>0, <3>6, <3>7, <3>9, <3>10 DEF DevInv, DevTypes, Firmware, PxeChecked
      <2> QED BY <2>1, <2>2
<1>3. Counts' /\ Known' /\ Handles'  BY <1>0 DEF DevInv, Counts, Known, Told, Handles, Once
<1> QED BY <1>2, <1>3 DEF DevInv

LEMMA PxeOpenKeeps ==
    ASSUME DevInv, NEW a \in Answers, NEW udp \in BOOLEAN, pxe_open(a, udp)
    PROVE  DevInv'
<1> DEFINE opened == dev.sock >= 0 \/ pxe_netif_probe(udp) = "ok"
           o == IF dev.sock < 0 THEN netif_open(dev, "pxe") ELSE dev
           b == bootp(ip, a)
           t == [b EXCEPT !.rootip = IF @ = 0 THEN PxeSip ELSE @, !.rootpath = IF @ = NoPath THEN [srv |-> 0, path |-> "/pxeroot"] ELSE @]
<1>0. /\ dev \in Devices /\ ip \in Params /\ env \in Environments /\ hist \in Histories /\ nfiles \in Nat /\ fw \in FirmwareStates
      /\ dev.sock \in {-1, 0} /\ dev.opens \in Nat /\ dev.live = (IF dev.sock >= 0 THEN 1 ELSE 0) /\ dev.kind = "pxe" /\ fw' = fw /\ fw.state # "enabled"
      /\ ~hist.booted /\ ~hist.alone /\ ~hist.other /\ dev.opens = nfiles /\ (dev.sock >= 0 <=> dev.opens > 0)
      BY DEF DevInv, DevTypes, Counts, Once, Devices, pxe_open
<1>1. CASE dev.opens = 0 /\ ~opened
      <2>1. UNCHANGED <<dev, ip, env, nfiles>> /\ hist' = [hist EXCEPT !.opened = @ + 1, !.trap = @ \/ pxe_netif_probe(udp) = "trap"]
            BY <1>1 DEF pxe_open
      <2>2. PICK n \in Nat : n = hist.opened + 1  BY <1>0 DEF Histories
      <2>3. PICK r \in BOOLEAN : r = (hist.trap \/ pxe_netif_probe(udp) = "trap")  OBVIOUS
      <2>4. hist' = [hist EXCEPT !.opened = n, !.trap = r]  BY <1>0, <2>1, <2>2, <2>3 DEF Histories
      <2>5. /\ hist' \in Histories /\ hist'.trap = r /\ hist'.other = hist.other /\ hist'.alone = hist.alone /\ hist'.booted = hist.booted
            BY <1>0, <2>4 DEF Histories
      <2>6. r => ~fw.gci
            BY <1>0, <2>3 DEF DevInv, Firmware, PxeChecked, pxe_netif_probe, pxe_call, pxenv_call, bangpxe_call, FirmwareStates
      <2>7. DevTypes'  BY <1>0, <2>1, <2>5 DEF DevInv, DevTypes
      <2>8. Counts'  BY <1>0, <2>1, <2>5 DEF DevInv, Counts, Once
      <2>9. Known' /\ Handles'  BY <1>0, <2>1, <2>5 DEF DevInv, Known, Told, Handles
      <2>10. Firmware'  BY <1>0, <2>5, <2>6 DEF DevInv, Firmware, PxeChecked
      <2> QED BY <2>7, <2>8, <2>9, <2>10 DEF DevInv
<1>2. CASE ~(dev.opens = 0 /\ ~opened)
      <2>1. /\ dev' = [(IF dev.opens = 0 THEN o ELSE dev) EXCEPT !.opens = @ + 1] /\ nfiles' = nfiles + 1
            /\ (dev.opens = 0 /\ ip.rootip = 0 => ip' = Split(t) /\ env' = Say(Split(t)))
            /\ (~(dev.opens = 0 /\ ip.rootip = 0) => ip' = ip /\ env' = env)
            /\ hist' = [hist EXCEPT !.opened = @ + 1]
            BY <1>2 DEF pxe_open
      <2>2. PICK n \in Nat : n = dev.opens + 1 /\ n > 0  BY <1>0
      <2>3. PICK k \in Nat : k = hist.opened + 1  BY <1>0 DEF Histories
      <2>4. hist' = [hist EXCEPT !.opened = k]  BY <1>0, <2>1, <2>3 DEF Histories
      <2>5. /\ hist' \in Histories /\ hist'.trap = hist.trap /\ hist'.other = hist.other /\ hist'.alone = hist.alone /\ hist'.booted = hist.booted
            BY <1>0, <2>4 DEF Histories
      <2>6. PICK e \in Devices : /\ e = (IF dev.opens = 0 THEN o ELSE dev) /\ e.kind = "pxe" /\ e.opens = dev.opens /\ e.sock = 0 /\ e.live = 1
                                 /\ e.name \notin {"none", "freed"}
            <3>1. CASE dev.opens = 0
                  <4>1. dev.sock = -1 /\ dev.live = 0  BY <1>0, <3>1
                  <4>2. o = netif_open(dev, "pxe")  BY <4>1
                  <4> QED BY <1>0, <3>1, <4>1, <4>2, OpenedInterface
            <3>2. CASE dev.opens # 0
                  <4>1. dev.sock = 0 /\ dev.live = 1  BY <1>0, <3>2
                  <4>2. dev.name \notin {"none", "freed"}  BY <4>1 DEF DevInv, Counts
                  <4> QED BY <1>0, <3>2, <4>1, <4>2
            <3> QED BY <3>1, <3>2
      <2>7. dev' = [e EXCEPT !.opens = n]  BY <2>1, <2>2, <2>6 DEF Devices
      <2>8. dev' \in Devices /\ dev'.kind = "pxe" /\ dev'.opens = n /\ dev'.sock = 0 /\ dev'.live = 1 /\ dev'.name = e.name
            BY <2>6, <2>7 DEF Devices
      <2>9. dev.opens = 0 /\ ip.rootip = 0 =>
              /\ ip' \in Params /\ env' \in Environments /\ env'.handle = env.handle /\ ip'.rootip # 0
              /\ ip'.rootpath.srv = 0 /\ env'.server = ip'.rootip /\ env'.path = ip'.rootpath.path /\ env'.ip = ip'.myip
            <3>1. b \in Params  BY <1>0, BootpParams
            <3> HIDE DEF b
            <3>2. PICK r \in Nat : r = IF b.rootip = 0 THEN PxeSip ELSE b.rootip  BY <3>1 DEF Params, PxeSip
            <3>3. [srv |-> 0, path |-> "/pxeroot"] \in Roots  BY DEF Roots, PathNames
            <3>4. PICK q \in Roots : q = IF b.rootpath = NoPath THEN [srv |-> 0, path |-> "/pxeroot"] ELSE b.rootpath  BY <3>1, <3>3 DEF Params
            <3>5. t = [b EXCEPT !.rootip = r, !.rootpath = q]  BY <3>1, <3>2, <3>4 DEF Params
            <3>a. r # 0  BY <3>2 DEF PxeSip
            <3> HIDE DEF t
            <3>b. t \in Params /\ t.rootip = r  BY <3>1, <3>5 DEF Params
            <3>6. t \in Params /\ t.rootip = r /\ r # 0  BY <3>a, <3>b
            <3>7. Split(t) \in Params /\ Split(t).rootpath.srv = 0  BY <3>6, SplitParams
            <3>8. Split(t).rootip # 0  BY <3>6 DEF Split, Params
            <3> QED BY <1>0, <2>1, <3>7, <3>8, SaidParams
      <2>10. ~(dev.opens = 0 /\ ip.rootip = 0) => ip' = ip /\ env' = env  BY <2>1
      <2>11. DevTypes'  BY <1>0, <2>1, <2>5, <2>8, <2>9, <2>10 DEF DevInv, DevTypes
      <2>12. Counts'  BY <1>0, <2>1, <2>2, <2>5, <2>6, <2>8 DEF Counts, Once
      <2>13. ip'.rootip # 0 /\ ip'.rootpath.srv = 0 /\ env'.server = ip'.rootip /\ env'.path = ip'.rootpath.path /\ env'.ip = ip'.myip
             <3>1. CASE dev.opens = 0 /\ ip.rootip = 0  BY <2>9, <3>1
             <3>2. CASE ~(dev.opens = 0 /\ ip.rootip = 0)
                   <4>1. ip.rootip # 0  BY <1>0, <3>2 DEF DevInv, Known
                   <4> QED BY <2>10, <3>2, <4>1 DEF DevInv, Known, Told
             <3> QED BY <3>1, <3>2
      <2>14. Known'  BY <1>0, <2>5, <2>13 DEF Known, Told
      <2>15. Handles'
             <3>1. CASE dev.opens = 0 /\ ip.rootip = 0
                   <4>1. env.handle \in {<<>>, <<0, "NULL">>}  BY <3>1 DEF DevInv, Handles
                   <4> QED BY <2>8, <2>9, <3>1, <4>1 DEF Handles
             <3>2. CASE ~(dev.opens = 0 /\ ip.rootip = 0)
                   BY <2>8, <2>10, <3>2 DEF DevInv, Handles
             <3> QED BY <3>1, <3>2
      <2>16. Firmware'  BY <1>0, <2>5 DEF DevInv, Firmware, PxeChecked
      <2> QED BY <2>11, <2>12, <2>14, <2>15, <2>16 DEF DevInv
<1> QED BY <1>1, <1>2

LEMMA PxeCloseKeeps ==
    ASSUME DevInv, NEW mounted \in BOOLEAN, pxe_close(mounted)
    PROVE  DevInv'
<1>0. /\ dev \in Devices /\ ip \in Params /\ env \in Environments /\ nfiles \in Nat /\ dev.sock \in {-1, 0} /\ dev.opens \in Nat
      /\ dev.live = (IF dev.sock >= 0 THEN 1 ELSE 0) /\ dev.kind = "pxe" /\ ip' = ip /\ fw' = fw /\ hist' = hist
      /\ nfiles > 0 /\ nfiles' = nfiles - 1 /\ nfiles' \in Nat
      /\ ~hist.booted /\ ~hist.alone /\ ~hist.other /\ dev.opens = nfiles /\ (dev.sock >= 0 <=> dev.opens > 0)
      BY DEF DevInv, DevTypes, Counts, Once, Devices, pxe_close
<1>1. /\ ip.rootip # 0 /\ env.server = ip.rootip /\ env.path = ip.rootpath.path /\ ip.rootip \in Nat /\ ip.rootpath.path \in PathNames
      BY <1>0 DEF DevInv, Known, Told, Params, Roots
<1>2. Firmware'  BY <1>0 DEF DevInv, Firmware, PxeChecked
<1>3. CASE dev.opens - 1 > 0
      <2>1. PICK n \in Nat : n = dev.opens - 1 /\ n > 0  BY <1>0, <1>3
      <2>2. dev' = [dev EXCEPT !.opens = n] /\ env' = env  BY <1>0, <1>3, <2>1 DEF pxe_close, Devices
      <2>3. dev' \in Devices /\ dev'.kind = "pxe" /\ dev'.opens = n /\ dev'.sock = dev.sock /\ dev'.live = dev.live /\ dev'.name = dev.name
            BY <1>0, <2>2 DEF Devices
      <2>4. DevTypes'  BY <1>0, <2>2, <2>3 DEF DevInv, DevTypes
      <2>5. Counts'  BY <1>0, <2>1, <2>3 DEF DevInv, Counts, Once
      <2>6. Known' /\ Handles'  BY <1>0, <1>1, <2>2, <2>3 DEF DevInv, Known, Told, Handles
      <2> QED BY <1>2, <2>4, <2>5, <2>6 DEF DevInv
<1>4. CASE ~(dev.opens - 1 > 0)
      <2>1. env' = pxe_setnfshandle(mounted) /\ dev' = [netif_close(dev) EXCEPT !.opens = 0, !.root = TRUE]
            BY <1>0, <1>4 DEF pxe_close
      <2>2. PICK e \in Devices : e = netif_close(dev) /\ e.kind = "pxe" /\ e.sock = -1 /\ e.live = 0
            <3>1. dev.sock = 0 /\ dev.live = 1  BY <1>0
            <3> QED BY <1>0, <3>1, ClosedInterface
      <2>3. dev' = [e EXCEPT !.opens = 0, !.root = TRUE]  BY <2>1, <2>2
      <2>4. dev' \in Devices /\ dev'.kind = "pxe" /\ dev'.opens = 0 /\ dev'.sock = -1 /\ dev'.live = 0
            BY <2>2, <2>3 DEF Devices
      <2>5. PICK h : /\ env' = [env EXCEPT !.handle = h] /\ h \in {env.handle, <<ip.rootip, ip.rootpath.path>>, <<0, "NULL">>}
            BY <1>0, <2>1 DEF pxe_setnfshandle, Environments
      <2>6. h \in {<<>>} \union (Nat \X PathNames)
            <3>1. <<0, "NULL">> \in Nat \X PathNames /\ <<ip.rootip, ip.rootpath.path>> \in Nat \X PathNames  BY <1>1 DEF PathNames
            <3>2. env.handle \in {<<>>} \union (Nat \X PathNames)  BY <1>0 DEF Environments
            <3> QED BY <2>5, <3>1, <3>2
      <2>7. env' \in Environments /\ env'.handle = h /\ env'.server = env.server /\ env'.path = env.path /\ env'.ip = env.ip
            <3>1. env'.handle = h /\ env'.server = env.server /\ env'.path = env.path /\ env'.ip = env.ip  BY <1>0, <2>5 DEF Environments
            <3> DEFINE H == {<<>>} \union (Nat \X PathNames)
            <3>2. env \in [ip : Nat, netmask : Nat, gateway : Nat, server : Nat, path : PathNames, handle : H] /\ h \in H  BY <1>0, <2>6 DEF Environments
            <3> HIDE DEF H
            <3>3. env' \in [ip : Nat, netmask : Nat, gateway : Nat, server : Nat, path : PathNames, handle : H]  BY <2>5, <3>2
            <3> QED BY <3>1, <3>3 DEF H, Environments
      <2>8. DevTypes'  BY <1>0, <2>4, <2>7 DEF DevInv, DevTypes
      <2>9. Counts'  BY <1>0, <1>4, <2>4 DEF Counts, Once
      <2>10. Known'  BY <1>0, <1>1, <2>4, <2>7 DEF DevInv, Known, Told
      <2>11. Handles'
             <3>1. env.handle \notin {<<>>, <<0, "NULL">>} => env.handle = <<env.server, env.path>>  BY DEF DevInv, Handles
             <3> QED BY <1>0, <1>1, <2>4, <2>5, <2>7, <3>1 DEF Handles
      <2> QED BY <1>2, <2>8, <2>9, <2>10, <2>11 DEF DevInv
<1> QED BY <1>3, <1>4

LEMMA DevStarts ==
    ASSUME DevInit
    PROVE  DevInv
<1>1. PICK k \in Kinds : dev = [kind |-> k, sock |-> -1, opens |-> 0, name |-> "none", live |-> 0, root |-> FALSE]  BY DEF DevInit, Kinds
<1>2. PICK f \in PxeFirmwares : fw = [state |-> "enabled", pxenv |-> f.pxenv, bang |-> f.bang, gci |-> f.gci, call |-> "NULL", pxenv_p |-> TRUE, pxe_p |-> TRUE]
      BY DEF DevInit
<1>3. PICK z \in {-1, 0} : z = -1  OBVIOUS
<1>4. dev = [kind |-> k, sock |-> z, opens |-> 0, name |-> "none", live |-> 0, root |-> FALSE]  BY <1>1, <1>3
<1>5. dev \in Devices  BY <1>4 DEF Devices
<1>6. ip = [myip |-> 0, netmask |-> 0, gateip |-> 0, rootip |-> 0, rootpath |-> NoPath] /\ NoPath \in Roots  BY DEF DevInit, NoPath, Roots, PathNames
<1>7. ip \in Params  BY <1>6 DEF Params
<1>8. env = [ip |-> 0, netmask |-> 0, gateway |-> 0, server |-> 0, path |-> "NULL", handle |-> <<>>]  BY DEF DevInit
<1>9. env \in Environments  BY <1>8 DEF Environments, PathNames
<1>10. fw \in FirmwareStates  BY <1>2, NetAssumption DEF FirmwareStates
<1>11. hist = [opened |-> 0, other |-> FALSE, alone |-> FALSE, booted |-> FALSE, trap |-> FALSE] /\ nfiles = 0  BY DEF DevInit
<1>12. hist \in Histories /\ nfiles \in Nat  BY <1>11 DEF Histories
<1>13. DevTypes  BY <1>5, <1>7, <1>9, <1>10, <1>12 DEF DevTypes
<1>14. Counts  BY <1>1, <1>11 DEF Counts, Once, Kinds
<1>15. Known  BY <1>1, <1>6 DEF Known, NoPath
<1>16. Handles  BY <1>8 DEF Handles
<1>17. Firmware  BY <1>2, <1>11 DEF Firmware, PxeChecked
<1> QED BY <1>13, <1>14, <1>15, <1>16, <1>17 DEF DevInv

LEMMA DevKeeps ==
    ASSUME DevInv, DevNext
    PROVE  DevInv'
BY NetOpenKeeps, NetCloseKeeps, NetCleanupKeeps, PxeInitKeeps, PxeOpenKeeps, PxeCloseKeeps DEF DevNext

LEMMA DevSafe ==
    ASSUME DevInv
    PROVE  NetSafe
<1>1. Balanced  BY DEF DevInv, Counts, Balanced
<1>2. ParamsKnown  BY DEF DevInv, Counts, Known, Told, ParamsKnown
<1>3. HandleOfRoot  BY DEF DevInv, Handles, HandleOfRoot
<1> QED BY <1>1, <1>2, <1>3 DEF DevInv, Firmware, NetSafe

-----------------------------------------------------------------------------
(* The download *)
LEMMA Transfer91 ==
    ASSUME TftpTypes, NEW q \in Ports
    PROVE  /\ transfers[q] \in Transfers91 /\ transfers[q].file \in Files91 /\ transfers[q].n \in Nat /\ transfers[q].n > 0
           /\ FileOf(q) \in Seq(Text) /\ Len(FileOf(q)) \in Nat /\ Len(FileOf(q)) > 0 /\ q \in Nat /\ q > 0
<1>1. transfers[q] \in Transfers91 /\ q \in Nat /\ q > 0  BY DEF TftpTypes, Ports
<1>2. transfers[q].file \in Files91 /\ transfers[q].n \in Nat /\ transfers[q].n > 0  BY <1>1 DEF Transfers91
<1>3. FileOf(q) \in Seq(Text) /\ FileOf(q) # <<>>  BY <1>2, TftpAssumption DEF Files91, FileOf, Text
<1> QED BY <1>1, <1>2, <1>3

\* The number of a block says which one it is, but for the last of 2^16.
LEMMA BlockNumber ==
    ASSUME NEW n \in Nat, n <= BLOCKNUMS
    PROVE  (n < BLOCKNUMS => n % BLOCKNUMS = n) /\ (n = BLOCKNUMS => n % BLOCKNUMS = 0)
<1>1. BLOCKNUMS \in Nat /\ BLOCKNUMS > 0  BY TftpAssumption
<1>2. n < BLOCKNUMS => n % BLOCKNUMS = n  BY <1>1
<1>3. BLOCKNUMS % BLOCKNUMS = 0  BY <1>1
<1> QED BY <1>2, <1>3

\* A packet that may arrive may arrive later, whatever the step did.
LEMMA PacketStays ==
    ASSUME TftpTypes, NEW m, PacketOK(m), ndl' \in Nat, Len(dl.got) \in Nat, Len(dl'.got) \in Nat,
           \A q \in Ports : /\ q \in Ports' /\ transfers'[q].file = transfers[q].file /\ transfers'[q].dl = transfers[q].dl
                            /\ (transfers'[q].n = transfers[q].n \/ (transfers'[q].n \in Nat /\ transfers'[q].n >= transfers[q].n))
                            /\ transfers[q].dl \in 1 .. ndl,
           \/ ndl' = ndl + 1
           \/ /\ ndl' = ndl /\ dl'.file = dl.file /\ (dl'.state = "busy" => dl.state = "busy" /\ serverIP' = serverIP /\ (serverMACSet => serverMACSet'))
              /\ (dl'.got = dl.got \/ Len(dl'.got) >= Len(dl.got)) /\ (serverPort' = serverPort \/ serverPort = RRQPORT)
    PROVE  PacketOK(m)'
<1>0. ndl \in Nat /\ BLOCKNUMS \in Nat  BY TftpAssumption DEF TftpTypes
<1>1. m.k = "data" => m.port \in Ports' /\ \E n \in 1 .. Len(FileOf(m.port)') : Sent91(m, n)'
      <2> SUFFICES ASSUME m.k = "data" PROVE m.port \in Ports' /\ \E n \in 1 .. Len(FileOf(m.port)') : Sent91(m, n)'
          OBVIOUS
      <2>1. m.port \in Ports  BY DEF PacketOK
      <2>2. PICK n \in 1 .. Len(FileOf(m.port)) : Sent91(m, n)  BY DEF PacketOK
      <2>3. FileOf(m.port)' = FileOf(m.port)  BY <2>1 DEF FileOf
      <2>4. n <= transfers'[m.port].n
            <3>1. transfers[m.port].n \in Nat /\ Len(FileOf(m.port)) \in Nat  BY <2>1, Transfer91
            <3>2. n <= transfers[m.port].n  BY <2>2 DEF Sent91
            <3>3. transfers'[m.port].n = transfers[m.port].n \/ (transfers'[m.port].n \in Nat /\ transfers'[m.port].n >= transfers[m.port].n)  BY <2>1
            <3>4. CASE transfers'[m.port].n = transfers[m.port].n  BY <3>2, <3>4
            <3>5. CASE transfers'[m.port].n \in Nat /\ transfers'[m.port].n >= transfers[m.port].n  BY <3>1, <3>2, <3>5
            <3> QED BY <3>3, <3>4, <3>5
      <2>5. Sent91(m, n)'  BY <2>1, <2>2, <2>4 DEF Sent91, DataPacket
      <2> QED BY <2>1, <2>2, <2>3, <2>5
<1>2. m.k = "tftp" /\ m.what.op = "RRQ" =>
        m.what.dl \in 1 .. ndl' /\ (m.what.dl = ndl' => m.what.file = dl'.file /\ (dl'.state = "busy" => m.ip = serverIP' /\ serverMACSet'))
      <2> SUFFICES ASSUME m.k = "tftp", m.what.op = "RRQ"
                   PROVE m.what.dl \in 1 .. ndl' /\ (m.what.dl = ndl' => m.what.file = dl'.file /\ (dl'.state = "busy" => m.ip = serverIP' /\ serverMACSet'))
          OBVIOUS
      <2>1. m.what.dl \in 1 .. ndl /\ (m.what.dl = ndl => m.what.file = dl.file /\ (dl.state = "busy" => m.ip = serverIP /\ serverMACSet))  BY DEF PacketOK
      <2>2. CASE ndl' = ndl + 1  BY <1>0, <2>1, <2>2
      <2>3. CASE ndl' = ndl /\ dl'.file = dl.file /\ (dl'.state = "busy" => dl.state = "busy" /\ serverIP' = serverIP /\ (serverMACSet => serverMACSet'))
            BY <2>1, <2>3
      <2> QED BY <2>2, <2>3
<1>3. m.k = "tftp" /\ m.what.op = "ACK" =>
        /\ m.port \in Ports' /\ m.what.block \in 1 .. BLOCKNUMS - 1 /\ (m.mac # m.ip => transfers'[m.port].dl # ndl')
        /\ transfers'[m.port].dl = ndl' => m.port = serverPort' /\ m.what.block <= Len(dl'.got)
      <2> SUFFICES ASSUME m.k = "tftp", m.what.op = "ACK"
                   PROVE /\ m.port \in Ports' /\ m.what.block \in 1 .. BLOCKNUMS - 1 /\ (m.mac # m.ip => transfers'[m.port].dl # ndl')
                         /\ transfers'[m.port].dl = ndl' => m.port = serverPort' /\ m.what.block <= Len(dl'.got)
          OBVIOUS
      <2>1. /\ m.port \in Ports /\ m.what.block \in 1 .. BLOCKNUMS - 1 /\ (m.mac # m.ip => transfers[m.port].dl # ndl)
            /\ transfers[m.port].dl = ndl => m.port = serverPort /\ m.what.block <= Len(dl.got)  BY DEF PacketOK
      <2>2. m.port # RRQPORT /\ m.port \in Ports' /\ transfers'[m.port].dl = transfers[m.port].dl /\ transfers[m.port].dl \in 1 .. ndl
            BY <2>1, Transfer91 DEF RRQPORT
      <2>3. CASE ndl' = ndl + 1  BY <1>0, <2>1, <2>2, <2>3
      <2>4. CASE ndl' = ndl /\ (dl'.got = dl.got \/ Len(dl'.got) >= Len(dl.got)) /\ (serverPort' = serverPort \/ serverPort = RRQPORT)
            <3>1. m.what.block <= Len(dl.got) => m.what.block <= Len(dl'.got)  BY <1>0, <2>1, <2>4
            <3> QED BY <2>1, <2>2, <2>4, <3>1
      <2> QED BY <2>3, <2>4
<1>4. PacketOK(m)' <=>
        /\ m.k \in {"arp request", "arp reply", "tftp", "data", "other"}
        /\ m.k = "arp reply" => m.mac = m.ip
        /\ m.k = "data" => m.port \in Ports' /\ \E n \in 1 .. Len(FileOf(m.port)') : Sent91(m, n)'
        /\ m.k = "tftp" => m.what.op \in {"RRQ", "ACK"} /\ m.ip \in Hosts91
        /\ m.k = "tftp" /\ m.what.op = "RRQ" =>
              /\ m.what.dl \in 1 .. ndl' /\ m.mac = m.ip
              /\ m.what.dl = ndl' => m.what.file = dl'.file /\ (dl'.state = "busy" => m.ip = serverIP' /\ serverMACSet')
        /\ m.k = "tftp" /\ m.what.op = "ACK" =>
              /\ m.port \in Ports' /\ m.what.block \in 1 .. BLOCKNUMS - 1 /\ (m.mac # m.ip => transfers'[m.port].dl # ndl')
              /\ transfers'[m.port].dl = ndl' => m.port = serverPort' /\ m.what.block <= Len(dl'.got)
      BY DEF PacketOK, Hosts91
<1>5. /\ m.k \in {"arp request", "arp reply", "tftp", "data", "other"} /\ (m.k = "arp reply" => m.mac = m.ip)
      /\ m.k = "tftp" => m.what.op \in {"RRQ", "ACK"} /\ m.ip \in Hosts91
      /\ m.k = "tftp" /\ m.what.op = "RRQ" => m.mac = m.ip
      BY DEF PacketOK
<1> QED BY <1>1, <1>2, <1>3, <1>4, <1>5

\* The addresses are set only while no download is under way.
LEMMA SetKeeps ==
    ASSUME TftpInv, dl.state # "busy", UNCHANGED <<ackBlock, serverPort, dl, sent91, transfers, ndl>>,
           serverIP' \in Hosts91, serverMACAddr' = serverMACAddr, serverMACSet' \in BOOLEAN, serverMACSet' => serverMACSet /\ serverIP' = serverIP
    PROVE  TftpInv'
<1>1. TftpTypes'  BY DEF TftpInv, TftpTypes
<1>2. Opened91'  BY DEF TftpInv, Opened91, Ports, FileOf
<1>3. Stored91'  BY DEF TftpInv, Stored91, Ports, FileOf, Fresh91
<1>4. ASSUME NEW m \in sent91' PROVE PacketOK(m)'
      <2>1. PacketOK(m)  BY <1>4 DEF TftpInv, Packets91
      <2>2. ndl' \in Nat /\ Len(dl.got) \in Nat /\ Len(dl'.got) \in Nat  BY DEF TftpInv, TftpTypes
      <2>3. \A q \in Ports : transfers[q].n \in Nat /\ transfers[q].dl \in 1 .. ndl  BY Transfer91 DEF TftpInv, Opened91
      <2> QED BY <2>1, <2>2, <2>3, PacketStays DEF TftpInv, Ports
<1> QED BY <1>1, <1>2, <1>3, <1>4 DEF TftpInv, Packets91

LEMMA DownloadKeeps ==
    ASSUME TftpInv, NEW f \in DOMAIN TftpFiles \union {"missing"}, TFTP_Download(f)
    PROVE  TftpInv'
<1>0. /\ ndl \in Nat /\ ndl' = ndl + 1 /\ ndl' \in Nat /\ transfers' = transfers /\ serverPort' = RRQPORT /\ RRQPORT = 0 /\ ackBlock' = -1
      /\ serverIP' = serverIP /\ serverMACSet' = serverMACSet /\ serverMACAddr' = serverMACAddr /\ sent91' = sent91 \union {GetServerAddress}
      /\ dl' = [file |-> f, got |-> <<>>, state |-> "busy"]
      BY DEF TFTP_Download, TftpInv, TftpTypes, RRQPORT
<1>1. dl' \in [file : Files91 \union {"missing", "none"}, got : Seq(Text), state : {"idle", "busy", "done", "timeout"}]
      <2>1. <<>> \in Seq(Text)  OBVIOUS
      <2> QED BY <1>0, <2>1 DEF Files91
<1>2. TftpTypes'  BY <1>0, <1>1 DEF TftpInv, TftpTypes
<1>3. \A q \in Ports : transfers[q].n \in Nat /\ transfers[q].dl \in 1 .. ndl  BY Transfer91 DEF TftpInv, Opened91
<1>4. Opened91'
      <2> SUFFICES ASSUME NEW q \in Ports
                   PROVE /\ transfers[q].dl \in 1 .. ndl' /\ transfers[q].dl # ndl'
                         /\ transfers[q].n <= Len(FileOf(q)) + 1 /\ transfers[q].n <= BLOCKNUMS
          BY <1>0 DEF Opened91, Ports, FileOf
      <2>1. transfers[q].dl \in 1 .. ndl' /\ transfers[q].dl # ndl'  BY <1>0, <1>3
      <2> QED BY <2>1 DEF TftpInv, Opened91
<1>5. RRQPORT \notin Ports  BY Transfer91 DEF TftpInv, RRQPORT
<1>6. dl'.got = <<>> /\ Len(dl'.got) = 0 /\ dl'.state = "busy"  BY <1>0
<1>7. Stored91'
      <2>1. serverPort' \notin Ports' /\ ndl' > 0 /\ 0 < BLOCKNUMS  BY <1>0, <1>5, TftpAssumption DEF Ports
      <2> QED BY <1>0, <1>6, <2>1 DEF Stored91, Fresh91, RRQPORT
<1>8. ASSUME NEW m \in sent91' PROVE PacketOK(m)'
      <2>1. CASE m \in sent91
            <3>1. PacketOK(m)  BY <2>1 DEF TftpInv, Packets91
            <3>2. ndl' \in Nat /\ Len(dl.got) \in Nat /\ Len(dl'.got) \in Nat  BY <1>0, <1>6 DEF TftpInv, TftpTypes
            <3> QED BY <1>0, <1>3, <3>1, <3>2, PacketStays DEF TftpInv, Ports
      <2>2. CASE m = GetServerAddress  BY <2>2 DEF GetServerAddress, PacketOK
      <2> QED BY <1>0, <2>1, <2>2
<1> QED BY <1>2, <1>4, <1>7, <1>8 DEF TftpInv, Packets91

LEMMA SilenceKeeps ==
    ASSUME TftpInv, Silence
    PROVE  TftpInv'
<1> DEFINE s == IF timeout91 = 1 THEN "timeout" ELSE dl.state
           ack == Send_TFTP_Packet([op |-> "ACK", block |-> ackBlock % BLOCKNUMS])
           new == IF ~serverMACSet THEN GetServerAddress ELSE IF ackBlock = -1 THEN TFTP_RequestFile ELSE ack
<1>0. /\ dl.state = "busy" /\ dl' = [dl EXCEPT !.state = s] /\ sent91' = sent91 \union {new}
      /\ UNCHANGED <<set91, serverIP, serverMACSet, serverMACAddr, ackBlock, serverPort, transfers, ndl>>
      BY DEF Silence, TftpInv, TftpTypes
<1>1. s \in {"busy", "timeout"}  BY <1>0
<1> HIDE DEF s
<1>2. /\ dl' \in [file : Files91 \union {"missing", "none"}, got : Seq(Text), state : {"idle", "busy", "done", "timeout"}]
      /\ dl'.file = dl.file /\ dl'.got = dl.got /\ dl'.state = s
      BY <1>0, <1>1 DEF TftpInv, TftpTypes
<1>3. TftpTypes'  BY <1>0, <1>2 DEF TftpInv, TftpTypes
<1>4. Opened91'  BY <1>0, <1>2 DEF TftpInv, Opened91, Ports, FileOf
<1>5. Stored91'  BY <1>0, <1>1, <1>2 DEF TftpInv, Stored91, Ports, FileOf, Fresh91
<1>6. ASSUME NEW m \in sent91' PROVE PacketOK(m)'
      <2>1. CASE m \in sent91
            <3>1. PacketOK(m)  BY <2>1 DEF TftpInv, Packets91
            <3>2. ndl' \in Nat /\ Len(dl.got) \in Nat /\ Len(dl'.got) \in Nat  BY <1>0, <1>2 DEF TftpInv, TftpTypes
            <3>3. \A q \in Ports : transfers[q].n \in Nat /\ transfers[q].dl \in 1 .. ndl  BY Transfer91 DEF TftpInv, Opened91
            <3> QED BY <1>0, <1>1, <1>2, <3>1, <3>2, <3>3, PacketStays DEF TftpInv, Ports
      <2>2. CASE m = new
            <3>1. CASE ~serverMACSet  BY <2>2, <3>1 DEF GetServerAddress, PacketOK
            <3>2. CASE serverMACSet /\ ackBlock = -1
                  <4>1. m = [k |-> "tftp", mac |-> serverMACAddr, ip |-> serverIP, port |-> serverPort, what |-> [op |-> "RRQ", file |-> dl.file, dl |-> ndl]]
                        BY <2>2, <3>2 DEF TFTP_RequestFile, Send_TFTP_Packet
                  <4>2. serverMACAddr = serverIP /\ serverIP \in Hosts91 /\ ndl \in Nat /\ ndl > 0
                        BY <1>0, <3>2 DEF TftpInv, TftpTypes, Stored91
                  <4>3. m.k = "tftp" /\ m.mac = serverIP /\ m.ip = serverIP /\ m.what.op = "RRQ" /\ m.what.file = dl.file /\ m.what.dl = ndl /\ ndl \in 1 .. ndl
                        BY <4>1, <4>2
                  <4> QED BY <1>0, <1>2, <3>2, <4>2, <4>3 DEF PacketOK
            <3>3. CASE serverMACSet /\ ackBlock # -1
                  <4>1. m = [k |-> "tftp", mac |-> serverMACAddr, ip |-> serverIP, port |-> serverPort, what |-> [op |-> "ACK", block |-> ackBlock % BLOCKNUMS]]
                        BY <2>2, <3>3 DEF Send_TFTP_Packet
                  <4>2. serverMACAddr = serverIP /\ serverIP \in Hosts91 /\ ackBlock = Len(dl.got) /\ ackBlock > 0 /\ serverPort \in Ports /\ ackBlock < BLOCKNUMS /\ ackBlock \in Int
                        BY <1>0, <3>3 DEF TftpInv, TftpTypes, Stored91
                  <4>a. ackBlock \in Nat /\ ackBlock <= BLOCKNUMS /\ ackBlock \in 1 .. BLOCKNUMS - 1  BY <4>2, TftpAssumption
                  <4>3. ackBlock % BLOCKNUMS = ackBlock /\ ackBlock \in 1 .. BLOCKNUMS - 1  BY <4>2, <4>a, BlockNumber
                  <4>4. m.k = "tftp" /\ m.mac = m.ip /\ m.ip = serverIP /\ m.port = serverPort /\ m.what.op = "ACK" /\ m.what.block = ackBlock
                        BY <4>1, <4>2, <4>3
                  <4>5. ackBlock <= Len(dl.got)  BY <4>2
                  <4> QED BY <1>0, <1>2, <4>2, <4>3, <4>4, <4>5 DEF PacketOK, Ports
            <3> QED BY <3>1, <3>2, <3>3
      <2> QED BY <1>0, <2>1, <2>2
<1> QED BY <1>3, <1>4, <1>5, <1>6 DEF TftpInv, Packets91

LEMMA AppendText ==
    ASSUME NEW S, NEW s \in Seq(S), NEW x \in S
    PROVE  /\ Append(s, x) \in Seq(S) /\ Len(Append(s, x)) = Len(s) + 1
           /\ \A i \in 1 .. Len(Append(s, x)) : (i \in 1 .. Len(s) /\ Append(s, x)[i] = s[i]) \/ (i = Len(s) + 1 /\ Append(s, x)[i] = x)
<1>1. Append(s, x) \in Seq(S) /\ Len(Append(s, x)) = Len(s) + 1  OBVIOUS
<1>2. Append(s, x)[Len(s) + 1] = x /\ \A i \in 1 .. Len(s) : Append(s, x)[i] = s[i]  OBVIOUS
<1>3. ASSUME NEW i \in 1 .. Len(Append(s, x)) PROVE i \in 1 .. Len(s) \/ i = Len(s) + 1  BY <1>1
<1> QED BY <1>1, <1>2, <1>3

\* A block is stored only if it is the next one of the transfer followed.
LEMMA DataKeeps ==
    ASSUME TftpInv, NEW p \in sent91, p.k = "data", dl.state = "busy", ~(ackBlock = -1 /\ p.block # 1), ~(ackBlock # -1 /\ p.port # serverPort),
           TFTP_ACK_Data(IF ackBlock = -1 THEN 0 ELSE ackBlock, p.port, p.block, p.data, p.short),
           UNCHANGED <<serverMACSet, serverMACAddr, serverIP, transfers, ndl>>
    PROVE  TftpInv'
<1> DEFINE ack == IF ackBlock = -1 THEN 0 ELSE ackBlock
           next == p.block = ack + 1
           now == IF next THEN ack + 1 ELSE ack
           got == IF next THEN Append(dl.got, p.data) ELSE dl.got
           state == IF p.short THEN "done" ELSE dl.state
           q == p.port
           new == [Send_TFTP_Packet([op |-> "ACK", block |-> now % BLOCKNUMS]) EXCEPT !.port = q]
<1>0. /\ dl' = [dl EXCEPT !.got = got, !.state = state] /\ ackBlock' = (IF p.short THEN -2 ELSE now) /\ serverPort' = q
      /\ sent91' = sent91 \union {new}
      BY DEF TFTP_ACK_Data, TftpInv, TftpTypes
<1>1. q \in Ports /\ \E n \in 1 .. Len(FileOf(q)) : Sent91(p, n)  BY DEF TftpInv, Packets91, PacketOK
<1>2. PICK n \in 1 .. Len(FileOf(q)) : Sent91(p, n)  BY <1>1
<1>3. /\ FileOf(q) \in Seq(Text) /\ Len(FileOf(q)) \in Nat /\ q \in Nat /\ q > 0 /\ transfers[q].n \in Nat /\ transfers[q].file \in Files91
      BY <1>1, Transfer91 DEF TftpInv
<1>4. p.block = n % BLOCKNUMS /\ p.data = FileOf(q)[n] /\ (p.short <=> n = Len(FileOf(q))) /\ n <= transfers[q].n
      <2>1. p = [k |-> "data", port |-> q, block |-> n % BLOCKNUMS, data |-> FileOf(q)[n], short |-> n = Len(FileOf(q))] /\ n <= transfers[q].n
            BY <1>2 DEF Sent91, DataPacket, FileOf, Short
      <2>2. PICK x, y, z : x = n % BLOCKNUMS /\ y = FileOf(q)[n] /\ z = (n = Len(FileOf(q)))  OBVIOUS
      <2>3. p = [k |-> "data", port |-> q, block |-> x, data |-> y, short |-> z]  BY <2>1, <2>2, Zenon
      <2>4. p.block = x /\ p.data = y /\ p.short = z  BY <2>3
      <2> QED BY <2>1, <2>2, <2>4, Zenon
<1>5. BLOCKNUMS \in Nat /\ BLOCKNUMS > 1 /\ transfers[q].n <= BLOCKNUMS  BY <1>1, TftpAssumption DEF TftpInv, Opened91
<1>6. n \in Nat /\ n > 0 /\ n <= BLOCKNUMS  BY <1>3, <1>4, <1>5
<1>7. (n < BLOCKNUMS => p.block = n) /\ (n = BLOCKNUMS => p.block = 0)  BY <1>4, <1>6, BlockNumber
<1>8. /\ dl.got \in Seq(Text) /\ Len(dl.got) \in Nat /\ Len(dl.got) < BLOCKNUMS /\ ack = Len(dl.got)
      /\ (ackBlock = -1 => dl.got = <<>> /\ ack = 0 /\ p.block = 1 /\ serverPort = RRQPORT)
      /\ (ackBlock # -1 => serverPort = q /\ ack > 0)
      <2>1. dl.got \in Seq(Text) /\ Len(dl.got) \in Nat /\ Len(dl.got) < BLOCKNUMS  BY DEF TftpInv, TftpTypes, Stored91
      <2>2. \/ ackBlock = -1 /\ dl.got = <<>> /\ serverPort = RRQPORT
            \/ ackBlock = Len(dl.got) /\ ackBlock > 0 /\ serverPort \in Ports
            BY DEF TftpInv, Stored91
      <2>3. CASE ackBlock = -1
            <3>1. ~(ackBlock > 0)  BY <2>3
            <3>2. dl.got = <<>> /\ serverPort = RRQPORT  BY <2>2, <3>1
            <3> QED BY <2>1, <2>3, <3>2
      <2>4. CASE ackBlock # -1  BY <2>1, <2>2, <2>4
      <2> QED BY <2>3, <2>4
<1> HIDE DEF ack
\* The next block is the one after those stored.
<1>9. next => n = ack + 1 /\ n < BLOCKNUMS  BY <1>5, <1>6, <1>7, <1>8
<1>10. ackBlock = -1 => next  BY <1>8
<1>11. /\ got \in Seq(Text) /\ Len(got) = now /\ now \in Nat /\ now > 0 /\ now < BLOCKNUMS /\ Len(got) >= Len(dl.got)
       /\ \A i \in 1 .. Len(got) : (i \in 1 .. Len(dl.got) /\ got[i] = dl.got[i]) \/ (next /\ i = n /\ got[i] = FileOf(q)[n])
       <2>1. CASE next
             <3>1. p.data \in Text /\ p.data = FileOf(q)[n]  BY <1>3, <1>4
             <3>2. got = Append(dl.got, p.data)  BY <2>1
             <3>3. got \in Seq(Text) /\ Len(got) = Len(dl.got) + 1 /\ \A i \in 1 .. Len(got) : (i \in 1 .. Len(dl.got) /\ got[i] = dl.got[i]) \/ (i = Len(dl.got) + 1 /\ got[i] = p.data)
                   BY <1>8, <3>1, <3>2, AppendText
             <3>4. now = ack + 1 /\ n = ack + 1 /\ n < BLOCKNUMS  BY <1>9, <2>1
             <3> HIDE DEF next, got, now
             <3>5. Len(dl.got) + 1 = n  BY <1>8, <3>4
             <3>6. \A i \in 1 .. Len(got) : (i \in 1 .. Len(dl.got) /\ got[i] = dl.got[i]) \/ (next /\ i = n /\ got[i] = FileOf(q)[n])
                   BY <2>1, <3>1, <3>3, <3>5
             <3>7. now = n  BY <3>4
             <3> QED BY <1>6, <1>8, <3>3, <3>4, <3>5, <3>6, <3>7
       <2>2. CASE ~next
             <3>1. got = dl.got /\ now = ack /\ ackBlock # -1  BY <1>10, <2>2
             <3> HIDE DEF got, now
             <3> QED BY <1>8, <3>1
       <2> QED BY <2>1, <2>2
<1>12. state \in {"busy", "done"} /\ (state = "done" <=> n = Len(FileOf(q)))  BY <1>4
<1> HIDE DEF next, got, state
<1>13. /\ dl' \in [file : Files91 \union {"missing", "none"}, got : Seq(Text), state : {"idle", "busy", "done", "timeout"}]
       /\ dl'.file = dl.file /\ dl'.got = got /\ dl'.state = state
       BY <1>0, <1>11, <1>12 DEF TftpInv, TftpTypes
<1>14. ackBlock' \in Int  BY <1>0, <1>11
<1>15. TftpTypes'  BY <1>0, <1>3, <1>13, <1>14 DEF TftpInv, TftpTypes
<1>16. RRQPORT \notin Ports  BY Transfer91 DEF TftpInv, RRQPORT
<1>17. serverPort = q \/ (serverPort = RRQPORT /\ dl.got = <<>>)  BY <1>8
<1>18. Opened91'
       <2> SUFFICES ASSUME NEW u \in Ports, transfers[u].dl = ndl
                    PROVE transfers[u].n <= (IF u = q THEN Len(got) ELSE 0) + 1
           BY <1>0, <1>12, <1>13 DEF TftpInv, Opened91, Ports, FileOf
       <2>1. transfers[u].n <= (IF u = serverPort THEN Len(dl.got) ELSE 0) + 1 /\ transfers[u].n \in Nat  BY Transfer91 DEF TftpInv, Opened91
       <2>2. CASE serverPort = q  BY <1>8, <1>11, <2>1, <2>2
       <2>3. CASE serverPort = RRQPORT
             <3>1. u # serverPort  BY <1>16, <2>3
             <3>2. transfers[u].n <= 1  BY <2>1, <3>1
             <3> QED BY <1>11, <2>1, <3>2
       <2> QED BY <1>17, <2>2, <2>3
<1>19. ASSUME NEW m \in sent91' PROVE PacketOK(m)'
       <2>1. CASE m \in sent91
             <3>1. PacketOK(m)  BY <2>1 DEF TftpInv, Packets91
             <3>2. ndl' \in Nat /\ Len(dl.got) \in Nat /\ Len(dl'.got) \in Nat /\ Len(dl'.got) >= Len(dl.got)  BY <1>8, <1>11, <1>13 DEF TftpInv, TftpTypes
             <3>3. \A u \in Ports : transfers[u].n \in Nat /\ transfers[u].dl \in 1 .. ndl  BY Transfer91 DEF TftpInv, Opened91
             <3> QED BY <1>0, <1>13, <1>17, <3>1, <3>2, <3>3, PacketStays DEF TftpInv, Ports
       <2>2. CASE m = new
             <3>1. m = [k |-> "tftp", mac |-> serverMACAddr, ip |-> serverIP, port |-> q, what |-> [op |-> "ACK", block |-> now % BLOCKNUMS]]
                   BY <2>2 DEF Send_TFTP_Packet
             <3>2. now % BLOCKNUMS = now /\ now \in 1 .. BLOCKNUMS - 1  BY <1>5, <1>11, BlockNumber
             <3>a. m = [k |-> "tftp", mac |-> serverMACAddr, ip |-> serverIP, port |-> q, what |-> [op |-> "ACK", block |-> now]]  BY <3>1, <3>2, Zenon
             <3>3. m.k = "tftp" /\ m.mac = serverMACAddr /\ m.ip = serverIP /\ m.port = q /\ m.what.op = "ACK" /\ m.what.block = now
                   <4> HIDE DEF now
                   <4> QED BY <3>a
             \* A transfer of this download was opened after the address was heard.
             <3>4. serverIP \in Hosts91 /\ (serverMACAddr # serverIP => transfers[q].dl # ndl)  BY <1>1 DEF TftpInv, TftpTypes, Opened91
             <3>5. now <= Len(got)  BY <1>11
             <3> HIDE DEF now
             <3> QED BY <1>0, <1>1, <1>13, <3>2, <3>3, <3>4, <3>5 DEF PacketOK, Ports
       <2> QED BY <1>0, <2>1, <2>2
<1>20. Stored91'
       <2>1. serverPort' \in Ports' /\ Len(dl'.got) < BLOCKNUMS /\ ndl' > 0  BY <1>0, <1>1, <1>11, <1>13 DEF TftpInv, Stored91, Ports
       <2>2. FileOf(serverPort)' = FileOf(q)  BY <1>0 DEF FileOf
       <2>3. serverPort = q => Len(dl.got) <= Len(FileOf(q)) /\ \A i \in 1 .. Len(dl.got) : dl.got[i] = FileOf(q)[i]
             BY <1>1 DEF TftpInv, Stored91
       <2>4. Len(dl.got) <= Len(FileOf(q)) /\ \A i \in 1 .. Len(dl.got) : dl.got[i] = FileOf(q)[i]
             BY <1>3, <1>17, <2>3
       <2>5. Len(got) <= Len(FileOf(q))
             <3>1. CASE next
                   <4>1. Len(got) = n  BY <1>9, <1>11, <3>1
                   <4> QED BY <1>2, <1>3, <4>1
             <3>2. CASE ~next
                   <4>1. Len(got) = Len(dl.got)  BY <1>8, <1>11, <3>2
                   <4> QED BY <2>4, <4>1
             <3> QED BY <3>1, <3>2
       <2>6. \A i \in 1 .. Len(got) : got[i] = FileOf(q)[i]
             <3> TAKE i \in 1 .. Len(got)
             <3> QED BY <1>11, <2>4
       <2>7. state = "busy" => ackBlock' = Len(got) /\ ackBlock' > 0  BY <1>0, <1>4, <1>11, <1>12
       \* The last block ends the download: it is the next one, the one stored last, or the one whose number has wrapped.
       <2>8. ASSUME transfers[q].dl = ndl, state = "done" PROVE Len(got) = Len(FileOf(q)) \/ Len(FileOf(q)) = BLOCKNUMS
             <3>1. n = Len(FileOf(q))  BY <1>12, <2>8
             <3>2. CASE next
                   <4>1. Len(got) = n  BY <1>9, <1>11, <3>2
                   <4> QED BY <3>1, <4>1
             <3>3. CASE ~next
                   <4>1. Len(got) = Len(dl.got) /\ serverPort = q  BY <1>8, <1>10, <1>11, <3>3
                   <4>2. transfers[q].n <= Len(dl.got) + 1  BY <1>1, <2>8, <4>1 DEF TftpInv, Opened91
                   <4>a. n \in Nat /\ n <= transfers[q].n /\ transfers[q].n \in Nat /\ Len(dl.got) \in Nat  BY <1>3, <1>4, <1>6, <1>8
                   <4>3. n <= Len(dl.got) + 1  BY <4>a, <4>2
                   <4>4. n = ack + 1 => n = BLOCKNUMS  BY <1>5, <1>6, <1>7, <3>3 DEF next
                   <4> QED BY <1>6, <1>8, <2>4, <3>1, <4>1, <4>3, <4>4
             <3> QED BY <3>2, <3>3
       <2>9. Fresh91' => transfers[q].dl = ndl  BY <1>0 DEF Fresh91
       <2> QED BY <1>0, <1>13, <2>1, <2>2, <2>5, <2>6, <2>7, <2>8, <2>9 DEF Stored91
<1> QED BY <1>15, <1>18, <1>19, <1>20 DEF TftpInv, Packets91

LEMMA PacketKeeps ==
    ASSUME TftpInv, NEW p \in sent91, CheckForNewPacket(p)
    PROVE  TftpInv'
<1>0. dl.state = "busy" /\ UNCHANGED <<set91, serverIP, transfers, ndl>>  BY DEF CheckForNewPacket
<1>1. ASSUME UNCHANGED <<ackBlock, serverPort, dl, sent91>>, serverMACSet' \in BOOLEAN, serverMACAddr' \in Hosts91,
             serverMACSet => serverMACSet', serverMACSet' => serverMACAddr' = serverIP
      PROVE  TftpInv'
      <2>1. TftpTypes'  BY <1>0, <1>1 DEF TftpInv, TftpTypes
      <2>2. Opened91'  BY <1>0, <1>1 DEF TftpInv, Opened91, Ports, FileOf
      <2>3. Stored91'  BY <1>0, <1>1 DEF TftpInv, Stored91, Ports, FileOf, Fresh91
      <2>4. ASSUME NEW m \in sent91' PROVE PacketOK(m)'
            <3>1. PacketOK(m)  BY <1>1, <2>4 DEF TftpInv, Packets91
            <3>2. ndl' \in Nat /\ Len(dl.got) \in Nat /\ Len(dl'.got) \in Nat  BY <1>0, <1>1 DEF TftpInv, TftpTypes
            <3>3. \A q \in Ports : transfers[q].n \in Nat /\ transfers[q].dl \in 1 .. ndl  BY Transfer91 DEF TftpInv, Opened91
            <3> QED BY <1>0, <1>1, <3>1, <3>2, <3>3, PacketStays DEF TftpInv, Ports
      <2> QED BY <2>1, <2>2, <2>3, <2>4 DEF TftpInv, Packets91
<1>2. CASE p.k = "arp reply" /\ p.ip = serverIP /\ serverMACSet' = TRUE /\ serverMACAddr' = p.mac /\ UNCHANGED <<ackBlock, serverPort, dl, sent91>>
      <2>1. p.mac = p.ip  BY <1>2 DEF TftpInv, Packets91, PacketOK
      <2>2. serverIP \in Hosts91  BY DEF TftpInv, TftpTypes
      <2> QED BY <1>1, <1>2, <2>1, <2>2
<1>3. CASE UNCHANGED <<serverMACSet, serverMACAddr, ackBlock, serverPort, dl, sent91>>  BY <1>1, <1>3 DEF TftpInv, TftpTypes
<1>4. CASE /\ p.k = "data" /\ UNCHANGED <<serverMACSet, serverMACAddr>> /\ ~(ackBlock = -1 /\ p.block # 1) /\ ~(ackBlock # -1 /\ p.port # serverPort)
           /\ TFTP_ACK_Data(IF ackBlock = -1 THEN 0 ELSE ackBlock, p.port, p.block, p.data, p.short)
      BY <1>0, <1>4, DataKeeps
<1> QED BY <1>2, <1>3, <1>4 DEF CheckForNewPacket

LEMMA Got91 ==
    ASSUME TftpTypes
    PROVE  dl.got \in Seq(Text) /\ Len(dl.got) \in Nat /\ ndl \in Nat
<1>1. dl.got \in Seq(Text) /\ ndl \in Nat  BY DEF TftpTypes
<1> QED BY <1>1

\* A host answers: with its address, with nothing of use, with a new transfer, or with the next block.
LEMMA AnswerKeeps ==
    ASSUME TftpInv, NEW r, sent91' = sent91 \union {r}, r.k \in {"arp reply", "other"}, r.k = "arp reply" => r.mac = r.ip,
           UNCHANGED <<set91, serverIP, serverMACSet, serverMACAddr, ackBlock, serverPort, timeout91, dl, ndl, transfers>>
    PROVE  TftpInv'
<1>1. TftpTypes'  BY DEF TftpInv, TftpTypes
<1>2. Opened91'  BY DEF TftpInv, Opened91, Ports, FileOf
<1>3. Stored91'  BY DEF TftpInv, Stored91, Ports, FileOf, Fresh91
<1>4. ASSUME NEW m \in sent91' PROVE PacketOK(m)'
      <2>1. CASE m \in sent91
            <3>1. PacketOK(m)  BY <2>1 DEF TftpInv, Packets91
            <3>2. Len(dl.got) \in Nat /\ ndl \in Nat /\ ndl' = ndl /\ dl' = dl /\ TftpTypes  BY Got91 DEF TftpInv
            <3>3. \A q \in Ports : q \in Ports' /\ transfers'[q] = transfers[q] /\ transfers[q].n \in Nat /\ transfers[q].dl \in 1 .. ndl
                  BY Transfer91 DEF TftpInv, Opened91, Ports
            <3> QED BY <3>1, <3>2, <3>3, PacketStays
      <2>2. CASE m = r  BY <2>2 DEF PacketOK
      <2> QED BY <1>4, <2>1, <2>2
<1> QED BY <1>1, <1>2, <1>3, <1>4 DEF TftpInv, Packets91

LEMMA RequestKeeps ==
    ASSUME TftpInv, NEW m \in sent91, m.k = "tftp", m.what.op = "RRQ", m.what.file \in DOMAIN TftpFiles,
           transfers' = Append(transfers, [file |-> m.what.file, n |-> 1, dl |-> m.what.dl, ip |-> m.ip]),
           sent91' = sent91 \union {DataPacket(Len(transfers) + 1, m.what.file, 1)},
           UNCHANGED <<set91, serverIP, serverMACSet, serverMACAddr, ackBlock, serverPort, timeout91, dl, ndl>>
    PROVE  TftpInv'
<1> DEFINE t == [file |-> m.what.file, n |-> 1, dl |-> m.what.dl, ip |-> m.ip]
<1>0. /\ transfers \in Seq(Transfers91) /\ ndl \in Nat /\ m.what.dl \in 1 .. ndl /\ m.ip \in Hosts91
      /\ m.what.dl = ndl => m.what.file = dl.file /\ (dl.state = "busy" => m.ip = serverIP /\ serverMACSet)
      BY DEF TftpInv, TftpTypes, Packets91, PacketOK
<1>1. t \in Transfers91 /\ t.file = m.what.file /\ t.n = 1 /\ t.dl = m.what.dl /\ t.ip = m.ip  BY <1>0 DEF Transfers91, Files91
<1> HIDE DEF t
<1>2. transfers' = Append(transfers, t)  BY DEF t
<1>3. PICK w \in Nat : w = Len(transfers) + 1  BY <1>0
<1>4. /\ transfers' \in Seq(Transfers91) /\ Len(transfers') = w /\ transfers'[w] = t
      /\ \A q \in 1 .. Len(transfers) : transfers'[q] = transfers[q]
      BY <1>0, <1>1, <1>2, <1>3
<1>5. Ports = 1 .. Len(transfers) /\ Ports' = 1 .. w /\ w \notin Ports /\ w > 0  BY <1>0, <1>3, <1>4 DEF Ports
<1>6. \A q \in Ports' : q \in Ports \/ q = w  BY <1>0, <1>3, <1>5
<1>7. \A q \in Ports : q \in Ports' /\ transfers'[q] = transfers[q] /\ FileOf(q)' = FileOf(q)  BY <1>0, <1>3, <1>4, <1>5 DEF FileOf
<1>8. serverPort # w  BY <1>5 DEF TftpInv, Stored91, RRQPORT
<1>9. TftpTypes'  BY <1>4 DEF TftpInv, TftpTypes
<1>10. w \in Ports' /\ transfers'[w] = t /\ FileOf(w)' = TftpFiles[m.what.file]  BY <1>1, <1>3, <1>4, <1>5 DEF FileOf
<1>11. Len(FileOf(w)') \in Nat /\ Len(FileOf(w)') > 0
       <2>1. TftpFiles[m.what.file] \in Seq(Text) /\ TftpFiles[m.what.file] # <<>>  BY TftpAssumption DEF Text
       <2> QED BY <1>10, <2>1
<1>12. Opened91'
       <2> SUFFICES ASSUME NEW q \in Ports'
                    PROVE /\ transfers'[q].dl \in 1 .. ndl /\ transfers'[q].n <= Len(FileOf(q)') + 1 /\ transfers'[q].n <= BLOCKNUMS
                          /\ transfers'[q].dl = ndl =>
                                /\ transfers'[q].file = dl.file /\ (dl.state = "busy" => transfers'[q].ip = serverIP /\ serverMACSet)
                                /\ transfers'[q].n <= (IF q = serverPort THEN Len(dl.got) ELSE 0) + 1
           BY DEF Opened91
       <2>1. CASE q \in Ports  BY <1>7, <2>1 DEF TftpInv, Opened91
       <2>2. CASE q = w
             <3>1. 1 <= Len(FileOf(w)') + 1 /\ 1 <= BLOCKNUMS  BY <1>11, TftpAssumption
             <3>2. transfers'[q].dl = m.what.dl /\ transfers'[q].n = 1 /\ transfers'[q].file = m.what.file /\ transfers'[q].ip = m.ip
                   BY <1>1, <1>10, <2>2
             <3>3. (IF q = serverPort THEN Len(dl.got) ELSE 0) + 1 = 1  BY <1>8, <2>2
             <3>4. transfers'[q].n <= Len(FileOf(q)') + 1 /\ transfers'[q].n <= BLOCKNUMS  BY <2>2, <3>1, <3>2, Zenon
             <3>5. 1 <= 1  OBVIOUS
             <3>6. transfers'[q].n <= (IF q = serverPort THEN Len(dl.got) ELSE 0) + 1  BY <3>2, <3>3, <3>5, Zenon
             <3> QED BY <1>0, <3>2, <3>4, <3>6, Zenon
       <2> QED BY <1>6, <2>1, <2>2
<1>13. ASSUME NEW p \in sent91' PROVE PacketOK(p)'
       <2>1. CASE p \in sent91
             <3>1. PacketOK(p)  BY <2>1 DEF TftpInv, Packets91
             <3>2. ndl' \in Nat /\ Len(dl.got) \in Nat /\ Len(dl'.got) \in Nat  BY DEF TftpInv, TftpTypes
             <3>3. \A q \in Ports : transfers[q].n \in Nat /\ transfers[q].dl \in 1 .. ndl  BY Transfer91 DEF TftpInv, Opened91
             <3> QED BY <1>7, <3>1, <3>2, <3>3, PacketStays DEF TftpInv
       <2>2. CASE p = DataPacket(w, m.what.file, 1)
             <3>1. p.k = "data" /\ p.port = w  BY <2>2 DEF DataPacket
             <3>2. transfers'[w].file = m.what.file /\ transfers'[w].n = 1  BY <1>1, <1>10
             <3>a. PICK b \in Nat : b = 1  OBVIOUS
             <3>c. b <= b  OBVIOUS
             <3>d. transfers'[w].n = b  BY <3>2, <3>a, Zenon
             <3>b. p = DataPacket(w, m.what.file, b) /\ b <= transfers'[w].n  BY <2>2, <3>a, <3>c, <3>d, Zenon
             <3>3. Sent91(p, b)'  BY <3>1, <3>2, <3>b DEF Sent91, DataPacket
             <3>4. b \in 1 .. Len(FileOf(w)')  BY <1>11, <3>a
             <3>5. \E n \in 1 .. Len(FileOf(p.port)') : Sent91(p, n)'  BY <3>1, <3>3, <3>4
             <3> QED BY <1>10, <3>1, <3>5 DEF PacketOK
       <2> QED BY <1>3, <1>13, <2>1, <2>2
<1>14. Stored91'
       <2>1. serverPort \in Ports' <=> serverPort \in Ports  BY <1>6, <1>7, <1>8
       <2>2. serverPort \in Ports => FileOf(serverPort)' = FileOf(serverPort)  BY <1>7 DEF FileOf
       <2>3. Fresh91' => Fresh91  BY <1>7, <2>1 DEF Fresh91, Ports
       <2> QED BY <2>1, <2>2, <2>3 DEF TftpInv, Stored91, Fresh91, Ports
<1> QED BY <1>9, <1>12, <1>13, <1>14 DEF TftpInv, Packets91

LEMMA AcknowledgementKeeps ==
    ASSUME TftpInv, NEW m \in sent91, m.k = "tftp", m.what.op = "ACK", m.port \in DOMAIN transfers,
           transfers[m.port].n <= Len(Blocks(m.port)), m.what.block = transfers[m.port].n % BLOCKNUMS,
           transfers' = [transfers EXCEPT ![m.port].n = transfers[m.port].n + 1],
           sent91' = sent91 \union (IF transfers[m.port].n < Len(Blocks(m.port)) THEN {DataPacket(m.port, transfers[m.port].file, transfers[m.port].n + 1)} ELSE {}),
           UNCHANGED <<set91, serverIP, serverMACSet, serverMACAddr, ackBlock, serverPort, timeout91, dl, ndl>>
    PROVE  TftpInv'
<1> DEFINE w == m.port
<1>0. /\ w \in Ports /\ m.what.block \in 1 .. BLOCKNUMS - 1 /\ (transfers[w].dl = ndl => w = serverPort /\ m.what.block <= Len(dl.got))
      /\ transfers \in Seq(Transfers91)
      BY DEF TftpInv, TftpTypes, Packets91, PacketOK
<1>1. PICK x \in Nat : x = transfers[w].n /\ x > 0 /\ x <= BLOCKNUMS /\ x <= Len(FileOf(w)) /\ Len(FileOf(w)) \in Nat
      BY <1>0, Transfer91 DEF TftpInv, Opened91, Blocks, FileOf
<1>2. x < BLOCKNUMS /\ m.what.block = x
      <2>1. BLOCKNUMS \in Nat /\ m.what.block = x % BLOCKNUMS /\ m.what.block > 0  BY <1>0, <1>1, TftpAssumption
      <2>2. x # BLOCKNUMS  BY <1>1, <2>1, BlockNumber
      <2> QED BY <1>1, <2>1, <2>2, BlockNumber
<1>3. PICK y \in Nat : y = x + 1 /\ y > 0 /\ y <= BLOCKNUMS /\ y <= Len(FileOf(w)) + 1 /\ y # 0
      BY <1>1, <1>2, TftpAssumption
<1>4. transfers' = [transfers EXCEPT ![w] = [transfers[w] EXCEPT !.n = y]] /\ transfers[w] \in Transfers91  BY <1>0, <1>1, <1>3, Transfer91 DEF Ports, TftpInv
<1>5. PICK t \in Transfers91 : t = [transfers[w] EXCEPT !.n = y] /\ t.n = y /\ t.file = transfers[w].file /\ t.dl = transfers[w].dl /\ t.ip = transfers[w].ip
      BY <1>3, <1>4 DEF Transfers91
<1>6. transfers' = [transfers EXCEPT ![w] = t]  BY <1>4, <1>5
<1>7. transfers' \in Seq(Transfers91) /\ Ports' = Ports /\ transfers'[w] = t /\ \A q \in Ports : q # w => transfers'[q] = transfers[q]
      BY <1>0, <1>6 DEF Ports
<1>8. \A q \in Ports : /\ q \in Ports' /\ transfers'[q].file = transfers[q].file /\ transfers'[q].dl = transfers[q].dl /\ transfers'[q].ip = transfers[q].ip
                       /\ FileOf(q)' = FileOf(q) /\ transfers'[q].n \in Nat /\ transfers'[q].n >= transfers[q].n
      <2> TAKE q \in Ports
      <2>0. transfers[q].n \in Nat  BY Transfer91 DEF TftpInv
      <2>1. CASE q = w
            <3>1. transfers'[q] = t /\ transfers[q].n = x /\ t.n = y /\ y \in Nat /\ y >= x  BY <1>1, <1>3, <1>5, <1>7, <2>1
            <3>2. t.file = transfers[q].file /\ t.dl = transfers[q].dl /\ t.ip = transfers[q].ip  BY <1>5, <2>1
            <3> QED BY <1>7, <3>1, <3>2 DEF FileOf
      <2>2. CASE q # w  BY <1>7, <2>0, <2>2 DEF FileOf
      <2> QED BY <2>1, <2>2
<1>9. TftpTypes'  BY <1>7 DEF TftpInv, TftpTypes
<1>10. Opened91'
       <2> SUFFICES ASSUME NEW q \in Ports
                    PROVE /\ transfers'[q].n <= Len(FileOf(q)) + 1 /\ transfers'[q].n <= BLOCKNUMS
                          /\ transfers[q].dl = ndl => transfers'[q].n <= (IF q = serverPort THEN Len(dl.got) ELSE 0) + 1
           BY <1>7, <1>8 DEF TftpInv, Opened91
       <2>1. CASE q = w
             <3>1. transfers'[q].n = y  BY <1>5, <1>7, <2>1
             <3>2. transfers[q].dl = ndl => q = serverPort /\ x <= Len(dl.got)  BY <1>0, <1>2, <2>1
             <3>3. Len(dl.got) \in Nat  BY DEF TftpInv, TftpTypes
             <3>4. x <= Len(dl.got) => y <= Len(dl.got) + 1  BY <1>1, <1>3, <3>3
             <3> QED BY <1>3, <2>1, <3>1, <3>2, <3>4
       <2>2. CASE q # w  BY <1>7, <2>2 DEF TftpInv, Opened91
       <2> QED BY <2>1, <2>2
<1>11. ASSUME NEW p \in sent91' PROVE PacketOK(p)'
       <2>1. CASE p \in sent91
             <3>1. PacketOK(p)  BY <2>1 DEF TftpInv, Packets91
             <3>2. ndl' \in Nat /\ Len(dl.got) \in Nat /\ Len(dl'.got) \in Nat  BY DEF TftpInv, TftpTypes
             <3>3. \A q \in Ports : transfers[q].dl \in 1 .. ndl  BY DEF TftpInv, Opened91
             <3> QED BY <1>8, <3>1, <3>2, <3>3, PacketStays DEF TftpInv
       <2>2. CASE transfers[w].n < Len(FileOf(w)) /\ p = DataPacket(w, transfers[w].file, y)
             <3>1. p.k = "data" /\ p.port = w  BY <2>2 DEF DataPacket
             <3>2. transfers'[w].file = transfers[w].file /\ transfers'[w].n = y  BY <1>5, <1>7
             <3>3. Sent91(p, y)'  BY <2>2, <3>1, <3>2, <1>3 DEF Sent91, DataPacket
             <3>4. y \in 1 .. Len(FileOf(w)) /\ FileOf(w)' = FileOf(w)  BY <1>0, <1>1, <1>3, <1>8, <2>2
             <3>5. \E n \in 1 .. Len(FileOf(p.port)') : Sent91(p, n)'  BY <3>1, <3>3, <3>4 DEF FileOf
             <3> QED BY <1>0, <1>7, <3>1, <3>5 DEF PacketOK
       <2> QED BY <1>1, <1>3, <1>11, <2>1, <2>2 DEF Blocks, FileOf
<1>12. Stored91'
       <2>1. serverPort \in Ports => FileOf(serverPort)' = FileOf(serverPort)  BY <1>8 DEF FileOf
       <2>2. Fresh91' => Fresh91  BY <1>7, <1>8 DEF Fresh91, Ports
       <2> QED BY <1>7, <2>1, <2>2 DEF TftpInv, Stored91, Fresh91, Ports
<1> QED BY <1>9, <1>10, <1>11, <1>12 DEF TftpInv, Packets91

LEMMA ServerKeeps ==
    ASSUME TftpInv, NEW m \in sent91, Server(m)
    PROVE  TftpInv'
<1>0. UNCHANGED <<set91, serverIP, serverMACSet, serverMACAddr, ackBlock, serverPort, timeout91, dl, ndl>>  BY DEF Server
<1>1. CASE sent91' = sent91 \union {[k |-> "arp reply", ip |-> m.ip, mac |-> m.ip]} /\ UNCHANGED transfers
      <2>1. PICK r : r = [k |-> "arp reply", ip |-> m.ip, mac |-> m.ip]  OBVIOUS
      <2>2. r.k = "arp reply" /\ r.mac = r.ip  BY <2>1
      <2> QED BY <1>0, <1>1, <2>1, <2>2, AnswerKeeps
<1>2. CASE sent91' = sent91 \union {[k |-> "other"]} /\ UNCHANGED transfers
      <2>1. PICK r : r = [k |-> "other"]  OBVIOUS
      <2>2. r.k = "other"  BY <2>1
      <2> QED BY <1>0, <1>2, <2>1, <2>2, AnswerKeeps
<1>3. CASE /\ m.k = "tftp" /\ m.what.op = "RRQ" /\ m.what.file \in DOMAIN TftpFiles
           /\ transfers' = Append(transfers, [file |-> m.what.file, n |-> 1, dl |-> m.what.dl, ip |-> m.ip])
           /\ sent91' = sent91 \union {DataPacket(Len(transfers) + 1, m.what.file, 1)}
      BY <1>0, <1>3, RequestKeeps
<1>4. CASE /\ m.k = "tftp" /\ m.what.op = "ACK" /\ m.port \in DOMAIN transfers
           /\ LET t == transfers[m.port] IN
              /\ t.n <= Len(Blocks(m.port)) /\ m.what.block = t.n % BLOCKNUMS
              /\ transfers' = [transfers EXCEPT ![m.port].n = t.n + 1]
              /\ sent91' = sent91 \union (IF t.n < Len(Blocks(m.port)) THEN {DataPacket(m.port, t.file, t.n + 1)} ELSE {})
      BY <1>0, <1>4, AcknowledgementKeeps
<1> QED BY <1>1, <1>2, <1>3, <1>4 DEF Server

LEMMA TftpStarts ==
    ASSUME TftpInit
    PROVE  TftpInv
<1>0. /\ serverIP = "none" /\ serverMACSet = FALSE /\ serverMACAddr = "none" /\ ackBlock = -1 /\ serverPort = RRQPORT /\ RRQPORT = 0 /\ sent91 = {} /\ transfers = <<>> /\ ndl = 0
      /\ dl = [file |-> "none", got |-> <<>>, state |-> "idle"]
      BY DEF TftpInit, RRQPORT
<1>1. <<>> \in Seq(Text) /\ <<>> \in Seq(Transfers91) /\ Ports = {}  BY <1>0 DEF Ports
<1>a. serverMACSet \in BOOLEAN /\ (serverMACSet => serverMACAddr = serverIP)  BY <1>0, Zenon
<1>b. ndl \in Nat /\ serverPort \in Nat /\ ackBlock \in Int /\ transfers \in Seq(Transfers91)  BY <1>0, <1>1
<1>c. dl \in [file : Files91 \union {"missing", "none"}, got : Seq(Text), state : {"idle", "busy", "done", "timeout"}]  BY <1>0, <1>1
<1>d. serverIP \in Hosts91 /\ serverMACAddr \in Hosts91  BY <1>0 DEF Hosts91
<1>2. TftpTypes  BY <1>a, <1>b, <1>c, <1>d DEF TftpTypes
<1>3. Opened91 /\ Packets91  BY <1>0, <1>1 DEF Opened91, Packets91
<1>4. Stored91
      <2>1. dl.got = <<>> /\ Len(dl.got) = 0 /\ dl.state = "idle" /\ 0 < BLOCKNUMS  BY <1>0, TftpAssumption
      <2> QED BY <1>0, <1>1, <2>1 DEF Stored91, Fresh91, Ports
<1> QED BY <1>2, <1>3, <1>4 DEF TftpInv

LEMMA TftpKeeps ==
    ASSUME TftpInv, TftpNext
    PROVE  TftpInv'
<1>1. CASE EMAC_SetMACAddress  BY <1>1, SetKeeps DEF EMAC_SetMACAddress, TftpInv, TftpTypes
<1>2. CASE SetLocalIPAddress  BY <1>2, SetKeeps DEF SetLocalIPAddress, TftpInv, TftpTypes
<1>3. ASSUME NEW s \in IPs, SetServerIPAddress(s) PROVE TftpInv'  BY <1>3, SetKeeps DEF SetServerIPAddress, Hosts91
<1> QED BY <1>1, <1>2, <1>3, SilenceKeeps, DownloadKeeps, PacketKeeps, ServerKeeps DEF TftpNext

LEMMA TftpStutters ==
    ASSUME TftpInv, UNCHANGED tftpvars
    PROVE  TftpInv'
<1>0. UNCHANGED <<set91, serverIP, serverMACSet, serverMACAddr, ackBlock, serverPort, timeout91, dl, sent91, transfers, ndl>>  BY DEF tftpvars
<1>1. TftpTypes'  BY <1>0 DEF TftpInv, TftpTypes
<1>2. Opened91'  BY <1>0 DEF TftpInv, Opened91, Ports, FileOf
<1>3. Stored91'  BY <1>0 DEF TftpInv, Stored91, Ports, FileOf, Fresh91
<1>4. ASSUME NEW m \in sent91' PROVE PacketOK(m)'
      <2>1. PacketOK(m)  BY <1>0, <1>4 DEF TftpInv, Packets91
      <2>2. Len(dl.got) \in Nat /\ ndl \in Nat /\ TftpTypes  BY Got91 DEF TftpInv
      <2>3. \A q \in Ports : transfers[q].dl \in 1 .. ndl  BY DEF TftpInv, Opened91
      <2> QED BY <1>0, <2>1, <2>2, <2>3, PacketStays DEF Ports
<1> QED BY <1>1, <1>2, <1>3, <1>4 DEF TftpInv, Packets91

LEMMA PrefixOfFile ==
    ASSUME NEW S, NEW s \in Seq(S), NEW t \in Seq(S), Len(s) <= Len(t), \A i \in 1 .. Len(s) : s[i] = t[i]
    PROVE  IsPrefix(s, t) /\ (Len(s) = Len(t) => s = t)
<1>1. SubSeq(s, 1, Len(s)) = s  OBVIOUS
<1>2. SubSeq(t, 1, Len(s)) = s
      <2>1. SubSeq(t, 1, Len(s)) \in Seq(S) /\ Len(SubSeq(t, 1, Len(s))) = Len(s)  OBVIOUS
      <2>2. \A i \in 1 .. Len(s) : SubSeq(t, 1, Len(s))[i] = s[i]  OBVIOUS
      <2> QED BY <2>1, <2>2, SeqEqual
<1>3. Len(s) = Len(t) => s = t  BY SeqEqual
<1> QED BY <1>1, <1>2, <1>3 DEF IsPrefix

LEMMA DownloadSafe ==
    ASSUME TftpInv
    PROVE  TftpSafe
<1>1. RightServer
      <2>1. ASSUME NEW m \in sent91, m.k = "tftp", m.mac # m.ip PROVE m.what.op = "ACK" /\ m.port \in DOMAIN transfers /\ transfers[m.port].dl < ndl
            <3>1. m.what.op = "ACK" /\ m.port \in Ports /\ transfers[m.port].dl # ndl  BY <2>1 DEF TftpInv, Packets91, PacketOK
            <3>2. transfers[m.port].dl \in 1 .. ndl /\ ndl \in Nat  BY <3>1 DEF TftpInv, TftpTypes, Opened91
            <3> QED BY <3>1, <3>2 DEF Ports
      <2> QED BY <2>1 DEF TftpInv, TftpTypes, Opened91, RightServer, Ports
<1>2. ASSUME serverPort \in Ports
      PROVE  IsPrefix(dl.got, FileOf(serverPort)) /\ (Len(dl.got) = Len(FileOf(serverPort)) => dl.got = FileOf(serverPort))
      <2>1. FileOf(serverPort) \in Seq(Text) /\ dl.got \in Seq(Text)  BY <1>2, Transfer91, Got91 DEF TftpInv
      <2>2. Len(dl.got) <= Len(FileOf(serverPort)) /\ \A i \in 1 .. Len(dl.got) : dl.got[i] = FileOf(serverPort)[i]
            BY <1>2 DEF TftpInv, Stored91
      <2> QED BY <2>1, <2>2, PrefixOfFile
<1>3. dl.got # <<>> => serverPort \in DOMAIN transfers /\ IsPrefix(dl.got, Blocks(serverPort))
      BY <1>2 DEF TftpInv, Stored91, Ports, FileOf, Blocks
<1>4. ASSUME Fresh91
      PROVE  /\ Blocks(serverPort) = TftpFiles[dl.file]
             /\ dl.state = "done" => dl.got = TftpFiles[dl.file] \/ Len(TftpFiles[dl.file]) = BLOCKNUMS
             /\ transfers[serverPort].n > Len(TftpFiles[dl.file]) => dl.got = TftpFiles[dl.file]
      <2>1. serverPort \in Ports /\ transfers[serverPort].dl = ndl  BY <1>4 DEF Fresh91, Ports
      <2>2. FileOf(serverPort) = TftpFiles[dl.file] /\ Blocks(serverPort) = FileOf(serverPort)  BY <2>1 DEF TftpInv, Opened91, FileOf, Blocks
      <2>3. Len(FileOf(serverPort)) \in Nat /\ transfers[serverPort].n \in Nat /\ Len(dl.got) \in Nat
            BY <2>1, Transfer91, Got91 DEF TftpInv
      <2>4. Len(dl.got) <= Len(FileOf(serverPort))  BY <2>1 DEF TftpInv, Stored91
      <2>5. dl.state = "done" => dl.got = FileOf(serverPort) \/ Len(FileOf(serverPort)) = BLOCKNUMS
            BY <1>2, <1>4, <2>1 DEF TftpInv, Stored91
      <2>6. transfers[serverPort].n <= Len(dl.got) + 1  BY <2>1 DEF TftpInv, Opened91
      <2>7. transfers[serverPort].n > Len(FileOf(serverPort)) => Len(dl.got) = Len(FileOf(serverPort))  BY <2>3, <2>4, <2>6
      <2> QED BY <1>2, <2>1, <2>2, <2>5, <2>7
<1>5. StoredRight  BY <1>3, <1>4 DEF StoredRight
<1> QED BY <1>1, <1>5 DEF TftpSafe

-----------------------------------------------------------------------------
NetworkInv == DevInv /\ NicOK(nic) /\ TftpInv

\* The network device of the loader (dev_net.c, pxe.c), the drivers' frames (efinet.c, ofw_net.c,
\* uboot's net.c, ps3net.c) and the download of the AT91 boards (emac.c) do what NetworkSafe says:
\* opens are balanced by closes and the root's parameters belong together while a file is open, its
\* server unknown exactly if no answer named it; frames are delivered and sent once and in order, with
\* filters if EFI's start succeeded; and a download that ends with success has stored its file, whatever
\* the network loses, repeats, delays or answers, unless a late block of an earlier one began it.
THEOREM NetworkIsSafe == NetworkSpec => []NetworkSafe
<1>1. NetInit /\ TftpInit => NetworkInv
      BY DevStarts, NicStarts, TftpStarts DEF NetInit, NetworkInv
<1>2. NetworkInv /\ [NetworkNext]_<<netvars, tftpvars>> => NetworkInv'
      <2> SUFFICES ASSUME NetworkInv, [NetworkNext]_<<netvars, tftpvars>> PROVE NetworkInv'
          OBVIOUS
      <2>1. UNCHANGED devvars => DevInv'
            BY DEF NetworkInv, devvars, DevInv, DevTypes, Counts, Known, Told, Handles, Firmware, PxeChecked, Once
      <2>2. UNCHANGED nic => NicOK(nic')  BY DEF NetworkInv
      <2>3. UNCHANGED tftpvars => TftpInv'
            BY TftpStutters DEF NetworkInv
      <2>4. CASE NetNext /\ UNCHANGED tftpvars
            <3>1. CASE DevNext /\ UNCHANGED nic  BY <2>2, <2>3, <2>4, <3>1, DevKeeps DEF NetworkInv
            <3>2. CASE NicNext /\ UNCHANGED devvars  BY <2>1, <2>3, <2>4, <3>2, NicKeeps DEF NetworkInv
            <3> QED BY <2>4, <3>1, <3>2 DEF NetNext
      <2>5. CASE TftpNext /\ UNCHANGED netvars
            BY <2>1, <2>2, <2>5, TftpKeeps DEF NetworkInv, netvars
      <2>6. CASE UNCHANGED <<netvars, tftpvars>>
            BY <2>1, <2>2, <2>3, <2>6 DEF NetworkInv, netvars
      <2> QED BY <2>4, <2>5, <2>6 DEF NetworkNext
<1>3. NetworkInv => NetworkSafe
      BY DevSafe, NicSafe, DownloadSafe DEF NetworkInv, NetworkSafe
<1> QED BY <1>1, <1>2, <1>3, PTL DEF NetworkSpec
=============================================================================
