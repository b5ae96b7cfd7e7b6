-------------------------------- MODULE Net --------------------------------
(***************************************************************************)
(* Booting from the network.  dev_net.c and pxe.c open the interface for the *)
(* first file, ask the network who we are and where the root is, and close    *)
(* it with the last file; the drivers of EFI, Open Firmware, U-Boot and the    *)
(* PlayStation 3 move frames.  Addresses are small numbers, 0 is unset; the     *)
(* answers of the network are chosen anew for each question.                     *)
(***************************************************************************)
EXTENDS Naturals, Integers, Sequences, FiniteSets, SequencesExt

CONSTANTS
    Answers,        \* what the network says: bootp, rarp, whoami, gateway, getfile
    MaxOpens,       \* bound on the opens of a behaviour
    PxeFirmwares,   \* what pxeldr found
    FrameLens,      \* lengths of frames, 0 for one received with an error
    MaxFrames       \* bound on the frames of a behaviour
\* A path may name its server: [srv, path]; srv 0 if it does not.
RootPaths == [srv : Nat, path : STRING]
ASSUME NetAssumption ==
    /\ Answers \subseteq [bootp : [ip : Nat, mask : Nat, gate : Nat, server : Nat, path : RootPaths], rarp : Nat, whoami : BOOLEAN,
                         gateway : [ip : Nat, mask : Nat], getfile : RootPaths]
    /\ PxeFirmwares \subseteq [pxenv : [sig : BOOLEAN, short : BOOLEAN, sum : BOOLEAN, version : Nat],
                              bang : [sig : BOOLEAN, sum : BOOLEAN], gci : BOOLEAN]
    /\ FrameLens \subseteq Nat /\ MaxFrames \in Nat /\ MaxOpens \in Nat

-----------------------------------------------------------------------------
(* Who we are *)
VARIABLES dev, ip, env, fw, hist, nfiles
devvars == <<dev, ip, env, fw, hist, nfiles>>

NoPath == [srv |-> 0, path |-> "NULL"]
\* net_getparams and pxe_open cut the server off the path.
Split(s) == IF s.rootpath.srv = 0 THEN s ELSE [s EXCEPT !.rootip = s.rootpath.srv, !.rootpath.srv = 0]
Say(s) == [ip |-> s.myip, netmask |-> s.netmask, gateway |-> s.gateip, server |-> s.rootip, path |-> s.rootpath.path, handle |-> env.handle]
\* bootp of libstand: sets what the answer holds.
bootp(s, a) == IF a.bootp.ip = 0 THEN s
               ELSE [s EXCEPT !.myip = a.bootp.ip, !.netmask = a.bootp.mask, !.gateip = a.bootp.gate,
                              !.rootip = IF a.bootp.server # 0 THEN a.bootp.server ELSE @, !.rootpath = IF a.bootp.path # NoPath THEN a.bootp.path ELSE @]
\* Mutant of net_getparams: the path of a BOOTP answer keeps its server.
net_getparamsWhole(s0, a) ==
    LET s == bootp(s0, a)
        f == [s EXCEPT !.myip = a.rarp, !.gateip = a.gateway.ip, !.rootip = a.getfile.srv, !.rootpath = [a.getfile EXCEPT !.srv = 0]]
    IN  IF s.myip # 0 THEN [err |-> 0, ip |-> s]
        ELSE IF a.rarp = 0 \/ ~a.whoami \/ a.getfile = NoPath THEN [err |-> 5, ip |-> s] ELSE [err |-> 0, ip |-> Split(f)]
\* No answer names a server: BOOTP gives an address of ours and no more, or is silent and an address of an
\* earlier, failed attempt is taken for its answer, or bootparams name none.
Alone(s, a) == \/ a.bootp.ip # 0 /\ a.bootp.server = 0 /\ a.bootp.path.srv = 0
               \/ a.bootp.ip = 0 /\ s.myip # 0
               \/ a.bootp.ip = 0 /\ s.myip = 0 /\ a.getfile.srv = 0
\* net_getparams: RARP and bootparams only if there is no address of ours, be it from this BOOTP or from earlier.
net_getparams(s0, a) ==
    LET s == bootp(s0, a)
        r == [s EXCEPT !.myip = a.rarp]
        g == [r EXCEPT !.gateip = a.gateway.ip, !.netmask = IF a.gateway.mask # 0 THEN a.gateway.mask ELSE @]
        f == [g EXCEPT !.rootip = a.getfile.srv, !.rootpath = [a.getfile EXCEPT !.srv = 0]]
    IN  IF s.myip # 0 THEN [err |-> 0, ip |-> Split(s)]
        ELSE IF a.rarp = 0 THEN [err |-> 5, ip |-> s]
        ELSE IF ~a.whoami THEN [err |-> 5, ip |-> r]
        ELSE IF a.getfile = NoPath THEN [err |-> 5, ip |-> g]
        ELSE [err |-> 0, ip |-> Split(f)]

\* The interface itself; live counts what is open below us.
netif_open(d, name) == [d EXCEPT !.sock = 0, !.live = @ + 1, !.name = name]
netif_close(d) == [d EXCEPT !.sock = -1, !.live = @ - 1, !.name = "freed"]
\* net_cleanup as a function of device and addresses
Cleaned(d, i) == IF d.sock >= 0 THEN [d |-> netif_close(d), i |-> [i EXCEPT !.rootip = 0]] ELSE [d |-> d, i |-> i]
\* Which device: net, net built with NETIF_OPEN_CLOSE_ONCE, or pxe.
Once == dev.kind = "once"
net_open(name, a, opens) ==
    LET c == IF Once /\ dev.sock >= 0 /\ dev.name # name THEN Cleaned(dev, ip) ELSE [d |-> dev, i |-> ip]
        first == c.d.opens = 0
        o == IF first /\ c.d.sock < 0 THEN netif_open(c.d, name) ELSE c.d
        failed == first /\ c.d.sock < 0 /\ ~opens
        asks == first /\ c.i.rootip = 0
        p == net_getparams(c.i, a)
    IN  /\ dev.kind \in {"net", "once"} /\ hist.opened < MaxOpens
        /\ IF failed THEN dev' = c.d /\ ip' = c.i /\ nfiles' = nfiles /\ env' = env
           ELSE IF asks /\ p.err # 0 THEN dev' = netif_close(o) /\ ip' = p.ip /\ nfiles' = nfiles /\ env' = env
           ELSE /\ dev' = [o EXCEPT !.opens = @ + 1] /\ nfiles' = nfiles + 1
                /\ ip' = (IF asks THEN p.ip ELSE c.i) /\ env' = (IF asks THEN Say(p.ip) ELSE env)
        /\ hist' = [hist EXCEPT !.opened = @ + 1, !.other = @ \/ (Once /\ dev.sock >= 0 /\ dev.name # name),
                                !.alone = IF asks /\ ~failed THEN Alone(c.i, a) ELSE @]
        /\ UNCHANGED fw
net_close ==
    /\ dev.kind \in {"net", "once"} /\ nfiles > 0 /\ nfiles' = nfiles - 1
    /\ IF Once THEN UNCHANGED <<dev, ip>>
       ELSE IF dev.opens <= 0 THEN UNCHANGED <<dev, ip>>
       ELSE IF dev.opens - 1 > 0 THEN dev' = [dev EXCEPT !.opens = @ - 1] /\ ip' = ip
       ELSE LET c == Cleaned([dev EXCEPT !.opens = 0], ip) IN dev' = c.d /\ ip' = c.i
    /\ UNCHANGED <<env, fw, hist>>
\* dv_cleanup, when the kernel is about to be started
net_cleanup ==
    /\ dev.kind \in {"net", "once"} /\ ~hist.booted /\ LET c == Cleaned(dev, ip) IN dev' = c.d /\ ip' = c.i
    /\ hist' = [hist EXCEPT !.booted = TRUE, !.opened = MaxOpens] /\ nfiles' = 0 /\ UNCHANGED <<env, fw>>

-----------------------------------------------------------------------------
(* PXE *)
\* pxe_init: the structures that pxeldr hands over are checked one after the other.
pxe_init ==
    /\ dev.kind = "pxe" /\ fw.state = "enabled"
    /\ LET ok == fw.pxenv.sig /\ fw.pxenv.short /\ fw.pxenv.sum
           bang == fw.pxenv.version >= 2 /\ fw.bang.sig /\ fw.bang.sum
       IN  fw' = IF ~ok THEN [fw EXCEPT !.state = "none", !.pxenv_p = FALSE]
                 ELSE [fw EXCEPT !.state = IF fw.gci THEN "ready" ELSE "none", !.call = IF bang THEN "bangpxe" ELSE "pxenv",
                                 \* pxe_p is NULL after a bad signature or sum, and after a failed query
                                 !.pxe_p = IF fw.pxenv.version >= 2 THEN bang /\ fw.gci ELSE fw.gci]
    /\ UNCHANGED <<dev, ip, env, hist, nfiles>>
pxenv_call == IF fw.pxenv_p THEN "ok" ELSE "trap"
bangpxe_call == IF fw.pxe_p THEN "ok" ELSE "trap"
pxe_call == CASE fw.call = "NULL" -> "NULL" [] fw.call = "pxenv" -> pxenv_call [] OTHER -> bangpxe_call
\* pxe_netif_probe opens UDP; without an entry point it fails.
pxe_netif_probe(udp) == IF pxe_call = "NULL" THEN "fail" ELSE IF pxe_call = "trap" THEN "trap" ELSE IF udp THEN "ok" ELSE "fail"
PxeSip == 9
pxe_open(a, udp) ==
    LET opened == dev.sock >= 0 \/ pxe_netif_probe(udp) = "ok"
        o == IF dev.sock < 0 THEN netif_open(dev, "pxe") ELSE dev
        b == bootp(ip, a)
        s == Split([b EXCEPT !.rootip = IF @ = 0 THEN PxeSip ELSE @, !.rootpath = IF @ = NoPath THEN [srv |-> 0, path |-> "/pxeroot"] ELSE @])
    IN  /\ dev.kind = "pxe" /\ fw.state # "enabled" /\ hist.opened < MaxOpens
        /\ IF dev.opens = 0 /\ ~opened THEN UNCHANGED <<dev, ip, env, nfiles>> /\ hist' = [hist EXCEPT !.opened = @ + 1, !.trap = @ \/ pxe_netif_probe(udp) = "trap"]
           ELSE /\ dev' = [(IF dev.opens = 0 THEN o ELSE dev) EXCEPT !.opens = @ + 1] /\ nfiles' = nfiles + 1
                /\ IF dev.opens = 0 /\ ip.rootip = 0 THEN ip' = s /\ env' = Say(s) ELSE UNCHANGED <<ip, env>>
                /\ hist' = [hist EXCEPT !.opened = @ + 1]
        /\ UNCHANGED fw
\* pxe_setnfshandle: the handle of the root, asked for once, becomes a variable.
pxe_setnfshandle(mounted) == [env EXCEPT !.handle = IF ~dev.root THEN (IF mounted THEN <<ip.rootip, ip.rootpath.path>> ELSE <<0, "NULL">>) ELSE @]
pxe_close(mounted) ==
    /\ dev.kind = "pxe" /\ nfiles > 0 /\ nfiles' = nfiles - 1
    /\ IF dev.opens <= 0 THEN UNCHANGED <<dev, env>>
       ELSE IF dev.opens - 1 > 0 THEN dev' = [dev EXCEPT !.opens = @ - 1] /\ env' = env
       ELSE env' = pxe_setnfshandle(mounted) /\ dev' = [netif_close(dev) EXCEPT !.opens = 0, !.root = TRUE]
    /\ UNCHANGED <<ip, fw, hist>>

DevInit ==
    /\ \E k \in {"net", "once", "pxe"} : dev = [kind |-> k, sock |-> -1, opens |-> 0, name |-> "none", live |-> 0, root |-> FALSE]
    /\ ip = [myip |-> 0, netmask |-> 0, gateip |-> 0, rootip |-> 0, rootpath |-> NoPath]
    /\ env = [ip |-> 0, netmask |-> 0, gateway |-> 0, server |-> 0, path |-> "NULL", handle |-> <<>>]
    \* pxe_enable
    /\ \E f \in PxeFirmwares : fw = [state |-> "enabled", pxenv |-> f.pxenv, bang |-> f.bang, gci |-> f.gci, call |-> "NULL", pxenv_p |-> TRUE, pxe_p |-> TRUE]
    /\ hist = [opened |-> 0, other |-> FALSE, alone |-> FALSE, booted |-> FALSE, trap |-> FALSE] /\ nfiles = 0
DevNext == \/ \E n \in {"net0", "net1"}, a \in Answers, o \in BOOLEAN : net_open(n, a, o)
           \/ net_close \/ net_cleanup \/ pxe_init
           \/ \E a \in Answers, u \in BOOLEAN : pxe_open(a, u)
           \/ \E m \in BOOLEAN : pxe_close(m)

-----------------------------------------------------------------------------
(* Frames.  A driver is in one of the states of its hardware; hwq is what has arrived.  `failed' is
   the step of its last start that failed; fate tells of a panic and of a pointer never set.        *)
VARIABLES nic
ETIMEDOUT == 60
MINLEN == 60
\* ps3net_get with length 0, and after every frame: the one descriptor is given to the hardware again.
restartdma(n) == [n EXCEPT !.rx = "owned"]
Took(n, want, f) == [n EXCEPT !.ret = IF f.len < want THEN f.len ELSE want, !.want = want, !.got = Append(@, f.id)]
Nothing(n, want, r) == [n EXCEPT !.ret = r, !.want = want]
\* nif_devdata was not set, and is followed all the same.
Wild(n) == [n EXCEPT !.fate = "wild"]
\* Transmit and Receive fail on an interface that is not initialized.
efinet_get(n, want) ==
    IF n.failed = "protocol" THEN Wild(n)
    ELSE IF n.state # "initialized" \/ n.hwq = <<>> THEN Nothing(n, want, 0)
    ELSE LET f == Head(n.hwq) m == [n EXCEPT !.hwq = Tail(@)] IN IF f.len = 0 THEN Nothing(m, want, 0) ELSE Took(m, want, f)
\* Less than two addresses is no frame.
ofwn_get(n, want) ==
    IF n.state # "initialized" \/ n.hwq = <<>> THEN Nothing(n, want, -1)
    ELSE LET f == Head(n.hwq) m == [n EXCEPT !.hwq = Tail(@)] IN IF f.len < 12 THEN Nothing(m, want, -1) ELSE Took(m, want, f)
uboot_get(n, want) ==
    IF n.hwq = <<>> THEN Nothing(n, want, -1)
    ELSE LET f == Head(n.hwq) m == [n EXCEPT !.hwq = Tail(@)] IN IF f.len = 0 THEN Nothing(m, want, -1) ELSE Took(m, want, f)
\* Mutant of ps3net_get: the descriptor is not given back after a good frame.
ps3net_getKeeps(n, want) ==
    IF n.rx = "owned" THEN Nothing(n, want, ETIMEDOUT)
    ELSE IF n.frame.len = 0 THEN restartdma(Nothing(n, want, -1)) ELSE Took(n, want, n.frame)
\* A time out is returned as the number of the error, which is a length to the caller.
ps3net_get(n, want) ==
    IF n.rx = "owned" THEN Nothing(n, want, ETIMEDOUT)
    ELSE IF n.frame.len = 0 THEN restartdma(Nothing(n, want, -1)) ELSE restartdma(Took(n, want, n.frame))
Running == nic.up /\ nic.fate = "runs"
Get(want) == Running /\ nic' = CASE nic.drv = "efi" -> efinet_get(nic, want) [] nic.drv = "ofw" -> ofwn_get(nic, want)
                                [] nic.drv = "uboot" -> uboot_get(nic, want) [] nic.drv = "ps3" -> ps3net_get(nic, want)
\* A frame arrives: the PlayStation's hardware has one buffer, the others a queue; EFI's and Open
\* Firmware's hear nothing before they are initialized, EFI's nothing without filters.
Hears(n) == n.drv \in {"efi", "ofw"} => n.state = "initialized" /\ (n.drv = "efi" => n.filters)
Arrives(len) ==
    LET f == [id |-> nic.arrived + 1, len |-> len] IN
    /\ Running /\ nic.arrived < MaxFrames
    /\ nic' = IF ~Hears(nic) THEN [nic EXCEPT !.arrived = @ + 1]
              ELSE IF nic.drv # "ps3" THEN [nic EXCEPT !.arrived = @ + 1, !.hwq = Append(@, f)]
              ELSE IF nic.rx = "owned" THEN [nic EXCEPT !.arrived = @ + 1, !.rx = "full", !.frame = f] ELSE [nic EXCEPT !.arrived = @ + 1]
\* Sending.  wire is what has left: [id, len]; a frame is sent, lost, or sent although nobody knows (EFI's
\* GetStatus fails after Transmit).
efinet_put(n, len, how) ==
    IF n.failed = "protocol" THEN Wild(n)
    ELSE IF n.state # "initialized" \/ how = "lost" THEN [n EXCEPT !.putret = -1]
    ELSE [n EXCEPT !.putret = IF how = "unsure" THEN -1 ELSE len, !.wire = Append(@, [id |-> n.sent + 1, len |-> len])]
\* The length is made 60 for the copy; what is written has its own length.
ofwn_put(n, len, how) == IF n.state # "initialized" \/ how = "lost" THEN [n EXCEPT !.putret = -1]
                         ELSE [n EXCEPT !.putret = len, !.wire = Append(@, [id |-> n.sent + 1, len |-> len])]
uboot_put(n, len, how) == IF how = "lost" THEN [n EXCEPT !.putret = -1] ELSE [n EXCEPT !.putret = len, !.wire = Append(@, [id |-> n.sent + 1, len |-> IF len < MINLEN THEN MINLEN ELSE len])]
\* Waits until the hardware has sent the buffer; then the frame, with the tag of the network, is in it.
ps3net_put(n, len) == [n EXCEPT !.putret = len, !.tx = "owned", !.txbuf = [id |-> n.sent + 1, len |-> IF n.vlan THEN len + 4 ELSE len]]
Put(len) == \E how \in {"sent", "lost", "unsure"} :
    /\ Running /\ nic.sent < MaxFrames /\ (nic.drv # "efi" => how # "unsure") /\ (nic.drv = "ps3" => how = "sent" /\ nic.tx = "free")
    /\ LET n == CASE nic.drv = "efi" -> efinet_put(nic, len, how) [] nic.drv = "ofw" -> ofwn_put(nic, len, how)
                  [] nic.drv = "uboot" -> uboot_put(nic, len, how) [] nic.drv = "ps3" -> ps3net_put(nic, len)
       IN  nic' = [n EXCEPT !.sent = @ + 1]
Transmitted == Running /\ nic.drv = "ps3" /\ nic.tx = "owned" /\ nic' = [nic EXCEPT !.tx = "free", !.wire = Append(@, nic.txbuf)]
\* efinet_init: step by step.  netif_open does not hear of a failure: the interface is used as it is.
efinet_init(n, fails) ==
    LET started == IF n.state = "stopped" THEN "started" ELSE n.state
        m == [n EXCEPT !.up = TRUE, !.failed = fails]
    IN  CASE fails = "protocol" \/ (fails = "start" /\ n.state = "stopped") -> m
          [] fails = "initialize" /\ started # "initialized" -> [m EXCEPT !.state = started]
          [] fails = "filters" /\ ~n.filters -> [m EXCEPT !.state = "initialized"]
          [] OTHER -> [m EXCEPT !.state = "initialized", !.filters = TRUE, !.failed = "none"]
\* ofwn_init enters Open Firmware after a failure, and comes back if its user says so: without an instance
\* ("protocol", "start"), or with one that has no buffer, which is not needed.
ofwn_init(n, fails) == [n EXCEPT !.up = TRUE, !.failed = fails, !.state = IF fails \in {"protocol", "start"} THEN "stopped" ELSE "initialized"]
uboot_init(n, fails) == IF fails = "none" THEN [n EXCEPT !.up = TRUE] ELSE [n EXCEPT !.fate = "panic"]
\* ps3net_init: no frame of an earlier use is left in the descriptor.
ps3net_init(n, vlan) == restartdma([n EXCEPT !.up = TRUE, !.vlan = vlan])
Start9 == \E fails \in {"none", "protocol", "start", "initialize", "filters"}, vlan \in BOOLEAN :
    /\ ~nic.up /\ nic.fate = "runs" /\ nic.starts < 2
    /\ LET n == CASE nic.drv = "efi" -> efinet_init(nic, fails) [] nic.drv = "ofw" -> ofwn_init(nic, fails)
                  [] nic.drv = "uboot" -> uboot_init(nic, fails) [] nic.drv = "ps3" -> ps3net_init(nic, vlan)
       IN  nic' = [n EXCEPT !.starts = @ + 1]
\* The end: EFI's interface, if it was initialized, is shut down and may forget its filters; the others keep what has arrived.
efinet_end(n, forgets) ==
    IF n.failed = "protocol" THEN Wild(n)
    ELSE IF n.state # "initialized" THEN [n EXCEPT !.up = FALSE]
    ELSE [n EXCEPT !.up = FALSE, !.state = "started", !.filters = @ /\ ~forgets, !.hwq = <<>>]
ofwn_end(n) == [n EXCEPT !.up = FALSE, !.state = "stopped"]
uboot_end(n, fails) == IF fails THEN [n EXCEPT !.fate = "panic"] ELSE [n EXCEPT !.up = FALSE]
ps3net_end(n) == [n EXCEPT !.up = FALSE]
Stop9 == \E bad \in BOOLEAN : Running /\ nic.starts < 2 /\
         nic' = CASE nic.drv = "efi" -> efinet_end(nic, bad) [] nic.drv = "ofw" -> ofwn_end(nic)
                  [] nic.drv = "uboot" -> uboot_end(nic, bad) [] nic.drv = "ps3" -> ps3net_end(nic)
NicInit == \E d \in {"efi", "ofw", "uboot", "ps3"}, s \in {"stopped", "initialized"} :
    nic = [drv |-> d, up |-> FALSE, state |-> s, filters |-> FALSE, failed |-> "none", fate |-> "runs", starts |-> 0, hwq |-> <<>>, rx |-> "none", frame |-> [id |-> 0, len |-> 0], tx |-> "free",
           txbuf |-> [id |-> 0, len |-> 0], vlan |-> FALSE, arrived |-> 0, got |-> <<>>, want |-> 0, ret |-> 0, putret |-> 0, sent |-> 0, wire |-> <<>>]
NicNext == \/ Start9 \/ Stop9 \/ Transmitted
           \/ \E l \in FrameLens : Arrives(l) \/ (l > 0 /\ (Get(l) \/ Put(l)))

\* The device and, by itself, a driver.
NetInit == DevInit /\ NicInit
NetNext == (DevNext /\ UNCHANGED nic) \/ (NicNext /\ UNCHANGED devvars)
netvars == <<devvars, nic>>

-----------------------------------------------------------------------------
(* Properties *)
\* Files count the opens, the interface is open exactly while a file is, and its name is valid.
Balanced == /\ dev.live = (IF dev.sock >= 0 THEN 1 ELSE 0)
            /\ dev.sock >= 0 => dev.name \notin {"none", "freed"}
            /\ ~Once /\ ~hist.booted => dev.opens = nfiles /\ (dev.sock >= 0 <=> dev.opens > 0)
            /\ Once /\ ~hist.other /\ nfiles > 0 => dev.sock >= 0
\* While a file is open (and the interface was not changed under it) the variables say what the loader
\* believes, and the server of the root is known unless no answer named it: then an address of ours, be
\* it from an earlier attempt, is taken for an answer, and the open succeeds without a server.
ParamsKnown == nfiles > 0 /\ ~hist.other =>
                 /\ env.server = ip.rootip /\ env.path = ip.rootpath.path /\ env.ip = ip.myip /\ ip.rootpath.srv = 0
                 /\ ip.rootip = 0 <=> hist.alone
\* The handle the kernel is given belongs to the root it is told of.
HandleOfRoot == env.handle \notin {<<>>, <<0, "NULL">>} => env.handle = <<env.server, env.path>>
\* The firmware is called through a structure that was checked, unless its last query had failed.
PxeChecked == /\ fw.call = "pxenv" => fw.pxenv_p
              /\ fw.call = "bangpxe" /\ fw.gci => fw.pxe_p /\ fw.bang.sum
              /\ hist.trap => ~fw.gci
\* Life of the network device (dev_net.c, pxe.c): opens balanced by closes, parameters known while a file is open, PXE's structures checked.
NetSafe == Balanced /\ ParamsKnown /\ HandleOfRoot /\ PxeChecked
\* Frames are delivered once and in order, no longer than asked for; what is sent is what was put,
\* in order, and from U-Boot not shorter than Ethernet wants.  EFI's interface runs with its filters set
\* unless a step of its start failed, of which nobody hears; a pointer that was not set is followed only
\* if that step was the first.
FramesSafe == /\ \A i, j \in DOMAIN nic.got : i < j => nic.got[i] < nic.got[j]
              /\ nic.drv # "ps3" => nic.ret <= nic.want
              /\ \A i, j \in DOMAIN nic.wire : i < j => nic.wire[i].id < nic.wire[j].id
              /\ nic.drv = "uboot" => \A i \in DOMAIN nic.wire : nic.wire[i].len >= MINLEN
              /\ nic.drv = "ps3" => Len(nic.wire) + (IF nic.tx = "owned" THEN 1 ELSE 0) = nic.sent
              /\ nic.drv = "efi" /\ nic.up /\ nic.failed = "none" => nic.state = "initialized" /\ nic.filters
              /\ nic.fate = "wild" => nic.drv = "efi" /\ nic.failed = "protocol"
=============================================================================
