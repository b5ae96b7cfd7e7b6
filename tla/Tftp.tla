------------------------------- MODULE Tftp -------------------------------
(***************************************************************************)
(* The download of a file over the network by the first stages of the AT91   *)
(* boards (libat91/emac.c): ARP for the server's address, a read request,      *)
(* blocks and acknowledgements, over a network that loses, repeats, delays       *)
(* and reorders packets, those of earlier downloads too: a packet once sent may    *)
(* arrive at any later time, any number of times, or never.  The server is          *)
(* external: it opens a transfer with a port of its own for every request (no two      *)
(* hosts have the same) and takes what is sent to its addresses, both of them.          *)
(* It shares nothing with the loader's network, Net, beside which it is checked.       *)
(***************************************************************************)
EXTENDS Net

CONSTANTS
    TftpFiles,      \* the server's files: name |-> its blocks, the last one short
    IPs,            \* hosts; a host's hardware address is written as its name
    BLOCKNUMS,      \* 2^16: block numbers wrap
    TIMEOUT91,      \* 10: silences of two seconds before a download is given up
    MaxPorts, MaxDownloads
ASSUME TftpAssumption ==
    /\ BLOCKNUMS \in Nat \ {0, 1} /\ TIMEOUT91 \in Nat /\ MaxPorts \in Nat /\ MaxDownloads \in Nat
    /\ IPs \subseteq STRING /\ "none" \notin IPs
    /\ \A f \in DOMAIN TftpFiles : TftpFiles[f] \in Seq(STRING) /\ TftpFiles[f] # <<>>

VARIABLES
    set91,          \* which of mac, local and server address were set
    serverIP, serverMACSet, serverMACAddr,     \* "none" as long as it was never known
    ackBlock, serverPort, timeout91,
    dl,             \* the download under way or last: [file, got, state]
    sent91,         \* every packet sent so far
    transfers,      \* the server's transfers, by port: [file, n, dl, ip]; n is the block sent last
    ndl             \* how many downloads were asked for
tftpvars == <<set91, serverIP, serverMACSet, serverMACAddr, ackBlock, serverPort, timeout91, dl, sent91, transfers, ndl>>

Blocks(p) == TftpFiles[transfers[p].file]
Short(f, i) == i = Len(TftpFiles[f])
RRQPORT == 0
-----------------------------------------------------------------------------
(* The commands that set addresses *)
EMAC_SetMACAddress == dl.state # "busy" /\ set91' = set91 \union {"mac"} /\ UNCHANGED <<serverIP, serverMACSet, serverMACAddr, ackBlock, serverPort, timeout91, dl, sent91, transfers, ndl>>
\* The hardware address is to be asked for again; the old one is kept.
SetLocalIPAddress == dl.state # "busy" /\ set91' = set91 \union {"local"} /\ serverMACSet' = FALSE /\ UNCHANGED <<serverIP, serverMACAddr, ackBlock, serverPort, timeout91, dl, sent91, transfers, ndl>>
SetServerIPAddress(s) == /\ dl.state # "busy" /\ set91' = set91 \union {"server"} /\ serverIP' = s /\ serverMACSet' = FALSE
                         /\ UNCHANGED <<serverMACAddr, ackBlock, serverPort, timeout91, dl, sent91, transfers, ndl>>

-----------------------------------------------------------------------------
GetServerAddress == [k |-> "arp request", ip |-> serverIP]
\* Whether serverMACAddr belongs to serverIP is not looked at.
Send_TFTP_Packet(what) == [k |-> "tftp", mac |-> serverMACAddr, ip |-> serverIP, port |-> serverPort, what |-> what]
TFTP_RequestFile == Send_TFTP_Packet([op |-> "RRQ", file |-> dl.file, dl |-> ndl])
TFTP_Download(f) ==
    /\ dl.state # "busy" /\ ndl < MaxDownloads /\ set91 = {"mac", "local", "server"}
    /\ sent91' = sent91 \union {GetServerAddress}
    /\ dl' = [file |-> f, got |-> <<>>, state |-> "busy"] /\ ndl' = ndl + 1
    /\ timeout91' = TIMEOUT91 /\ serverPort' = RRQPORT /\ ackBlock' = -1
    /\ UNCHANGED <<set91, serverIP, serverMACSet, serverMACAddr, transfers>>

\* A block: stored if it is the next one, answered in any case, and the last one if it is short.
\* (The answer is sent to serverPort, which this step may have set.)
TFTP_ACK_Data(ack, port, b, data, short) ==
    LET next == b = ack + 1
        now == IF next THEN ack + 1 ELSE ack
    IN  /\ dl' = [dl EXCEPT !.got = IF next THEN Append(@, data) ELSE @, !.state = IF short THEN "done" ELSE @]
        /\ ackBlock' = IF short THEN -2 ELSE now
        /\ serverPort' = port
        /\ sent91' = sent91 \union {[Send_TFTP_Packet([op |-> "ACK", block |-> now % BLOCKNUMS]) EXCEPT !.port = port]}
\* Any packet starts the time again, one that is of no use too.
CheckForNewPacket(p) ==
    /\ dl.state = "busy" /\ timeout91' = TIMEOUT91
    /\ \/ /\ p.k = "arp reply"
          /\ IF ~serverMACSet /\ p.ip = serverIP THEN serverMACSet' = TRUE /\ serverMACAddr' = p.mac ELSE UNCHANGED <<serverMACSet, serverMACAddr>>
          /\ UNCHANGED <<ackBlock, serverPort, dl, sent91>>
       \/ /\ p.k = "data" /\ UNCHANGED <<serverMACSet, serverMACAddr>>
          /\ IF \/ ackBlock = -1 /\ p.block # 1
                \/ ackBlock # -1 /\ p.port # serverPort
             THEN UNCHANGED <<ackBlock, serverPort, dl, sent91>>
             ELSE TFTP_ACK_Data(IF ackBlock = -1 THEN 0 ELSE ackBlock, p.port, p.block, p.data, p.short)
       \/ p.k = "other" /\ UNCHANGED <<serverMACSet, serverMACAddr, ackBlock, serverPort, dl, sent91>>
    /\ UNCHANGED <<set91, serverIP, transfers, ndl>>
\* Two seconds without a packet: ask again, for the address, the file, or the next block.
Silence ==
    /\ dl.state = "busy" /\ timeout91' = timeout91 - 1
    /\ dl' = [dl EXCEPT !.state = IF timeout91 = 1 THEN "timeout" ELSE @]
    /\ sent91' = sent91 \union {IF ~serverMACSet THEN GetServerAddress
                                ELSE IF ackBlock = -1 THEN TFTP_RequestFile
                                ELSE Send_TFTP_Packet([op |-> "ACK", block |-> ackBlock % BLOCKNUMS])}
    /\ UNCHANGED <<set91, serverIP, serverMACSet, serverMACAddr, ackBlock, serverPort, transfers, ndl>>

-----------------------------------------------------------------------------
(* Hosts.  A server numbers its blocks modulo 2^16 and goes on when the last one sent is acknowledged. *)
DataPacket(p, f, n) == [k |-> "data", port |-> p, block |-> n % BLOCKNUMS, data |-> TftpFiles[f][n], short |-> Short(f, n)]
Server(m) ==
    /\ \/ /\ m.k = "arp request" /\ sent91' = sent91 \union {[k |-> "arp reply", ip |-> m.ip, mac |-> m.ip]} /\ UNCHANGED transfers
       \/ /\ m.k = "tftp" /\ m.mac = m.ip /\ m.what.op = "RRQ" /\ m.what.file \notin DOMAIN TftpFiles /\ sent91' = sent91 \union {[k |-> "other"]} /\ UNCHANGED transfers
       \/ /\ m.k = "tftp" /\ m.mac = m.ip /\ m.what.op = "RRQ" /\ m.what.file \in DOMAIN TftpFiles /\ Len(transfers) < MaxPorts
          /\ transfers' = Append(transfers, [file |-> m.what.file, n |-> 1, dl |-> m.what.dl, ip |-> m.ip])
          /\ sent91' = sent91 \union {DataPacket(Len(transfers) + 1, m.what.file, 1)}
       \/ /\ m.k = "tftp" /\ m.mac = m.ip /\ m.what.op = "ACK" /\ m.port \in DOMAIN transfers /\ transfers[m.port].ip = m.ip
          /\ LET t == transfers[m.port] IN
             /\ t.n <= Len(Blocks(m.port)) /\ m.what.block = t.n % BLOCKNUMS
             /\ transfers' = [transfers EXCEPT ![m.port].n = t.n + 1]
             /\ sent91' = sent91 \union (IF t.n < Len(Blocks(m.port)) THEN {DataPacket(m.port, t.file, t.n + 1)} ELSE {})
    /\ UNCHANGED <<set91, serverIP, serverMACSet, serverMACAddr, ackBlock, serverPort, timeout91, dl, ndl>>

TftpInit == /\ set91 = {} /\ serverIP = "none" /\ serverMACSet = FALSE /\ serverMACAddr = "none" /\ ackBlock = -1 /\ serverPort = RRQPORT /\ timeout91 = 0
            /\ dl = [file |-> "none", got |-> <<>>, state |-> "idle"] /\ sent91 = {} /\ transfers = <<>> /\ ndl = 0
TftpNext == \/ EMAC_SetMACAddress \/ SetLocalIPAddress \/ Silence
            \/ \E s \in IPs : SetServerIPAddress(s)
            \/ \E f \in DOMAIN TftpFiles \union {"missing"} : TFTP_Download(f)
            \/ \E p \in sent91 : CheckForNewPacket(p) \/ Server(p)

-----------------------------------------------------------------------------
(* Properties *)
\* The transfer the client follows belongs to this download, not to an earlier one: every download uses
\* the same port of ours, so that a late first block of an earlier transfer begins a download too.
Fresh91 == serverPort \in DOMAIN transfers /\ transfers[serverPort].dl = ndl
\* What is stored is the beginning of one file, the one of the transfer that is followed, whatever arrives
\* and when.  If that transfer is of this download, it is the file asked for, and all of it when the
\* download ends with success (but for a file of 2^16 blocks, whose last one has the number 0: it is not
\* stored and ends the download), and a server that has seen its last block acknowledged is right to
\* think that the file was stored.  If a late block began the download, nothing says which file it is.
StoredRight ==
    /\ dl.got # <<>> => serverPort \in DOMAIN transfers /\ IsPrefix(dl.got, Blocks(serverPort))
    /\ Fresh91 => /\ Blocks(serverPort) = TftpFiles[dl.file]
                  /\ dl.state = "done" => dl.got = TftpFiles[dl.file] \/ Len(TftpFiles[dl.file]) = BLOCKNUMS
                  /\ transfers[serverPort].n > Len(TftpFiles[dl.file]) => dl.got = TftpFiles[dl.file]
\* Requests go to the server that was set, and its transfers are the ones of this download.  Only the
\* acknowledgement of a late block may bear the hardware address of an earlier server, which was kept.
RightServer ==
    /\ serverMACSet => serverMACAddr = serverIP
    /\ \A p \in DOMAIN transfers : transfers[p].dl = ndl /\ dl.state = "busy" => transfers[p].ip = serverIP
    /\ \A m \in sent91 : m.k = "tftp" /\ m.mac # m.ip => m.what.op = "ACK" /\ m.port \in DOMAIN transfers /\ transfers[m.port].dl < ndl
\* The download of a file, for every order, loss, repetition and delay of packets, with the exceptions above.
TftpSafe == StoredRight /\ RightServer

NetworkNext == (NetNext /\ UNCHANGED tftpvars) \/ (TftpNext /\ UNCHANGED netvars)
NetworkSpec == NetInit /\ TftpInit /\ [][NetworkNext]_<<netvars, tftpvars>>
\* What comes over the network: parameters that belong together (net_getparams), frames that
\* are whole (the drivers' get and put), files as the server has them (TFTP_Download).
NetworkSafe == NetSafe /\ FramesSafe /\ TftpSafe
=============================================================================
