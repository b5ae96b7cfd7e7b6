------------------------------ MODULE Xmodem ------------------------------
(***************************************************************************)
(* The serial download of the AT91 boards (libat91/xmodem.c) and what is done *)
(* with it: bootspi writes it to the flash, boot0spi writes it, reads it back   *)
(* and tries again, boot0iic writes it to the EEPROM byte by byte.  The line       *)
(* loses or changes a byte of a packet.  The sender is external: it sends the       *)
(* next packet when the last is acknowledged, repeats one that is not answered        *)
(* and gives up when it is told to.  A checksum is taken to tell all packets apart.    *)
(***************************************************************************)
EXTENDS Integers, Sequences, FiniteSets

CONSTANTS
    Images,         \* images, sequences of packets, which are pairs of bytes
    NUMS,           \* 2^8: packet numbers wrap
    PERPAGE,        \* packets in a page of the flash
    TRIES,          \* 10: writes of a page by boot0spi
    MaxDamage, MaxResend

VARIABLES
    image91, program91,           \* what is sent; bootspi, boot0spi or boot0iic
    wire, back91,               \* bytes on the way to the board, answers on the way back
    sender,                     \* [state, n]: the packet sent last, Len + 1 for the EOT
    starting, packetNumber,     \* xmodem_rx
    mem91, copy91,              \* packets in memory at addr; boot0spi's second copy
    len91,                      \* packets received: -1 as long as xmodem_rx has not returned
    flash91, page91, try91, bad91,      \* pages written, the next page, its tries, pages reported bad
    damage, resent
xmvars == <<image91, program91, wire, back91, sender, starting, packetNumber, mem91, copy91, len91, flash91, page91, try91, bad91, damage, resent>>

SOH == 1
EOT == 4
Comp(n) == NUMS - 1 - n
Crc(d) == 100 + NUMS * d[1] + d[2]
Junk91 == <<-1, -1>>
-----------------------------------------------------------------------------
(* The sender and the line *)
Frame91(n) == IF n > Len(image91) THEN <<EOT>> ELSE <<SOH, n % NUMS, Comp(n % NUMS), image91[n][1], image91[n][2], Crc(image91[n])>>
\* A packet as it arrives: as it was sent, or with a byte lost or changed.
Damaged(f) == {[k \in 1 .. Len(f) - 1 |-> f[IF k < i THEN k ELSE k + 1]] : i \in DOMAIN f} \union {[f EXCEPT ![i] = 6] : i \in DOMAIN f}
Transmit(n) == \/ wire' = wire \o Frame91(n) /\ UNCHANGED damage
               \/ damage < MaxDamage /\ damage' = damage + 1 /\ \E f \in Damaged(Frame91(n)) : wire' = wire \o f
Sender ==
    /\ UNCHANGED <<image91, program91, starting, packetNumber, mem91, copy91, len91, flash91, page91, try91, bad91>>
    /\ \/ /\ back91 # <<>> /\ back91' = Tail(back91) /\ UNCHANGED resent
          /\ CASE Head(back91) = "C" /\ sender.state = "waits" -> sender' = [state |-> "sends", n |-> 1] /\ Transmit(1)
               [] Head(back91) = "ACK" /\ sender.state = "sends" /\ sender.n <= Len(image91) -> sender' = [sender EXCEPT !.n = @ + 1] /\ Transmit(sender.n + 1)
               [] Head(back91) = "ACK" /\ sender.state = "sends" /\ sender.n > Len(image91) -> sender' = [sender EXCEPT !.state = "sent"] /\ UNCHANGED <<wire, damage>>
               [] Head(back91) = "CAN" /\ sender.state = "sends" -> sender' = [sender EXCEPT !.state = "waits"] /\ UNCHANGED <<wire, damage>>
               [] OTHER -> UNCHANGED <<sender, wire, damage>>
       \* no answer, or it was lost: the packet is sent again, or the sender gives up
       \/ /\ sender.state = "sends" /\ wire = <<>> /\ UNCHANGED back91
          /\ \/ resent < MaxResend /\ resent' = resent + 1 /\ Transmit(sender.n) /\ UNCHANGED sender
             \/ sender' = [sender EXCEPT !.state = "failed"] /\ UNCHANGED <<wire, damage, resent>>
       \/ /\ back91 # <<>> /\ damage < MaxDamage /\ damage' = damage + 1 /\ back91' = Tail(back91)
          /\ UNCHANGED <<sender, wire, resent>>

-----------------------------------------------------------------------------
(* The receiver *)
Store91(s, i, v) == [k \in 1 .. (IF i > Len(s) THEN i ELSE Len(s)) |-> IF k = i THEN v ELSE IF k \in DOMAIN s THEN s[k] ELSE Junk91]
\* How far GetRecord reads: up to the first byte that is wrong or does not come; 5 and good if none is.
GetRecord(n, w) ==
    LET wrong == {j \in 1 .. 5 : \/ j \notin DOMAIN w
                                 \/ (j = 1 /\ w[1] # n) \/ (j = 2 /\ w[2] # Comp(n)) \/ (j = 5 /\ w[5] # Crc(<<w[3], w[4]>>))}
        first == CHOOSE j \in wrong : \A k \in wrong : j <= k
    IN  IF wrong = {} THEN [good |-> TRUE, read |-> 5] ELSE [good |-> FALSE, read |-> IF first < Len(w) THEN first ELSE Len(w)]
\* Mutant of xmodem_rx: a record that failed is acknowledged as if it had been received.
xmodem_rxAnyway ==
    /\ len91 = -1 /\ wire # <<>> /\ Head(wire) = SOH
    /\ LET r == GetRecord(packetNumber % NUMS, Tail(wire)) IN
       /\ wire' = SubSeq(wire, r.read + 2, Len(wire)) /\ back91' = Append(back91, "ACK")
       /\ packetNumber' = packetNumber + 1 /\ mem91' = Store91(mem91, packetNumber, IF r.good THEN <<wire[4], wire[5]>> ELSE Junk91)
    /\ starting' = FALSE /\ UNCHANGED len91
\* A record: stored and acknowledged; if it is not the one expected the transfer is cancelled, and begun
\* again by the caller, with what is left of the record still to be read.
xmodem_rx ==
    /\ len91 = -1 /\ wire # <<>> /\ Head(wire) = SOH
    /\ LET r == GetRecord(packetNumber % NUMS, Tail(wire)) IN
       /\ wire' = SubSeq(wire, r.read + 2, Len(wire))
       /\ IF r.good
          THEN /\ back91' = Append(back91, "ACK") /\ starting' = FALSE /\ packetNumber' = packetNumber + 1
               /\ mem91' = Store91(mem91, packetNumber, <<wire[4], wire[5]>>)
          ELSE /\ back91' = Append(back91, "CAN") /\ starting' = TRUE /\ packetNumber' = 1
               /\ mem91' = IF r.read > 2 THEN Store91(mem91, packetNumber, Junk91) ELSE mem91
    /\ UNCHANGED len91
\* The end, or a byte that is neither: passed over.
Between ==
    /\ len91 = -1 /\ wire # <<>> /\ Head(wire) # SOH /\ wire' = Tail(wire)
    /\ IF Head(wire) = EOT THEN back91' = Append(back91, "ACK") /\ len91' = packetNumber - 1 ELSE UNCHANGED <<back91, len91>>
    /\ UNCHANGED <<mem91, starting, packetNumber>>
\* A second without a byte: the sender is asked to begin.
Ask91 == /\ len91 = -1 /\ wire = <<>> /\ starting /\ back91 = <<>> /\ back91' = <<"C">>
         /\ UNCHANGED <<wire, mem91, len91, starting, packetNumber>>

-----------------------------------------------------------------------------
(* The flash.  Its program command sends the page and fills the same memory with what comes back. *)
PageOf(m, p) == [k \in 1 .. PERPAGE |-> IF p * PERPAGE + k \in DOMAIN m THEN m[p * PERPAGE + k] ELSE Junk91]
Pages91 == (len91 + PERPAGE - 1) \div PERPAGE
SPI_WriteFlash(p) ==
    /\ \/ flash91' = [q \in DOMAIN flash91 \union {p} |-> IF q = p THEN PageOf(mem91, p) ELSE flash91[q]] /\ UNCHANGED damage
       \/ /\ damage < MaxDamage /\ damage' = damage + 1
          /\ flash91' = [q \in DOMAIN flash91 \union {p} |-> IF q = p THEN [k \in 1 .. PERPAGE |-> Junk91] ELSE flash91[q]]
    /\ mem91' = [k \in DOMAIN mem91 |-> IF k \in p * PERPAGE + 1 .. (p + 1) * PERPAGE THEN Junk91 ELSE mem91[k]]
SPI_ReadFlash(p) == flash91'[p]
UpdateFlash == /\ program91 = "bootspi" /\ SPI_WriteFlash(page91) /\ page91' = page91 + 1 /\ UNCHANGED <<try91, bad91>>
Boot0Spi == /\ program91 = "boot0spi" /\ SPI_WriteFlash(page91)
            /\ IF SPI_ReadFlash(page91) = PageOf(copy91, page91) THEN page91' = page91 + 1 /\ try91' = 0 /\ UNCHANGED bad91
               ELSE IF try91 + 1 < TRIES THEN try91' = try91 + 1 /\ UNCHANGED <<page91, bad91>>
               ELSE page91' = page91 + 1 /\ try91' = 0 /\ bad91' = bad91 \union {page91}
\* WriteEEPROM, after InitEEPROM: byte by byte, from memory that stays as it is.
WriteEEPROM == /\ program91 = "boot0iic" /\ page91' = page91 + 1 /\ UNCHANGED <<mem91, damage, try91, bad91>>
               /\ flash91' = [q \in DOMAIN flash91 \union {page91} |-> IF q = page91 THEN PageOf(mem91, page91) ELSE flash91[q]]
\* boot0spi keeps a second copy of all that it received.
Received91 == /\ len91 >= 0 /\ copy91 = <<>> /\ len91 > 0 /\ copy91' = mem91
              /\ UNCHANGED <<image91, program91, wire, back91, sender, starting, packetNumber, mem91, len91, flash91, page91, try91, bad91, damage, resent>>
Write91 == /\ len91 > 0 /\ copy91 # <<>> /\ page91 < Pages91 /\ (UpdateFlash \/ Boot0Spi \/ WriteEEPROM)
           /\ UNCHANGED <<image91, program91, wire, back91, sender, starting, packetNumber, copy91, len91, resent>>

XmodemInit == /\ image91 \in Images /\ program91 \in {"bootspi", "boot0spi", "boot0iic"} /\ wire = <<>> /\ back91 = <<>>
              /\ sender = [state |-> "waits", n |-> 0] /\ starting = TRUE /\ packetNumber = 1 /\ mem91 = <<>> /\ copy91 = <<>> /\ len91 = -1
              /\ flash91 = <<>> /\ page91 = 0 /\ try91 = 0 /\ bad91 = {} /\ damage = 0 /\ resent = 0
XmodemNext == \/ Sender \/ Received91 \/ Write91
              \/ (xmodem_rx \/ Between \/ Ask91) /\ UNCHANGED <<image91, program91, sender, copy91, flash91, page91, try91, bad91, damage, resent>>

-----------------------------------------------------------------------------
(* Properties *)
\* What xmodem_rx says it received is the beginning of the image, and over a good line all of it.  (On a bad line the
\* number of packet 4, or a byte 4 left of a cancelled record, is taken for the end: a beginning is all one can say.)
ReceivedRight ==
    /\ len91 > 0 /\ copy91 # <<>> => len91 <= Len(image91) /\ SubSeq(copy91, 1, len91) = SubSeq(image91, 1, len91)
    /\ sender.state = "sent" /\ damage = 0 /\ resent = 0 => len91 = Len(image91)
\* A page that boot0spi does not report is in the flash, whatever writes failed; the others write what
\* they received, which nobody reads back.
WrittenRight ==
    \A p \in 0 .. page91 - 1 : p \notin bad91 /\ (damage = 0 \/ program91 # "bootspi") => flash91[p] = PageOf(copy91, p)
\* A serial download ends in the flash as it was sent, as far as it is said to.
XmodemSafe == ReceivedRight /\ WrittenRight
=============================================================================
