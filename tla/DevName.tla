------------------------------ MODULE DevName ------------------------------
(***************************************************************************)
(* Device specifications of the loader: `disk0s1a:/boot' and the like, the  *)
(* <platform>_parsedev, _fmtdev, _getdev and _setcurrdev of the platforms'  *)
(* devicename.c.  A specification is a sequence of tokens: the name of a    *)
(* device, numbers, letters, a colon, a path.                                *)
(***************************************************************************)
EXTENDS Naturals, Integers, Sequences, FiniteSets, SequencesExt

CONSTANT MAXPARTITIONS
ASSUME PartitionsAssumption == MAXPARTITIONS \in 3 .. 8

Devices == [disk |-> "DISK", cd |-> "CD", net |-> "NET"]
Digits == <<"0", "1", "2", "3", "4", "5", "6", "7", "8", "9">>
Letters == <<"a", "b", "c", "d", "e", "f", "g", "h", "p", "s", "x">>
IsNumber(t) == \E i \in DOMAIN Digits : Digits[i] = t
Number(t) == (CHOOSE i \in DOMAIN Digits : Digits[i] = t) - 1
\* *cp - 'a', for the letters that are tokens.
Ordinal(t) == CASE t = "p" -> 15 [] t = "s" -> 18 [] t = "x" -> 23
                [] OTHER -> IF Contains(Letters, t) THEN (CHOOSE i \in 1 .. 8 : Letters[i] = t) - 1 ELSE -1
\* The end of a string is the token "".
At(spec, i) == IF i <= Len(spec) THEN spec[i] ELSE ""
Ends(spec, i) == At(spec, i) \in {"", ":"}

Dev(unit, slice, part) == [type |-> "DISK", unit |-> unit, slice |-> slice, part |-> part]
Failed(e) == [err |-> e, dev |-> Dev(-1, -1, -1), path |-> <<>>]
Parsed(dev, spec, i) == [err |-> "0", dev |-> dev, path |-> SubSeq(spec, IF At(spec, i) = "" THEN i ELSE i + 1, Len(spec))]
\* What is left at i has to be the end or a colon.
ParsedAt(dev, spec, i) == IF Ends(spec, i) THEN Parsed(dev, spec, i) ELSE Failed("EINVAL")
GPT == 255

\* A BSD partition letter at i, if any.
ParseLetter(unit, slice, spec, i) ==
    IF Ends(spec, i) THEN Parsed(Dev(unit, slice, -1), spec, i)
    ELSE IF Ordinal(At(spec, i)) \in 0 .. MAXPARTITIONS - 1 THEN ParsedAt(Dev(unit, slice, Ordinal(At(spec, i))), spec, i + 1)
    ELSE Failed("EPART")

\* disk<unit>[s<slice>][<partition>] and disk<unit>p<index>
ParseSliced(spec) ==
    LET unit == Number(At(spec, 2))
        Slice == Number(At(spec, 4))
    IN  IF Ends(spec, 2) THEN Parsed(Dev(-1, -1, -1), spec, 2)
        ELSE IF ~IsNumber(At(spec, 2)) THEN Failed("EUNIT")
        ELSE IF At(spec, 3) \notin {"p", "s"} THEN ParseLetter(unit, -1, spec, 3)
        ELSE IF ~IsNumber(At(spec, 4)) THEN Failed("ESLICE")
        ELSE IF At(spec, 3) = "p" THEN ParsedAt(Dev(unit, Slice, GPT), spec, 5)
        ELSE ParseLetter(unit, Slice, spec, 5)

\* disk<unit>[<partition>] and disk<unit>p<index>: pnum is kept in `slice', ptype in `part'.
BSDLABEL == 0
ParsePnum(spec) ==
    LET unit == Number(At(spec, 2))
        letter == Ordinal(At(spec, 3))
    IN  IF ~IsNumber(At(spec, 2)) THEN Failed("EUNIT")
        ELSE IF Ends(spec, 3) THEN Parsed(Dev(unit, -1, -1), spec, 3)
        ELSE IF At(spec, 3) = "p" /\ ~Ends(spec, 4)
             THEN IF IsNumber(At(spec, 4)) THEN ParsedAt(Dev(unit, Number(At(spec, 4)), GPT), spec, 5) ELSE Failed("EINVAL")
        ELSE IF letter \in 0 .. MAXPARTITIONS - 1 THEN ParsedAt(Dev(unit, letter, BSDLABEL), spec, 4)
        ELSE Failed("EPART")

\* <device>[<unit>], the unit optional
ParseUnit(type, none, spec) ==
    LET dev(u) == [Dev(u, -1, -1) EXCEPT !.type = type]
    IN  IF Ends(spec, 2) THEN Parsed(dev(none), spec, 2)
        ELSE IF ~IsNumber(At(spec, 2)) THEN Failed("EUNIT")
        ELSE ParsedAt(dev(Number(At(spec, 2))), spec, 3)

\* uboot, ps3 and efi look for the end of a name without a unit at an uninitialised pointer.
Undefined(spec) == Ends(spec, 2)
DevType(spec) == IF Len(spec) > 0 /\ spec[1] \in DOMAIN Devices THEN Devices[spec[1]] ELSE "none"
i386_parsedev(spec) == CASE DevType(spec) = "DISK" -> ParseSliced(spec)
                         [] DevType(spec) \in {"CD", "NET"} -> ParseUnit(DevType(spec), 0, spec)
                         [] OTHER -> Failed("ENOENT")
\* The same text as i386_parsedev; there is no zfs device.
userboot_parsedev(spec) == i386_parsedev(spec)
uboot_parsedev(spec) == CASE DevType(spec) \in {"DISK", "NET"} /\ Undefined(spec) -> Failed("undefined")
                          [] DevType(spec) = "DISK" -> ParsePnum(spec)
                          [] DevType(spec) = "NET" -> ParseUnit("NET", 0, spec)
                          [] DevType(spec) = "CD" -> Failed("EINVAL")
                          [] OTHER -> Failed("ENOENT")
\* A network or CD device has unit 0 whatever follows its name, and no path is returned.
ps3_parsedev(spec) == CASE DevType(spec) = "DISK" -> IF Undefined(spec) THEN Failed("undefined") ELSE ParsePnum(spec)
                        [] DevType(spec) \in {"CD", "NET"} -> [err |-> "0", dev |-> [Dev(0, -1, -1) EXCEPT !.type = DevType(spec)], path |-> <<>>]
                        [] OTHER -> Failed("ENOENT")
ia64_parsedev(spec) == IF DevType(spec) = "none" THEN Failed("ENOENT")
                       ELSE IF Undefined(spec) THEN Failed("undefined")
                       ELSE ParseUnit(DevType(spec), -1, spec)
\* The same text in i386/efi.
efi_parsedev(spec) == ia64_parsedev(spec)
parsedev(plat, spec) == CASE plat \in {"i386", "pc98"} -> i386_parsedev(spec) [] plat = "userboot" -> userboot_parsedev(spec)
                          [] plat = "uboot" -> uboot_parsedev(spec) [] plat = "ps3" -> ps3_parsedev(spec)
                          [] plat = "efi" -> efi_parsedev(spec) [] OTHER -> ia64_parsedev(spec)

NameOf(type) == CHOOSE n \in DOMAIN Devices : Devices[n] = type
Unit(dev) == <<NameOf(dev.type), Digits[dev.unit + 1]>>
i386_fmtdev(dev) ==
    Unit(dev) \o (IF dev.type # "DISK" THEN <<>>
                  ELSE IF dev.part = GPT THEN <<"p", Digits[dev.slice + 1]>>
                  ELSE (IF dev.slice > 0 THEN <<"s", Digits[dev.slice + 1]>> ELSE <<>>) \o
                       (IF dev.part >= 0 THEN <<Letters[dev.part + 1]>> ELSE <<>>)) \o <<":">>
userboot_fmtdev(dev) == i386_fmtdev(dev)
uboot_fmtdev(dev) ==
    Unit(dev) \o (IF dev.type # "DISK" \/ dev.slice < 0 THEN <<>>
                  ELSE IF dev.part = BSDLABEL THEN <<Letters[dev.slice + 1]>>
                  ELSE IF dev.part = GPT THEN <<"p", Digits[dev.slice + 1]>> ELSE <<>>) \o <<":">>
ps3_fmtdev(dev) == uboot_fmtdev(dev)
ia64_fmtdev(dev) == Unit(dev) \o <<":">>
efi_fmtdev(dev) == ia64_fmtdev(dev)
fmtdev(plat, dev) == CASE plat \in {"i386", "pc98"} -> i386_fmtdev(dev) [] plat = "userboot" -> userboot_fmtdev(dev)
                       [] plat = "uboot" -> uboot_fmtdev(dev) [] plat = "ps3" -> ps3_fmtdev(dev) [] plat = "efi" -> efi_fmtdev(dev)
                       [] OTHER -> ia64_fmtdev(dev)

\* A specification without a device is a path on the current device.
IsPath(spec) == spec = <<>> \/ spec[1] = "/" \/ ~Contains(spec, ":")
getdev(plat, currdev, spec) ==
    IF ~IsPath(spec) THEN parsedev(plat, spec)
    ELSE LET r == parsedev(plat, currdev) IN [r EXCEPT !.path = IF r.err = "0" THEN spec ELSE @]
=============================================================================
