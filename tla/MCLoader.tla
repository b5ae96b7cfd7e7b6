------------------------------ MODULE MCLoader ------------------------------
(***************************************************************************)
(* The parts of the loaders that do not share state, for model checking:     *)
(* `which' says what a behaviour is about, the other parts rest.             *)
(***************************************************************************)
EXTENDS HandOver, Consoles, Terminal, Elf, Shell, Tftp, Xmodem, BootCommands
VARIABLE which

(* Handing over: kernels, environments, arguments. *)
F(name, type, args, addr, size, md) == [name |-> name, type |-> type, args |-> args, addr |-> addr, size |-> size, md |-> md]
Sym == <<Md("SSYM", 4, 40), Md("ESYM", 4, 44), [Md("ELFHDR", 7, "hdr") EXCEPT !.nocopy = TRUE], Md("PHDR", 5, "phdr")>>
MCKernels == {<<F("kernel", "elf kernel", a, 32, s, Sym)>> \o rest : a \in {"NULL", "-s"}, s \in {16, 21},
    rest \in {<<>>, <<F("m", "elf module", "NULL", 64, 3, <<>>)>>, <<F("m", "elf module", "-s", 64, 3, <<Md("PHDR", 5, "p2")>>), F("md", "image", "NULL", 80, 9, <<>>)>>}}
E1(n, v) == [name |-> n, value |-> v]
MCEnvs == {<<>>, <<E1("console", "vid com")>>, <<E1("console", "com"), E1("x", "NULL")>>, <<E1("x", "-s"), E1("console", "vid")>>}
MCArgs == {<<>>, <<"-", "s">>, <<"x", "-", "v", " ", "s">>, <<"-", "-", "h">>, <<"-", "h", "x", "s">>}
MCStrLen == [s \in {"kernel", "elf kernel", "elf module", "image", "m", "md", "-s", "x", "console", "vid com", "com", "vid", "YES", "boot_single", "boot_verbose", "boot_serial", "boot_multicons"} |->
    CASE s \in {"m", "x"} -> 1 [] s \in {"-s", "md"} -> 2 [] s \in {"YES", "vid", "com"} -> 3 [] s = "image" -> 5 [] s = "kernel" -> 6 [] s \in {"console", "vid com"} -> 7 [] OTHER -> 10]

-----------------------------------------------------------------------------
(* Screens and consoles. *)
MCWords == {<<"a">>, <<"cr", "nl">>, <<"b", "bs">>, <<"tab">>, <<"nl">>, <<"bel", "bs", "a">>, <<"esc", "[", "H">>, <<"esc", "[", "2", ";", "3", "H">>, <<"esc", "[", "9", ";", "1", "H">>,
    <<"esc", "[", "J">>, <<"esc", "[", "3", "1", ";", "1", "m">>, <<"esc", "[", "7", ";", "4", "4", "m">>, <<"esc", "[", "m">>, <<"esc", "x">>, <<"esc">>, <<"[", "1", ";">>, <<";", "4">>, <<"H">>}
MCPs3 == [w |-> 48, h |-> 40, xm |-> 4, ym |-> 3, font |-> 14]
PC == <<"vidconsole", "comconsole", "dcons", "nullconsole", "spinconsole">>
CL(l, c, m) == [list |-> l, console |-> c, multicons |-> m, speed |-> NONE, port |-> NONE, pcidev |-> NONE, divisor |-> 6]
Preset(speed, port, pcidev) == [CL(PC, <<"vidconsole", "comconsole">>, TRUE) EXCEPT !.speed = speed, !.port = port, !.pcidev = pcidev]
MCLists == {CL(PC, <<>>, FALSE), CL(PC, <<"comconsole">>, FALSE), CL(PC, <<"vidconsole", "comconsole">>, TRUE), CL(PC, <<"nullconsole">>, FALSE), Preset(9600, 2, NONE), Preset(100000, 0, 11), Preset(0, 1, 12), [Preset(NONE, NONE, 0) EXCEPT !.divisor = 0]}
    \union {CL(<<c>>, <<>>, FALSE) : c \in {"ofw", "ski", "uboot", "efi", "userboot", "ps3"}}
MCValues == {<<"comconsole">>, <<"vidconsole", "", "comconsole">>, <<"ofw">>, <<"">>, <<"vidconsole", "x">>, <<"spinconsole">>}
MCBars == 11 :> 2 @@ 12 :> -2 @@ 13 :> -1

-----------------------------------------------------------------------------
(* ELF files.  Linked at b: headers, hash table, symbols and relocations in the text; tags, the *)
(* set of pointers, three records and their strings in the data.                               *)
Hdr9 == [k |-> "hdr"]
S9(n, v, d) == [k |-> "sym", name |-> n, value |-> v, defined |-> d, shndx |-> 0]
D9(t, v) == [k |-> "dyn", tag |-> t, v |-> v]
Str9(v) == [k |-> "str", v |-> v]
R9(off, rela, add) == [k |-> "rel", off |-> off, type |-> "RELATIVE", rela |-> rela, add |-> IF rela THEN add ELSE 0, sym |-> 0]
Ty(t) == [k |-> "type", v |-> t]
TextSec9(b, rela, stop) == <<Hdr9, Hdr9, Hdr9, Hdr9, N(2), N(3), N(1), N(0), N(0), N(2), N(0), S9("", 0, FALSE), S9("start", b + 39, TRUE), S9("stop", b + 42, stop)>>
    \o [i \in 1 .. 9 |-> R9(b + <<39, 40, 41, 43, 44, 46, 47, 49, 50>>[i], rela, <<42, 45, 48, 51, 52, 53, 54, 51, 51>>[i])] \o <<N(0)>>
Data9(b, rela, t) == LET v(x) == N(IF rela THEN 0 ELSE b + x) IN
    <<D9("HASH", b + 4), D9("SYMTAB", b + 11), D9("STRTAB", b + 11), D9("STRSZ", 5), D9("REL", b + 14), D9("RELSZ", IF b = 0 THEN 9 ELSE 0), D9("NULL", 0), v(42), v(45), v(48)>>
    \o <<Ty("DEPEND"), v(51), v(52), Ty(t), v(53), v(54), N(9), v(51), v(51), Str9("dep"), Str9("d1"), Str9("ver"), Str9("d2")>>
Dep9 == [type |-> "DEPEND", name |-> Str9("dep"), data |-> Str9("d1")]
Ver9(t) == [type |-> t, name |-> Str9("ver"), data |-> Str9("d2")]
Fake9 == [type |-> "VERSION", name |-> [k |-> "fake"], data |-> N(1)]
Ph9(t, o, v, fs, ms) == [type |-> t, offset |-> o, vaddr |-> v, filesz |-> fs, memsz |-> ms]
Sh9(t, o, n, l) == [type |-> t, offset |-> o, size |-> n, link |-> l]
Image9(type, b, rela, t, stop, phend, archs) ==
    [type |-> type, entry |-> b + 4, archs |-> archs, phend |-> phend, hash |-> [start |-> 4, stop |-> 6],
     data |-> TextSec9(b, rela, stop) \o Data9(b, rela, t) \o <<S9("a", 1, TRUE), S9("c", 2, TRUE), S9("e", 3, TRUE), Str9("a"), Str9("c")>>,
     ph |-> <<Ph9("LOAD", 0, b, 24, 24), Ph9("LOAD", 24, b + 32, 23, 26), Ph9("DYNAMIC", 24, b + 32, 7, 7)>>,
     sh |-> <<Sh9("SYMTAB", 11, 3, 0), Sh9("STRTAB", 50, 2, 0), Sh9("SYMTAB", 47, 3, 2)>>,
     records |-> (IF b = 0 THEN <<Dep9>> ELSE <<>>) \o <<Ver9(t)>> \o (IF t = "VERSION" THEN <<>> ELSE <<Fake9>>)]
MCElfFiles == {Image9("DYN", 0, FALSE, t, s, p, {"i386", "powerpc", "arm", "ia64"}) : t \in {"VERSION", "MODULE"}, s \in BOOLEAN, p \in {3, 17}}
    \union {Image9("DYN", 0, TRUE, "VERSION", TRUE, 3, {"amd64", "sparc64"})}
    \union {Image9("EXEC", b, FALSE, "VERSION", TRUE, 3, {"i386", "amd64", "powerpc", "arm"}) : b \in {128}}
    \union {[Image9("EXEC", b, FALSE, "VERSION", TRUE, 3, {"ia64", "sparc64"}) EXCEPT !.sh = SubSeq(@, 1, n)] : b \in {16}, n \in {1, 3}}
\* A relocatable module: a record set, records, zeros, two tables, names and relocations against symbols.
O9(t, n, al, o, l, info, nm) == [type |-> t, size |-> n, align |-> al, offset |-> o, link |-> l, info |-> info, name |-> nm]
A9(off, rela, sym, add) == [k |-> "rel", off |-> off, type |-> "ABS", rela |-> rela, add |-> IF rela THEN add ELSE 0, sym |-> sym]
OS9(sec, v) == [k |-> "sym", name |-> "s", value |-> v, defined |-> TRUE, shndx |-> sec]
Obj9(rela, archs, undef, tabs, kind) ==
    LET v(x) == N(IF rela THEN 0 ELSE x) IN
    [type |-> "REL", archs |-> archs, shstrndx |-> 6, records |-> <<Dep9, Ver9("VERSION")>>,
     data |-> <<Hdr9, v(3), v(0), N(7), Ty("VERSION"), v(8), v(9), Ty("DEPEND"), v(6), v(7), Str9("dep"), Str9("d1"), Str9("ver"), Str9("d2"), N(5),
                A9(0, rela, 1, 3), A9(1, rela, 1, 0), A9(1, rela, undef, 8), A9(2, rela, 1, 9), A9(4, rela, 1, 6), A9(5, rela, 1, 7),
                OS9(0, 0), OS9(3, 0), OS9(4, 0), OS9(0, 5), Str9("x"), Str9("names")>>,
     sh |-> <<O9("PROGBITS", 1, 4, 14, 0, 0, "text"), O9("PROGBITS", 2, 2, 1, 0, 0, IF kind = "noset" THEN "other" ELSE "set_modmetadata_set"), O9("PROGBITS", 10, 2, 4, 0, 0, "data"), O9("NOBITS", 3, 8, 0, 0, 0, "bss"),
              O9(IF kind = "nostr" THEN "PROGBITS" ELSE "STRTAB", 1, 1, 25, 0, 0, "strtab"), O9("STRTAB", 1, 1, 26, 0, 0, "shstrtab"), O9("SYMTAB", 4, 2, 21, 5, 0, "symtab")>>
           \o (IF tabs = 2 THEN <<O9("SYMTAB", 4, 2, 21, 5, 0, "symtab2")>> ELSE <<>>)
           \o <<O9(IF rela THEN "RELA" ELSE "REL", 2, 2, 15, 7, 2, "rel.set"), O9(IF rela THEN "RELA" ELSE "REL", 4, 2, 17, 7, 3, "rel.data")>>]
MCObjFiles == {Obj9(r, IF r THEN {"amd64", "sparc64"} ELSE {"i386", "arm"}, undef, tabs, kind) : r \in BOOLEAN, undef \in {1, 3, 9}, tabs \in {1, 2}, kind \in {"set", "noset", "nostr"}}

-----------------------------------------------------------------------------
(* The command line: what is parsed, the help file, scripts that include each other. *)
MCInputs == UNION {[1 .. n -> {"a", "\\", "'", "$", "{", "}", " ", "0", "n"}] : n \in 1 .. 5}
    \union {s \o t : s \in {<<"$", "{", "a", "}">>, <<"a", "$", "a">>, <<"\\", "0", "4", "0">>, <<"\\", "0", "x", "4">>, <<"\\", "0", "4", "4">>},
                     t \in UNION {[1 .. n -> {"a", "'", "$", " ", "0", "4", "\\"}] : n \in 0 .. 3}}
MCVals == (<<"a">> :> <<"a", " ", "b">>) @@ (<<"a", "0">> :> <<"c">>)
L9(p, c, a) == [prefix |-> p, cmd |-> c, args |-> a]
He(t, s, x) == [topic |-> t, subtopic |-> s, text |-> x]
MCHelp == {<<He("a", "NULL", <<"1", "2">>), He("a", "x", <<"3">>), He("a", "y", <<"4">>), He("help", "NULL", <<"5">>), He("NULL", "x", <<"6">>), He("b", "x", <<>>)>>, <<>>}
MCReqs == {<<>>, <<"a">>, <<"a", "y">>, <<"a", "z">>, <<"b">>, <<"index">>, <<"c">>, <<"a", "b", "c">>}
MCScripts == ("loader.rc" :> <<L9("", "set", <<"x", "1">>), L9("", "comment", <<>>), L9("@", "include", <<"s1", "s2">>), L9("-", "unset", <<"y">>), L9("", "", <<>>), L9("", "show", <<"x">>)>>)
 @@ ("boot.conf" :> <<L9("", "set", <<"z", "1">>), L9("-", "nosuch", <<>>), L9("@-", "echo", <<>>), L9("", "set", <<"z", "2">>)>>)
 @@ ("s1" :> <<L9("", "read", <<"y">>), L9("-", "include", <<"s3", "none", "s2">>), L9("", "more", <<"s3">>)>>)
 @@ ("s2" :> <<L9("", "echo", <<>>), L9("", "ls", <<"file">>), L9("", "lsdev", <<>>)>>)
 @@ ("s3" :> <<L9("", "set", <<"w", "1">>), L9("", "help", <<>>)>>)
MCPrompted == {L9("", "include", <<"s3", "s1">>), L9("", "bad", <<>>), L9("", "unset", <<"w">>), L9("", "nosuch", <<>>), L9("", "set", <<>>), L9("", "show", <<>>)}

-----------------------------------------------------------------------------
(* The network: answers and firmwares; `side' says whether a behaviour is about the device or about frames. *)
VARIABLE side
P9(s, p) == [srv |-> s, path |-> p]
B9(i, s, p) == [ip |-> i, mask |-> 4, gate |-> 2, server |-> s, path |-> p]
An(b, r, w, g) == [bootp |-> b, rarp |-> r, whoami |-> w, gateway |-> [ip |-> 2, mask |-> 4], getfile |-> g]
NoBootp == B9(0, 0, NoPath)
MCAnswers == {An(B9(5, 3, P9(0, "/r")), 0, FALSE, NoPath), An(B9(5, 3, P9(4, "/r")), 0, FALSE, NoPath), An(B9(5, 0, NoPath), 0, FALSE, NoPath), An(NoBootp, 0, FALSE, NoPath),
              An(NoBootp, 5, FALSE, NoPath), An(NoBootp, 5, TRUE, NoPath), An(NoBootp, 5, TRUE, P9(6, "/r2"))}
MCFirmwares == {[pxenv |-> [sig |-> s, short |-> TRUE, sum |-> s, version |-> v], bang |-> [sig |-> TRUE, sum |-> c], gci |-> g] : s \in BOOLEAN, v \in {1, 2}, c \in BOOLEAN, g \in BOOLEAN}
NoPxe == fw.gci /\ fw.bang.sum /\ fw.pxenv.version = 1 /\ fw.pxenv.sig
MCNetInit == /\ side \in {"dev", "nic"} /\ NetInit
             /\ side = "nic" => dev.kind = "net" /\ NoPxe
             /\ side = "dev" => nic.drv = "efi" /\ nic.state = "stopped" /\ (dev.kind # "pxe" => NoPxe)
MCNetNext == \/ side = "dev" /\ DevNext /\ UNCHANGED <<side, nic>>
             \/ side = "nic" /\ NicNext /\ UNCHANGED <<side, devvars>>

-----------------------------------------------------------------------------
(* The boards with an AT91: files of a server, images of a serial line, boot commands. *)
MCFiles == ("a" :> <<"a1", "a2", "a3">>) @@ ("b" :> <<"b1">>) @@ ("even" :> <<"e1", "e2", "e3", "e4">>) @@ ("long" :> <<"l1", "l2", "l3", "l4", "l5">>)
MCImages == {<<<<4, 1>>>>, <<<<0, 3>>, <<1, 1>>, <<5, 4>>>>, <<<<0, 3>>, <<1, 1>>, <<5, 4>>, <<7, 7>>, <<1, 6>>>>}
MCTyped == {<<"s", " ", "1", " ", "a">>, <<"s", " ", "1", " ", "e", " ", "x", "bs", "a", " ", "a">>, <<"s", " ", "2", " ", "a", " ", " ", "a">>,
    <<"s", " ", "2", " ", "a", " ", "b", " ", "c">>, <<"s", " ", "1">>, <<"s", " ", "9", " ", "a">>, <<"w">>, <<"s", " ", "2", " ", "w">>, <<"s">>, <<"s", " ", "1", " ", "a", " ", "b", " ", "c", " ", "d">>,
    <<"bs", "s", " ", "1", " ", "a", "a", "a", "a", "a", "a", "a", "a">>}
MCBaked == {[i \in 0 .. 2 |-> <<>>], [i \in 0 .. 2 |-> <<<<"x", "a">>, <<>>, <<"s", " ", "1">>>>[i + 1]]}

-----------------------------------------------------------------------------
(* Rest: a part that a behaviour is not about. *)
RestNet == side = "" /\ NetInit /\ dev.kind = "net" /\ NoPxe /\ nic.drv = "efi" /\ nic.state = "stopped"
RestHand == hplat = "" /\ files = <<>> /\ environ = <<>> /\ image = <<>>
RestCons == consoles = <<>> /\ flags = <<>> /\ cenv = <<>> /\ com = <<>> /\ uart = <<>> /\ inq = <<>> /\ saved = <<>> /\ got = <<>> /\ gone = <<>> /\ sent = <<>> /\ count = <<>> /\ early = {}
RestTerm == vid = <<>> /\ ps3 = <<>> /\ paper = <<>> /\ nwords = 0
RestElf == efile = <<>> /\ earch = "" /\ efault = "" /\ out = <<>>
RestShell == line = <<>> /\ forth = FALSE /\ stack9 = <<>> /\ gen = 0 /\ envt = <<>> /\ fds9 = 0 /\ heap9 = 0 /\ sourceID = "" /\ mfail = "" /\ answer = "" /\ ran = <<>> /\ dangling = {} /\ shpc = "" /\ ntyped = 0
RestXm == image91 = <<>> /\ program91 = "" /\ wire = <<>> /\ back91 = <<>> /\ sender = <<>> /\ starting = FALSE /\ packetNumber = 0 /\ mem91 = <<>> /\ copy91 = <<>> /\ len91 = 0
          /\ flash91 = <<>> /\ page91 = 0 /\ try91 = 0 /\ bad91 = {} /\ damage = 0 /\ resent = 0
RestBc == boot_commands = <<>> /\ eeprom = <<>> /\ writing = "" /\ spi91 = FALSE /\ source91 = "" /\ currentIndex = 0 /\ written91 = {} /\ last91 = <<>> /\ nlines = 0

MCInit ==
    /\ which \in {"net", "hand", "cons", "term", "elf", "shell", "tftp", "xmodem", "commands"}
    /\ IF which = "net" THEN MCNetInit ELSE RestNet
    /\ IF which = "hand" THEN HandOverInit ELSE RestHand
    /\ IF which = "cons" THEN ConsolesInit ELSE RestCons
    /\ IF which = "term" THEN TermInit ELSE RestTerm
    /\ IF which = "elf" THEN ElfInit ELSE RestElf
    /\ IF which = "shell" THEN ShellInit ELSE RestShell
    /\ TftpInit
    /\ IF which = "xmodem" THEN XmodemInit ELSE RestXm
    /\ IF which = "commands" THEN CommandsInit ELSE RestBc
MCNext ==
    /\ UNCHANGED which
    /\ \/ which = "net" /\ MCNetNext /\ UNCHANGED <<hovars, convars, termvars, elfvars, shvars, tftpvars, xmvars, bcvars>>
       \/ which = "hand" /\ HandOverNext /\ UNCHANGED <<side, netvars, convars, termvars, elfvars, shvars, tftpvars, xmvars, bcvars>>
       \/ which = "cons" /\ ConsolesNext /\ UNCHANGED <<side, netvars, hovars, termvars, elfvars, shvars, tftpvars, xmvars, bcvars>>
       \/ which = "term" /\ TermNext /\ UNCHANGED <<side, netvars, hovars, convars, elfvars, shvars, tftpvars, xmvars, bcvars>>
       \/ which = "elf" /\ ElfNext /\ UNCHANGED <<side, netvars, hovars, convars, termvars, shvars, tftpvars, xmvars, bcvars>>
       \/ which = "shell" /\ ShellNext /\ UNCHANGED <<side, netvars, hovars, convars, termvars, elfvars, tftpvars, xmvars, bcvars>>
       \/ which = "tftp" /\ TftpNext /\ UNCHANGED <<side, netvars, hovars, convars, termvars, elfvars, shvars, xmvars, bcvars>>
       \/ which = "xmodem" /\ XmodemNext /\ UNCHANGED <<side, netvars, hovars, convars, termvars, elfvars, shvars, tftpvars, bcvars>>
       \/ which = "commands" /\ CommandsNext /\ UNCHANGED <<side, netvars, hovars, convars, termvars, elfvars, shvars, tftpvars, xmvars>>
MCSpec == MCInit /\ [][MCNext]_<<which, side, netvars, hovars, convars, termvars, elfvars, shvars, tftpvars, xmvars, bcvars>>

-----------------------------------------------------------------------------
\* What the loader leaves in memory is what its own walk of it finds (bi_load).
HandedOver == which = "hand" => HandOverSafe
\* What a file is loaded as is what it says (elf_loadimage, elf_obj_loadimage).
LoadedRight == which = "elf" => ElfSafe
\* Characters appear once and where they belong, on every console in use (console.c and its
\* drivers, the terminal emulations).
ScreenSafe == (which = "cons" => ConsolesSafe) /\ (which = "term" => TerminalSafe)
\* Lines are split, scripts nested and help shown as they were written, and the arguments of a command
\* are not used after they were freed; the message about a failed include shows a name that is
\* (parse, include, command_help).
LinesSafe == which = "shell" => ShellSafe
\* What an AT91 board gets over a serial line is what it writes, and what it stores is what
\* comes back (xmodem_rx, the boot commands).
At91Safe == (which = "xmodem" => XmodemSafe) /\ (which = "commands" => CommandsSafe)
=============================================================================
