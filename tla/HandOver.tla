----------------------------- MODULE HandOver ------------------------------
(***************************************************************************)
(* What the loaders hand to the kernel: bootinfo.c, bootinfo32.c,           *)
(* bootinfo64.c and the metadata.c of the platforms.  Behind the files that *)
(* are loaded come a copy of the environment and a list of tagged records,   *)
(* one run per file, that the kernel walks; the last records of the kernel   *)
(* file say where all that lies and how to boot.                              *)
(* Memory is the list of copyin calls: address, length and content.           *)
(***************************************************************************)
EXTENDS Naturals, Integers, Sequences, FiniteSets, SequencesExt

CONSTANTS
    Kernels,        \* lists of preloaded files, the kernel among them
    Environments,   \* lists of variables
    ArgStrings,     \* the arguments of the boot command, as sequences of characters
    StrLen,         \* strlen, by name
    PAGE,           \* PAGE_SIZE
    PBVM_PAGE_SIZE  \* the page of ia64's mapped loads
ASSUME HandOverAssumption == PAGE \in Nat /\ PAGE % 16 = 0 /\ PBVM_PAGE_SIZE \in Nat \ {0} /\ PBVM_PAGE_SIZE % 16 = 0

VARIABLES hplat, files, environ, image
hovars == <<hplat, files, environ, image>>

\* The word of the kernel that is booted.
WORD == CASE hplat \in {"i386/32", "userboot/32", "uboot", "powerpc/32", "ps3/32"} -> 4 [] OTHER -> 8
\* The word that records are padded to: userboot's 32-bit macros take the u_long of the host.
PADWORD == IF hplat = "userboot/32" THEN 8 ELSE WORD
\* The size of addresses in the loader's own structures.
VMSIZE == IF hplat \in {"i386/32", "uboot", "powerpc/32", "i386/64", "powerpc/64", "ps3/32", "ps3/64"} THEN 4 ELSE 8
roundup(x, y) == ((x + y - 1) \div y) * y

-----------------------------------------------------------------------------
(* boothowto *)
Switches == [a |-> "ASKNAME", C |-> "CDROM", d |-> "KDB", D |-> "MULTIPLE", m |-> "MUTE", g |-> "GDB", h |-> "SERIAL",
             p |-> "PAUSE", r |-> "DFLTROOT", s |-> "SINGLE", v |-> "VERBOSE"]
Flag(c) == IF c \in DOMAIN Switches THEN {Switches[c]} ELSE {}
howto_names == [boot_single |-> "SINGLE", boot_verbose |-> "VERBOSE", boot_serial |-> "SERIAL", boot_multicons |-> "MULTIPLE"]
\* Switches follow a dash up to the first character that is none.
Switched(args) == FoldLeft(LAMBDA r, c : IF ~r.active THEN [r EXCEPT !.active = (c = "-")]
                                         ELSE [howto |-> r.howto \union Flag(c), active |-> Flag(c) # {}],
                           [howto |-> {}, active |-> FALSE], args).howto
\* ia64 and efi look for the next dash from where the switches end, that place included.
SwitchedEfi(args) == FoldLeft(LAMBDA r, c : IF c = "-" THEN [r EXCEPT !.active = TRUE]
                                            ELSE IF ~r.active THEN r ELSE [howto |-> r.howto \union Flag(c), active |-> Flag(c) # {}],
                              [howto |-> {}, active |-> FALSE], args).howto
Getenv(name) == LET at == {i \in DOMAIN environ : environ[i].name = name} IN IF at = {} THEN "NULL" ELSE environ[CHOOSE i \in at : TRUE].value
FromEnv == {howto_names[n] : n \in {n \in DOMAIN howto_names : Getenv(n) # "NULL"}}
\* The value of console: the consoles it names, the first of them first.
ConsoleList(v) == CASE v = "vid" -> <<"vidconsole">> [] v = "com" -> <<"comconsole">> [] v = "vid com" -> <<"vidconsole", "comconsole">>
                    [] v = "com vid" -> <<"comconsole", "vidconsole">> [] v = "null" -> <<"nullconsole">> [] OTHER -> <<>>
bi_getboothowto(args) ==
    LET cons == ConsoleList(Getenv("console"))
        named == Switched(args) \union FromEnv
                 \union (IF Contains(cons, "comconsole") THEN {"SERIAL"} ELSE {}) \union (IF Contains(cons, "nullconsole") THEN {"MUTE"} ELSE {})
        both == named \union (IF Contains(cons, "vidconsole") /\ "SERIAL" \in named THEN {"MULTIPLE"} ELSE {})
    \* strsep has cut the string after the first name
    IN  IF cons # <<>> /\ cons[1] = "vidconsole" THEN both \ {"SERIAL"} ELSE both
md_getboothowto(args) == Switched(args) \union FromEnv \union (IF Getenv("console") = "com" THEN {"SERIAL"} ELSE {})
                         \union (IF Getenv("console") = "null" THEN {"MUTE"} ELSE {})
\* bi_setboothowto: the flags of the earlier stage become variables.
bi_setboothowto(howto, env) == env \o SetToSeq({[name |-> n, value |-> "YES"] : n \in {n \in DOMAIN howto_names : howto_names[n] \in howto}})
\* The copies of the ports: userboot's is that of i386, those of metadata.c are alike.
userboot_getboothowto(args) == bi_getboothowto(args)
sparc64_getboothowto(args) == md_getboothowto(args)
ofw_getboothowto(args) == md_getboothowto(args)
ps3_getboothowto(args) == md_getboothowto(args)
ia64_getboothowto(args) == SwitchedEfi(args) \union FromEnv
efi_getboothowto(args) == SwitchedEfi(args) \union FromEnv
boothowto(args) == CASE hplat \in {"i386/32", "i386/64"} -> bi_getboothowto(args) [] hplat \in {"userboot/32", "userboot/64"} -> userboot_getboothowto(args)
                     [] hplat = "ia64" -> ia64_getboothowto(args) [] hplat = "efi" -> efi_getboothowto(args)
                     [] hplat = "sparc64" -> sparc64_getboothowto(args) [] hplat \in {"powerpc/32", "powerpc/64"} -> ofw_getboothowto(args)
                     [] hplat \in {"ps3/32", "ps3/64"} -> ps3_getboothowto(args) [] OTHER -> md_getboothowto(args)

-----------------------------------------------------------------------------
(* Copying.  A copy in progress is the next address and the calls so far.   *)
At0(addr) == [addr |-> addr, writes |-> <<>>]
Write(at, len, what, from) == [at |-> at, len |-> len, what |-> what, from |-> from]
\* A kernel that is mapped page by page is copied so, and every piece starts with the first byte of the
\* source again (ia64_copyin).
Pages(at, len) == (at + len - 1) \div PBVM_PAGE_SIZE - at \div PBVM_PAGE_SIZE + 1
ia64_copyin(at, what, len) ==
    [i \in 1 .. Pages(at, len) |->
        LET edge == (at \div PBVM_PAGE_SIZE + i - 1) * PBVM_PAGE_SIZE
            va == IF i = 1 THEN at ELSE edge
            end == IF i = Pages(at, len) THEN at + len ELSE edge + PBVM_PAGE_SIZE
        IN  Write(va, end - va, what, 0)]
Copyin(m, what, len) == [addr |-> m.addr + len,
                         writes |-> m.writes \o IF hplat = "ia64" THEN ia64_copyin(m.addr, what, len) ELSE <<Write(m.addr, len, what, 0)>>]
Pad(m, len) == [m EXCEPT !.addr = @ + roundup(len, PADWORD) - len]
\* One copy after the other.
Copyins(m, pieces) == FoldLeft(LAMBDA n, p : Copyin(n, p.what, p.len), m, pieces)
Piece(what, len) == [what |-> what, len |-> len]
COPY32(v) == Piece(v, 4)
\* A record, and how it is written: its tag, its length and what it holds, padded.
Rec(tag, len, what) == [tag |-> tag, len |-> len, what |-> what]
Record(m, r) == Pad(Copyins(m, <<COPY32(r.tag), COPY32(r.len), Piece(r.what, r.len)>>), r.len)
MOD_STR(tag, s) == Rec(tag, StrLen[s] + 1, s)
MOD_VAR(tag, v, size) == Rec(tag, size, v)
MOD_METADATA(md) == Rec(md.type, md.size, md.data)
MOD_END(m) == Copyins(m, <<COPY32("END"), COPY32(0)>>)

\* name=value, a zero byte after each variable and one more at the end
bi_copyenv(addr) ==
    LET One(ep) == <<Piece(ep.name, StrLen[ep.name]), Piece("=", 1)>> \o
                   (IF ep.value = "NULL" THEN <<>> ELSE <<Piece(ep.value, StrLen[ep.value])>>) \o <<Piece("", 1)>>
    IN  Copyin(FoldLeft(LAMBDA m, ep : Copyins(m, One(ep)), At0(addr), environ), "", 1)
\* Addresses are one word of the loader, or of the kernel where the loader makes them so.
AddrSize == IF hplat \in {"i386/64", "userboot/32", "userboot/64", "powerpc/64", "ps3/64"} THEN 8 ELSE VMSIZE
Head5(fp, reloc) ==
    <<MOD_STR("NAME", fp.name), MOD_STR("TYPE", fp.type)>> \o (IF fp.args = "NULL" THEN <<>> ELSE <<MOD_STR("ARGS", fp.args)>>) \o
    <<MOD_VAR("ADDR", fp.addr - reloc, AddrSize), MOD_VAR("SIZE", fp.size, AddrSize)>>
Copied(fp) == SelectSeq(fp.md, LAMBDA md : ~md.nocopy)
CopyFile(m, fp, reloc) == FoldLeft(Record, m, Head5(fp, reloc) \o [i \in DOMAIN Copied(fp) |-> MOD_METADATA(Copied(fp)[i])])
CopyModules(addr, fs, reloc) == MOD_END(FoldLeft(LAMBDA m, fp : CopyFile(m, fp, reloc), At0(addr), fs))
relocation_offset == IF hplat = "uboot" THEN 16 ELSE 0
\* The ports' own copies of the same two loops.
bi_copymodules32(addr, fs) == CopyModules(addr, fs, 0)
bi_copymodules64(addr, fs) == CopyModules(addr, fs, 0)
userboot_copymodules32(addr, fs) == CopyModules(addr, fs, 0)
userboot_copymodules64(addr, fs) == CopyModules(addr, fs, 0)
ia64_copymodules(addr, fs) == CopyModules(addr, fs, 0)
efi_copymodules(addr, fs) == CopyModules(addr, fs, 0)
md_copymodules(addr, fs) == CopyModules(addr, fs, relocation_offset)
sparc64_copymodules(addr, fs) == CopyModules(addr, fs, 0)
ofw_copymodules(addr, fs) == CopyModules(addr, fs, 0)
ps3_copymodules(addr, fs) == CopyModules(addr, fs, 0)
copymodules(addr, fs) == CASE hplat = "i386/32" -> bi_copymodules32(addr, fs) [] hplat = "i386/64" -> bi_copymodules64(addr, fs)
                           [] hplat = "userboot/32" -> userboot_copymodules32(addr, fs) [] hplat = "userboot/64" -> userboot_copymodules64(addr, fs)
                           [] hplat = "ia64" -> ia64_copymodules(addr, fs)
                           [] hplat = "efi" -> efi_copymodules(addr, fs) [] hplat = "sparc64" -> sparc64_copymodules(addr, fs)
                           [] hplat \in {"powerpc/32", "powerpc/64"} -> ofw_copymodules(addr, fs)
                           [] hplat \in {"ps3/32", "ps3/64"} -> ps3_copymodules(addr, fs) [] OTHER -> md_copymodules(addr, fs)

-----------------------------------------------------------------------------
Md(type, size, data) == [type |-> type, size |-> size, data |-> data, nocopy |-> FALSE]
file_addmetadata(fp, md) == [fp EXCEPT !.md = <<md>> \o @]
\* The first record of a type gets another value: file_findmetadata and bcopy.
SetMetadata(fp, type, data) ==
    LET i == CHOOSE i \in DOMAIN fp.md : fp.md[i].type = type /\ \A j \in 1 .. i - 1 : fp.md[j].type # type
    IN  [fp EXCEPT !.md[i].data = data]
HasMetadata(fp, type) == \E i \in DOMAIN fp.md : fp.md[i].type = type
Kernel == CHOOSE k \in DOMAIN files : files[k].type = "elf kernel"
LastAddr == LET ends == {files[i].addr + files[i].size : i \in DOMAIN files} IN CHOOSE e \in ends : \A f \in ends : f <= e

\* Records for the kernel file, in the order in which they are added.
Extra(howto, envp) ==
    <<Md("HOWTO", 4, howto), Md("ENVP", AddrSize, envp)>> \o
    (IF hplat = "uboot" THEN <<Md("DTBP", 4, 500)>> ELSE <<>>) \o <<Md("KERNEND", AddrSize, 0)>> \o
    (CASE hplat \in {"i386/32", "i386/64", "userboot/64"} -> <<Md("SMAP", 20, "smap")>>
       [] hplat = "sparc64" -> <<Md("DTLB_SLOTS", 4, 1), Md("ITLB_SLOTS", 4, 1), Md("DTLB", 16, "dtlb"), Md("ITLB", 16, "itlb")>>
       [] OTHER -> <<>>)
\* U-Boot's addresses are moved to where the kernel sees them.
Relocated(fp) == FoldLeft(LAMBDA f, type : IF HasMetadata(f, type)
                              THEN SetMetadata(f, type, f.md[CHOOSE i \in DOMAIN f.md : f.md[i].type = type /\ \A j \in 1 .. i - 1 : f.md[j].type # type].data - relocation_offset) ELSE f,
                          fp, <<"SSYM", "ESYM", "KERNEND", "ENVP", "DTBP">>)
Moved(fs) == IF hplat = "uboot" THEN [fs EXCEPT ![Kernel] = Relocated(@)] ELSE fs
Handed(howto, envp, modulep, kernend, env, mods) ==
    [howto |-> howto, envp |-> envp, modulep |-> modulep, kernend |-> kernend, writes |-> env.writes \o mods.writes]

\* bi_load32, bi_load64, md_load, md_load_dual: the environment, then the records.  Their size is
\* counted first, for the end of it all is among them.
\* Mutant of Loaded: the size is counted before the last records are there.
LoadedEarly(howto) ==
    \E envp \in {roundup(LastAddr, PAGE)} : \E env \in {bi_copyenv(envp)} : \E addr \in {roundup(env.addr, PAGE)} :
    \E kernend \in {roundup(addr + copymodules(0, files).addr, PAGE)} :
    \E full \in {[files EXCEPT ![Kernel] = SetMetadata(FoldLeft(file_addmetadata, @, Extra(howto, envp)), "KERNEND", kernend)]} :
        /\ files' = Moved(full)
        /\ image' = Handed(howto, envp, addr - relocation_offset, kernend, env, copymodules(addr, Moved(full)))
Loaded(howto) ==
    \E envp \in {roundup(LastAddr, PAGE)} : \E env \in {bi_copyenv(envp)} : \E addr \in {roundup(env.addr, PAGE)} :
    \E with \in {[files EXCEPT ![Kernel] = FoldLeft(file_addmetadata, @, Extra(howto, envp))]} :
    \E kernend \in {roundup(addr + copymodules(0, with).addr, PAGE)} :
    \E full \in {[with EXCEPT ![Kernel] = SetMetadata(@, "KERNEND", kernend)]} :
        /\ files' = Moved(full)
        /\ image' = Handed(howto, envp, addr - relocation_offset, kernend, env, copymodules(addr, Moved(full)))
bi_load32(args) == Loaded(boothowto(args))
bi_load64(args) == Loaded(boothowto(args))
userboot_load32(args) == Loaded(boothowto(args))
userboot_load64(args) == Loaded(boothowto(args))
md_load(args) == Loaded(boothowto(args))
sparc64_load(args) == Loaded(boothowto(args))
md_load_dual(args) == Loaded(boothowto(args))
ps3_load_dual(args) == Loaded(boothowto(args))
\* ia64_bootinfo and bi_load of efi: the records come first, a bootinfo structure holds the addresses.
\* ia64 copies the map of the memory and that structure behind them.
Behind(m) == Copyin([Copyin([m EXCEPT !.addr = roundup(@, 16)], "memmap", 40) EXCEPT !.addr = roundup(@, 16)], "bootinfo", 12)
Bootinfo(howto, Rest(_)) ==
    \E modulep \in {roundup(LastAddr, 16)} : \E mods \in {copymodules(modulep, files)} :
    \E envp \in {roundup(mods.addr, 16)} : \E env \in {bi_copyenv(envp)} : \E all \in {Rest(env)} :
        image' = Handed(howto, envp, modulep, all.addr, all, mods) /\ UNCHANGED files
ia64_bootinfo(args) == Bootinfo(boothowto(args), Behind)
efi_load(args) == Bootinfo(boothowto(args), LAMBDA m : [m EXCEPT !.addr = roundup(@, PAGE)])

NoImage == [howto |-> {}, envp |-> 0, modulep |-> 0, kernend |-> 0, writes |-> <<>>]
\* The boot command; a CPU without long mode and an unknown root device come back before anything is done.
bi_load(args, able) ==
    /\ image = NoImage
    /\ \/ ~able /\ hplat \in {"i386/32", "i386/64"} /\ UNCHANGED <<files, image>>
       \/ /\ able
          /\ CASE hplat = "ia64" -> ia64_bootinfo(args) [] hplat = "efi" -> efi_load(args)
               [] hplat = "i386/32" -> bi_load32(args) [] hplat = "i386/64" -> bi_load64(args)
               [] hplat = "userboot/32" -> userboot_load32(args) [] hplat = "userboot/64" -> userboot_load64(args)
               [] hplat \in {"powerpc/32", "powerpc/64"} -> md_load_dual(args) [] hplat \in {"ps3/32", "ps3/64"} -> ps3_load_dual(args)
               [] hplat = "sparc64" -> sparc64_load(args) [] OTHER -> md_load(args)
    /\ UNCHANGED <<hplat, environ>>

HandOverInit == /\ hplat \in {"i386/32", "i386/64", "userboot/32", "userboot/64", "uboot", "powerpc/32", "powerpc/64", "ps3/32", "ps3/64", "sparc64", "ia64", "efi"}
                /\ files \in Kernels /\ image = NoImage
                /\ \E env \in Environments, howto \in {{}, {"SINGLE"}, {"SERIAL", "VERBOSE"}} : environ = bi_setboothowto(howto, env)
HandOverNext == \E args \in ArgStrings, able \in BOOLEAN : bi_load(args, able)

-----------------------------------------------------------------------------
(* The kernel's walk (preload_search_info): a tag, a size, and the value    *)
(* padded to a word.  A value is whole when every byte of it is in its place. *)
Cells == {image.writes[i] : i \in DOMAIN image.writes}
CellAt(a) == CHOOSE w \in Cells : w.at = a
HasCell(a) == \E w \in Cells : w.at = a /\ w.len > 0
Whole(a, len) == \A w \in Cells : w.at \in a .. a + len - 1 => w.from = w.at - a
\* What is expected of a value: ia64 repeats its head behind every edge of a page (copy.c:149-158).
Torn(a, len) == hplat = "ia64" /\ Pages(a, len) > 1
RECURSIVE Walk(_, _, _)
Walk(a, word, n) == IF n = 0 \/ ~HasCell(a) THEN <<"lost">>
                    ELSE LET tag == CellAt(a).what  len == CellAt(a + 4).what
                         IN  IF tag = "END" THEN <<>>
                             ELSE IF ~HasCell(a + 8) \/ Whole(a + 8, len) = Torn(a + 8, len) THEN <<"lost">>
                             ELSE <<<<tag, CellAt(a + 8).what>>>> \o Walk(a + 8 + roundup(len, word), word, n - 1)
Expected(fp) == <<<<"NAME", fp.name>>, <<"TYPE", fp.type>>>> \o (IF fp.args = "NULL" THEN <<>> ELSE <<<<"ARGS", fp.args>>>>)
                \o <<<<"ADDR", fp.addr - relocation_offset>>, <<"SIZE", fp.size>>>> \o [i \in DOMAIN Copied(fp) |-> <<Copied(fp)[i].type, Copied(fp)[i].data>>]
RECURSIVE ExpectedAll(_)
ExpectedAll(fs) == IF fs = <<>> THEN <<>> ELSE Expected(fs[1]) \o ExpectedAll(Tail(fs))
Booted == image # NoImage
\* Walking the records as the kernel does gives the files in order, each with its metadata: the MOD_
\* macros of every platform pad to the word of the kernel that is booted.  Two exceptions: the records
\* that userboot makes for a 32-bit kernel are found only by who pads as the host does
\* (userboot/bootinfo32.c:69), and of a value across a page ia64 leaves only the first piece right.
WalkRight == Booted => Walk(image.modulep + relocation_offset, IF hplat = "userboot/32" THEN PADWORD ELSE WORD, 60) = ExpectedAll(files)
\* The environment behind it is the variables that were set, in their order, each whole on every
\* platform but ia64, where a variable across a page is torn likewise.
RECURSIVE Variables(_, _)
Variables(a, env) ==
    IF env = <<>> THEN HasCell(a) /\ CellAt(a).what = ""
    ELSE LET v == env[1]
             n == StrLen[v.name]
             l == IF v.value = "NULL" THEN 0 ELSE StrLen[v.value]
             Is(b, len, what) == HasCell(b) /\ CellAt(b).what = what /\ Whole(b, len) # Torn(b, len)
         IN  /\ Is(a, n, v.name) /\ Is(a + n, 1, "=") /\ (l > 0 => Is(a + n + 1, l, v.value))
             /\ Is(a + n + 1 + l, 1, "") /\ Variables(a + n + 2 + l, Tail(env))
EnvRight == Booted => Variables(image.envp, environ)
\* The kernel finds how to boot, its environment and the end of it all; a file's own records are not lost.
FindsRight == Booted /\ hplat \notin {"ia64", "efi"} =>
    LET md == files[Kernel].md
        First(t) == md[CHOOSE i \in DOMAIN md : md[i].type = t /\ \A j \in 1 .. i - 1 : md[j].type # t].data
    IN  First("HOWTO") = image.howto /\ First("ENVP") + relocation_offset = image.envp /\ First("KERNEND") + relocation_offset = image.kernend
\* No copy overwrites another, a file, or what lies beyond the end that is handed over.
Disjoint == Booted =>
    /\ \A i \in DOMAIN image.writes : image.writes[i].at >= LastAddr /\ image.writes[i].at + image.writes[i].len <= image.kernend
    /\ \A i, j \in DOMAIN image.writes : i < j => image.writes[i].at + image.writes[i].len <= image.writes[j].at
           \/ image.writes[j].at + image.writes[j].len <= image.writes[i].at
HandOverSafe == WalkRight /\ EnvRight /\ FindsRight /\ Disjoint
=============================================================================
