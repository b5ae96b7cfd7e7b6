-------------------------------- MODULE Elf --------------------------------
(***************************************************************************)
(* Loading of ELF files into memory: load_elf.c (kernels and modules with      *)
(* program headers), load_elf_obj.c (relocatable modules) and reloc_elf.c,       *)
(* with the search for the records of a module's dependencies and versions in     *)
(* what has been loaded.  Memory and files are cells; a header, a symbol, a         *)
(* relocation, a string and an address take one each.                                *)
(***************************************************************************)
EXTENDS Naturals, Integers, Sequences, FiniteSets, SequencesExt

CONSTANTS
    ElfFiles,       \* files with program headers
    ObjFiles,       \* relocatable files
    ElfDest,        \* where the next module goes
    ElfPage,        \* PAGE_SIZE
    HIGHMEM,        \* kernels are linked at a multiple of this
    MAXADDR         \* memory is 0 .. MAXADDR

VARIABLES efile, earch, efault, out
elfvars == <<efile, earch, efault, out>>

LONG == 2           \* sizeof(long), in cells
N(v) == [k |-> "n", v |-> v]
Junk == [k |-> "junk"]
Up(x, y) == IF y <= 1 THEN x ELSE ((x + y - 1) \div y) * y
Val(c) == IF c.k = "n" THEN c.v ELSE 0
\* copyin, kern_pread and kern_bzero on a memory
Store(mem, a, cells) == [x \in DOMAIN mem |-> IF x >= a /\ x < a + Len(cells) THEN cells[x - a + 1] ELSE mem[x]]
kern_bzero(mem, a, n) == [x \in DOMAIN mem |-> IF x >= a /\ x < a + n THEN N(0) ELSE mem[x]]
kern_pread(mem, f, a, n, o) == Store(mem, a, SubSeq(f.data, o + 1, o + n))
COPYOUT(mem, a) == IF a \in DOMAIN mem THEN mem[a] ELSE Junk
Loads(f) == SelectSeq(f.ph, LAMBDA p : p.type = "LOAD")

-----------------------------------------------------------------------------
(* reloc_elf.c: one relocation applied to vals, a copy of the memory at p. *)
Reloc(r, relbase, p, vals, syms) ==
    LET at == relbase + r.off - p + 1
        addend == IF r.rela THEN r.add ELSE Val(vals[at])
        ok(v) == [err |-> "0", vals |-> [vals EXCEPT ![at] = N(v)]]
        bad(e) == [err |-> e, vals |-> vals]
    IN  CASE earch \in {"powerpc", "arm", "ia64"} -> bad("EOPNOTSUPP")
          [] earch = "sparc64" -> IF ~r.rela \/ at \notin DOMAIN vals THEN bad("0") ELSE IF r.type = "RELATIVE" THEN ok(relbase + r.add) ELSE bad("EFTYPE")
          [] OTHER -> IF at \notin DOMAIN vals THEN bad("0")
                      ELSE IF r.type = "RELATIVE" THEN ok(addend + relbase)
                      ELSE IF r.type # "ABS" THEN bad("EFTYPE")
                      ELSE IF syms[r.sym] = 0 THEN bad("ESRCH") ELSE ok(syms[r.sym] + addend)
Relocs(rels, relbase, p, vals, syms) ==
    FoldLeft(LAMBDA s, r : IF s.err # "0" THEN s ELSE Reloc(r, relbase, p, s.vals, syms), [err |-> "0", vals |-> vals], rels)
\* The relocations of load_elf.c cannot name symbols, and those of a kernel were done by the linker.
symaddr == [i \in 0 .. 9 |-> 0]
reloc_ptr(ef, p, vals) == IF ef.kernel THEN [err |-> "EOPNOTSUPP", vals |-> vals] ELSE Relocs(ef.rels, ef.off, p, vals, symaddr)
\* Without relocation the loader's own offset is added.
Adjusted(ef, r, which) == IF r.err = "EOPNOTSUPP" THEN [err |-> "0", vals |-> [i \in DOMAIN r.vals |-> IF i \in which THEN N(Val(r.vals[i]) + ef.off) ELSE r.vals[i]]] ELSE r

-----------------------------------------------------------------------------
(* The records of a module: pointers to (type, name, data). *)
Read3(mem, a) == <<COPYOUT(mem, a), COPYOUT(mem, a + 1), COPYOUT(mem, a + 2)>>
Record9(mem, md) == [type |-> md[1].v, name |-> COPYOUT(mem, Val(md[2])), data |-> COPYOUT(mem, Val(md[3]))]
parse_modmetadata(mem, ef, p, stop) ==
    LET one(s, i) ==
          IF s.err # "0" THEN s
          ELSE LET ptr == Adjusted(ef, reloc_ptr(ef, p + i, <<COPYOUT(mem, p + i)>>), {1})
                   v == Val(ptr.vals[1])
                   md == Adjusted(ef, reloc_ptr(ef, v, Read3(mem, v)), {2, 3})
               IN  IF ptr.err # "0" THEN [s EXCEPT !.err = ptr.err]
                   ELSE IF md.err # "0" THEN [s EXCEPT !.err = md.err]
                   ELSE IF md.vals[1].k # "type" THEN s
                   \* the dependencies of a kernel are those of modules compiled into it
                   ELSE IF ef.kernel /\ md.vals[1].v = "DEPEND" THEN s
                   ELSE [s EXCEPT !.recs = Append(@, Record9(mem, md.vals))]
        r == FoldLeft(one, [err |-> "0", recs |-> <<>>], [i \in 1 .. stop - p |-> i - 1])
    \* a module without a version gets the name of its file
    IN  IF r.err = "0" /\ ~\E i \in DOMAIN r.recs : r.recs[i].type = "VERSION" THEN [r EXCEPT !.recs = Append(@, [type |-> "VERSION", name |-> [k |-> "fake"], data |-> N(1)])] ELSE r
\* The chain of a bucket; a number that is too large or a symbol without a name ends the search.
lookup_symbol(mem, ef, name) ==
    LET chain == ef.hashtab + 2 + ef.nbuckets
        start == Val(COPYOUT(mem, ef.hashtab + 2 + (ef.hash[name] % ef.nbuckets)))
        step(s, i) == IF s.n = 0 \/ s.found # Junk THEN s
                      ELSE LET sym == COPYOUT(mem, ef.symtab + s.n) IN
                           IF s.n >= ef.nchains \/ sym.k # "sym" THEN [s EXCEPT !.n = 0]
                           ELSE IF sym.name = name THEN [n |-> 0, found |-> IF sym.defined THEN sym ELSE Junk]
                           ELSE [s EXCEPT !.n = Val(COPYOUT(mem, chain + s.n))]
    IN  FoldLeft(step, [n |-> start, found |-> Junk], [i \in 1 .. 5 |-> i]).found

-----------------------------------------------------------------------------
(* load_elf.c *)
\* Kernels are linked high: the high part of the address is taken off, powerpc moves them to 16 MB.
Offset(f, dest) ==
    IF f.type # "EXEC" THEN dest
    ELSE LET high == (dest \div HIGHMEM) * HIGHMEM IN
         CASE earch \in {"i386", "amd64"} -> -high
           [] earch = "powerpc" -> IF high # 0 THEN ElfPage - high ELSE 0
           [] earch = "arm" -> -high
           [] OTHER -> 0
firstlen(f) == IF Len(f.data) < ElfPage THEN Len(f.data) ELSE ElfPage
\* The first page has been read: what it holds of the segment, and all behind it, is copied from it.
Segment(mem, f, p, off) ==
    LET fpcopy == IF firstlen(f) > p.offset THEN firstlen(f) - p.offset ELSE 0
        m1 == Store(mem, p.vaddr + off, SubSeq(f.data, p.offset + 1, p.offset + fpcopy))
        m2 == IF p.filesz > fpcopy THEN kern_pread(m1, f, p.vaddr + off + fpcopy, p.filesz - fpcopy, p.offset + fpcopy) ELSE m1
    IN  IF p.filesz < p.memsz THEN kern_bzero(m2, p.vaddr + off + p.filesz, p.memsz - p.filesz) ELSE m2
\* The last symbol table that no segment holds, and its strings.
SymTab(f) == {i \in DOMAIN f.sh : /\ f.sh[i].type = "SYMTAB" /\ f.sh[i].offset # 0 /\ f.sh[i].size # 0
                                  /\ ~\E j \in DOMAIN f.ph : f.ph[j].type = "LOAD" /\ f.sh[i].offset >= f.ph[j].offset /\ f.sh[i].offset + f.sh[i].size <= f.ph[j].offset + f.ph[j].filesz}
\* Each table is preceded by its size and rounded up.
Table(s, f, i) == LET a == s.last + LONG IN
                  [mem |-> kern_pread(Store(s.mem, s.last, <<N(f.sh[i].size)>>), f, a, f.sh[i].size, f.sh[i].offset), last |-> Up(a + f.sh[i].size, LONG)]
\* Mutant of Symbols: a table that cannot be read is skipped, its room is not.
SymbolsLeft(s, f) ==
    IF efault = "shdr" \/ SymTab(f) = {} THEN s
    ELSE LET i == CHOOSE i \in SymTab(f) : \A j \in SymTab(f) : j <= i
             t == Table(Table(s, f, i), f, f.sh[i].link)
         IN  IF efault \in {"sym", "str"} THEN [s EXCEPT !.mem = t.mem, !.last = t.last, !.ssym = s.last] ELSE [s EXCEPT !.mem = t.mem, !.last = t.last, !.ssym = s.last, !.esym = t.last]
Symbols(s, f) ==
    IF efault = "shdr" \/ SymTab(f) = {} THEN s
    ELSE LET i == CHOOSE i \in SymTab(f) : \A j \in SymTab(f) : j <= i
             t == Table(Table(s, f, i), f, f.sh[i].link)
         IN  IF efault \in {"sym", "str"} THEN s ELSE [s EXCEPT !.mem = t.mem, !.last = t.last, !.ssym = s.last, !.esym = t.last]
\* The tags of the dynamic section; without hash table, symbols or strings there is nothing to look up.
Dynamic(mem, f, off) ==
    LET dyn == SelectSeq(f.ph, LAMBDA p : p.type = "DYNAMIC")
        cells == IF dyn = <<>> THEN <<>> ELSE [i \in 1 .. dyn[1].filesz |-> COPYOUT(mem, dyn[1].vaddr + off + i - 1)]
        upto == {i \in DOMAIN cells : \A j \in 1 .. i : cells[j].k = "dyn" /\ cells[j].tag # "NULL"}
        tag(t) == {cells[i].v : i \in {i \in upto : cells[i].tag = t}}
        one(t, d) == IF tag(t) = {} THEN d ELSE CHOOSE x \in tag(t) : TRUE
        relat == one("REL", 0) + off
    IN  IF tag("HASH") = {} \/ tag("SYMTAB") = {} \/ tag("STRTAB") = {} \/ one("STRSZ", 0) = 0 THEN [ok |-> FALSE]
        ELSE LET h == one("HASH", 0) + off IN
             [ok |-> TRUE, kernel |-> f.type = "EXEC", off |-> off, hashtab |-> h, symtab |-> one("SYMTAB", 0) + off, hash |-> f.hash,
              nbuckets |-> Val(COPYOUT(mem, h)), nchains |-> Val(COPYOUT(mem, h + 1)), rels |-> [i \in 1 .. one("RELSZ", 0) |-> COPYOUT(mem, relat + i - 1)]]
loadimage(f, dest) ==
    LET off == Offset(f, dest)
        mem0 == [a \in 0 .. MAXADDR |-> Junk]
        segs == FoldLeft(LAMBDA m, p : Segment(m, f, p, off), mem0, Loads(f))
        first == CHOOSE a \in {p.vaddr + off : p \in Range(Loads(f))} : \A p \in Range(Loads(f)) : a <= p.vaddr + off
        last == CHOOSE a \in {p.vaddr + p.memsz + off : p \in Range(Loads(f))} : \A p \in Range(Loads(f)) : a >= p.vaddr + p.memsz + off
        NoRecords == [err |-> "ENOENT", recs |-> <<>>]
        Between(mem, ef, start, stop) == IF start = Junk \/ stop = Junk THEN NoRecords ELSE parse_modmetadata(mem, ef, start.value + off, stop.value + off)
        Records(mem, ef) == IF ~ef.ok THEN NoRecords ELSE Between(mem, ef, lookup_symbol(mem, ef, "start"), lookup_symbol(mem, ef, "stop"))
        \* an error among the records is not heard of
        With(s, recs) == [size |-> s.last - first, addr |-> first, mem |-> s.mem, off |-> off, ssym |-> s.ssym, esym |-> s.esym, recs |-> recs.recs, err |-> recs.err]
        Symbolic(s) == With(s, Records(s.mem, Dynamic(s.mem, f, off)))
    IN  IF f.phend > firstlen(f) \/ efault = "seg" THEN [size |-> 0]
        ELSE Symbolic(Symbols([mem |-> segs, last |-> Up(last, LONG), ssym |-> 0, esym |-> 0], f))

-----------------------------------------------------------------------------
(* load_elf_obj.c *)
Place(s, i, f) == LET a == Up(s.last, f.sh[i].align) IN [s EXCEPT !.addr[i] = a, !.last = a + f.sh[i].size]
All(f) == [i \in DOMAIN f.sh |-> i]
\* What is loaded, in the order of addresses: program sections, symbols, strings, names, relocations.
\* The symbol table is given an address twice, the second one counts.
Layout(f, dest) ==
    LET s1 == FoldLeft(LAMBDA s, i : IF f.sh[i].type \in {"PROGBITS", "NOBITS"} /\ f.sh[i].size # 0 THEN Place(s, i, f) ELSE s,
                       [addr |-> [i \in DOMAIN f.sh |-> 0], last |-> dest], All(f))
        tabs == {i \in DOMAIN f.sh : f.sh[i].type = "SYMTAB"}
        t == CHOOSE i \in tabs : TRUE
        s2 == Place([s1 EXCEPT !.last = @ + f.sh[t].size], t, f)
        str == f.sh[t].link
        s3 == Place(s2, str, f)
        s4 == Place(s3, f.shstrndx, f)
        s5 == FoldLeft(LAMBDA s, i : IF f.sh[i].type \in {"REL", "RELA"} THEN Place(s, i, f) ELSE s, s4, All(f))
    IN  IF Cardinality(tabs) # 1 \/ str \notin DOMAIN f.sh \/ f.shstrndx \notin DOMAIN f.sh THEN [ok |-> FALSE]
        ELSE IF f.sh[str].type # "STRTAB" \/ f.sh[f.shstrndx].type # "STRTAB" THEN [ok |-> FALSE]
        ELSE [ok |-> TRUE, addr |-> s5.addr, last |-> s5.last, symtab |-> t]
\* The file is read forwards: always the section with the next larger offset, of equal ones the first.
InOrder(f, addr) ==
    LET want(o) == {i \in DOMAIN f.sh : addr[i] # 0 /\ f.sh[i].type # "NOBITS" /\ f.sh[i].offset = o}
        offs == SelectSeq([o \in DOMAIN f.data |-> o - 1], LAMBDA o : want(o) # {})
    IN  [n \in DOMAIN offs |-> CHOOSE i \in want(offs[n]) : \A j \in want(offs[n]) : i <= j]
obj_symaddr(mem, f, l) ==
    [i \in 0 .. 9 |-> IF i >= f.sh[l.symtab].size THEN 0
                      ELSE LET s == COPYOUT(mem, l.addr[l.symtab] + i) IN IF s.k # "sym" \/ s.shndx \notin DOMAIN f.sh THEN 0 ELSE IF l.addr[s.shndx] = 0 THEN 0 ELSE l.addr[s.shndx] + s.value]
\* Every relocation section that is about the section the cells lie in.
obj_reloc_ptr(mem, f, l, p, vals) ==
    FoldLeft(LAMBDA s, i : LET info == f.sh[i].info base == IF info \in DOMAIN f.sh THEN l.addr[info] ELSE 0 IN
                           IF s.err # "0" \/ f.sh[i].type \notin {"REL", "RELA"} \/ base = 0 \/ l.addr[i] = 0 THEN s
                           ELSE IF p < base \/ p + Len(vals) > base + f.sh[info].size THEN s
                           ELSE Relocs([k \in 1 .. f.sh[i].size |-> COPYOUT(mem, l.addr[i] + k - 1)], base, p, s.vals, obj_symaddr(mem, f, l)),
             [err |-> "0", vals |-> vals], All(f))
obj_lookup_set(f) == {i \in DOMAIN f.sh : f.sh[i].type = "PROGBITS" /\ f.sh[i].name = "set_modmetadata_set"}
obj_parse_modmetadata(mem, f, l) ==
    LET set == CHOOSE i \in obj_lookup_set(f) : \A j \in obj_lookup_set(f) : i <= j
        one(s, k) ==
          IF s.err # "0" THEN s
          ELSE LET p == l.addr[set] + k
                   ptr == obj_reloc_ptr(mem, f, l, p, <<COPYOUT(mem, p)>>)
                   v == Val(ptr.vals[1])
                   md == obj_reloc_ptr(mem, f, l, v, Read3(mem, v))
               IN  IF ptr.err # "0" THEN [s EXCEPT !.err = ptr.err]
                   ELSE IF md.err # "0" THEN [s EXCEPT !.err = md.err]
                   ELSE IF md.vals[1].k # "type" THEN s ELSE [s EXCEPT !.recs = Append(@, Record9(mem, md.vals))]
    IN  IF obj_lookup_set(f) = {} THEN [err |-> "ENOENT", recs |-> <<>>]
        ELSE FoldLeft(one, [err |-> "0", recs |-> <<>>], [k \in 1 .. f.sh[set].size |-> k - 1])
obj_loadimage(f, dest) ==
    LET Zeroed(l) == kern_bzero([a \in 0 .. MAXADDR |-> Junk], dest, l.last - dest)
        Sections(l) == FoldLeft(LAMBDA m, i : kern_pread(m, f, l.addr[i], f.sh[i].size, f.sh[i].offset), Zeroed(l), InOrder(f, l.addr))
        With(l, m, r) == IF r.err # "0" THEN [size |-> 0, err |-> r.err]
                         ELSE [size |-> l.last - dest, addr |-> dest, mem |-> m, recs |-> r.recs, err |-> "0", sec |-> l.addr]
        Filled(l, m) == With(l, m, obj_parse_modmetadata(m, f, l))
        Placed(l) == IF ~l.ok \/ efault = "seg" THEN [size |-> 0] ELSE Filled(l, Sections(l))
    IN  IF efault = "shdr" THEN [size |-> 0] ELSE Placed(Layout(f, dest))

-----------------------------------------------------------------------------
\* The formats are tried in turn: each refuses what is not for it.
loadfile(f) ==
    IF f.type \in {"EXEC", "DYN"}
    THEN loadimage(f, IF f.type = "EXEC" THEN f.entry - (f.entry % ElfPage) ELSE Up(ElfDest, ElfPage))
    ELSE obj_loadimage(f, Up(ElfDest, ElfPage))
ElfInit == /\ efile \in ElfFiles \union ObjFiles /\ earch \in efile.archs      \* a linker writes the kind of relocation its machine has
           /\ efault \in {"none", "seg", "shdr", "sym", "str"} /\ out = [size |-> -1]
Load9 == out.size = -1 /\ out' = loadfile(efile) /\ UNCHANGED <<efile, earch, efault>>
ElfNext == Load9

-----------------------------------------------------------------------------
(* Properties *)
Loaded9 == out.size > 0
Inside(a, n) == a >= out.addr /\ a + n <= out.addr + out.size
\* Every segment is in memory as in the file, with zeros behind it, within what is recorded as the file's.
SegmentsRight == Loaded9 /\ efile.type # "REL" => \A p \in Range(Loads(efile)) :
    /\ Inside(p.vaddr + out.off, p.memsz)
    /\ \A i \in 0 .. p.memsz - 1 : out.mem[p.vaddr + out.off + i] = (IF i < p.filesz THEN efile.data[p.offset + i + 1] ELSE N(0))
\* The symbols the kernel is told of are the tables with their sizes; a failed read tells of none.
SymbolsRight == Loaded9 /\ efile.type # "REL" =>
    IF out.ssym = 0 THEN out.esym = 0
    ELSE LET t == CHOOSE i \in SymTab(efile) : \A j \in SymTab(efile) : j <= i
             s == efile.sh[t] str == efile.sh[s.link]
             b == Up(out.ssym + LONG + s.size, LONG)
         IN  /\ Inside(out.ssym, out.esym - out.ssym) /\ out.esym = Up(b + LONG + str.size, LONG)
             /\ out.mem[out.ssym] = N(s.size) /\ \A i \in 1 .. s.size : out.mem[out.ssym + LONG + i - 1] = efile.data[s.offset + i]
             /\ out.mem[b] = N(str.size) /\ \A i \in 1 .. str.size : out.mem[b + LONG + i - 1] = efile.data[str.offset + i]
\* Sections lie apart from each other, aligned, and hold what the file holds.
SectionsRight == Loaded9 /\ efile.type = "REL" =>
    LET at == {i \in DOMAIN efile.sh : out.sec[i] # 0 /\ efile.sh[i].size > 0} IN
    /\ \A i, j \in at : i # j => out.sec[i] + efile.sh[i].size <= out.sec[j] \/ out.sec[j] + efile.sh[j].size <= out.sec[i]
    /\ \A i \in at : /\ Inside(out.sec[i], efile.sh[i].size) /\ Up(out.sec[i], efile.sh[i].align) = out.sec[i]
                     /\ \A k \in 1 .. efile.sh[i].size : out.mem[out.sec[i] + k - 1] = (IF efile.sh[i].type = "NOBITS" THEN N(0) ELSE efile.data[efile.sh[i].offset + k])
\* The dependencies and versions found are those the file was built with, or none with an error.
RecordsRight == Loaded9 /\ out.err = "0" => out.recs = efile.records
\* ELF files in memory: segments, symbols and sections as in the file, nothing outside the range that is recorded, and the module's records found through relocations.
ElfSafe == SegmentsRight /\ SymbolsRight /\ SectionsRight /\ RecordsRight
=============================================================================
