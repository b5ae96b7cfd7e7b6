------------------------------- MODULE Preload -------------------------------
(***************************************************************************)
(* The loader's list of preloaded files: boot/common/module.c, with the    *)
(* ELF loader's checks and placement from boot/common/load_elf.c.          *)
(*                                                                         *)
(* mod_loadkld and file_load_dependencies call each other; the variable    *)
(* stack holds their frames.  What is on the disk is a constant catalogue: *)
(* a name stands for a qualified path, None for a file that is not there.  *)
(***************************************************************************)
EXTENDS Integers, Sequences, FiniteSets, SequencesExt

CONSTANTS
    Names, None,        \* qualified file names, and the absent one
    Kind,               \* e_type: "kernel" (ET_EXEC), "module" (ET_DYN), "other"
    Size,               \* bytes of the image in memory (p_memsz), or of a raw file
    ReadEnd,            \* where in the image what is read from the file ends; zeroes follow
    Syms,               \* bytes of the symbol tables, which go behind the image
    Provides,           \* MDT_VERSION records of a file: a set of [mod, ver]
    Requires,           \* its MDT_DEPEND records, in the order they are walked
    Mods,               \* module names, also looked up as plain file names
    Dirs, Paths,        \* directories; the values module_path may take
    Hints,              \* per directory, linker.hints: a sequence of [mod, ver, file]
    ByName,             \* per directory and name, the file <name>[.ko] or None
    KernelAddr,         \* where a kernel is linked to
    PAGE_SIZE, Chunk, memtop,
    MaxCmds, MaxFaults  \* bounds: commands and failed reads

ASSUME CatalogueAssumption ==
    /\ Kind \in [Names -> {"kernel", "module", "other"}] /\ Size \in [Names -> Nat \ {0}]
    /\ ReadEnd \in [Names -> Nat] /\ \A f \in Names : ReadEnd[f] <= Size[f]
    /\ Syms \in [Names -> Nat]
    /\ None \notin Names /\ \A f \in Names : Len(Requires[f]) \in Nat
    /\ Paths \subseteq Seq(Dirs)
    /\ KernelAddr \in Nat \ {0} /\ PAGE_SIZE \in Nat \ {0} /\ Chunk \in Nat /\ memtop \in Nat
    /\ MaxCmds \in Nat /\ MaxFaults \in Nat

VARIABLES
    preloaded_files,    \* the list: a sequence of [name, type, addr, size]
    loadaddr,
    kernelname,         \* the environment variable, or None
    module_path,        \* the environment variable, a sequence of directories
    moduledir_list,
    pc,         \* "idle", "load": mod_loadkld is called for arg, "deps":
                \* file_load_dependencies runs for the top frame, "ret": mod_loadkld returns err
    arg, err,
    stack,      \* frames of mod_loadkld, the innermost last: [base, dep]
    before,     \* history: list and load address when the command was given
    cmds, faults

vars == <<preloaded_files, loadaddr, kernelname, module_path, moduledir_list, pc, arg, err,
          stack, before, cmds, faults>>

File == [name : Names, type : {"kernel", "module", "raw"}, addr : Nat, size : Nat]
Frame == [base : Nat \ {0}, dep : Nat \ {0}]

Init ==
    /\ preloaded_files = <<>> /\ loadaddr = 0 /\ kernelname = None
    /\ module_path \in Paths /\ moduledir_list = <<>>
    /\ pc = "idle" /\ arg = None /\ err = FALSE /\ stack = <<>>
    /\ before = [files |-> <<>>, loadaddr |-> 0]
    /\ cmds = 0 /\ faults = 0

-----------------------------------------------------------------------------
(* Searching. *)

\* The version test of file_findmodule and mod_search_hints; no verinfo takes any version.
Exact(v, verinfo) == IF verinfo = None THEN TRUE ELSE v = verinfo.pref
InRange(v, verinfo) == IF verinfo = None THEN TRUE ELSE v > 0 /\ v \in verinfo.min .. verinfo.max
Acceptable(v, verinfo) == Exact(v, verinfo) \/ InRange(v, verinfo)

file_findmodule(m, verinfo) ==
    \E k \in 1 .. Len(preloaded_files) :
        /\ preloaded_files[k].type # "raw"
        /\ \E r \in Provides[preloaded_files[k].name] : r.mod = m /\ Acceptable(r.ver, verinfo)

\* Mutant of file_findfile: only the head of the list is compared.
file_findfileHead(f) == preloaded_files # <<>> /\ preloaded_files[1].name = f
file_findfile(f) == \E k \in 1 .. Len(preloaded_files) : preloaded_files[k].name = f

\* The i-th place of K; the members of l at the places of K, in their order.
Nth(K, i) == CHOOSE k \in K : Cardinality({x \in K : x <= k}) = i
Those(l, K) == [i \in 1 .. Cardinality(K) |-> l[Nth(K, i)]]
\* moduledir_rebuild: directories that left module_path go, new ones are added at the end.
Kept == {k \in 1 .. Len(moduledir_list) : moduledir_list[k] \in Range(module_path)}
New == {k \in 1 .. Len(module_path) : /\ module_path[k] \notin Range(moduledir_list)
                                      /\ \A j \in 1 .. k - 1 : module_path[j] # module_path[k]}
Rebuilt == Those(moduledir_list, Kept) \o Those(module_path, New)

\* mod_search_hints: an exact version, else the highest in range, else the plain name.
mod_search_hints(d, m, verinfo) ==
    LET h == Hints[d]
        found == {k \in 1 .. Len(h) : h[k].mod = m /\ Exact(h[k].ver, verinfo)}
        good == {k \in 1 .. Len(h) : h[k].mod = m /\ Acceptable(h[k].ver, verinfo)}
    IN  IF found # {} THEN h[CHOOSE k \in found : \A x \in found : k <= x].file
        ELSE IF good # {}
        THEN h[CHOOSE k \in good : \A x \in good : h[k].ver > h[x].ver
                                                    \/ (h[k].ver = h[x].ver /\ k <= x)].file
        ELSE ByName[d][m]

\* The first directory of the list where the search finds something.
FirstFound(l, F(_)) ==
    LET hits == {k \in 1 .. Len(l) : F(l[k]) # None}
    IN  IF hits = {} THEN None ELSE F(l[CHOOSE k \in hits : \A x \in hits : k <= x])
mod_searchmodule(l, m, verinfo) == FirstFound(l, LAMBDA d : mod_search_hints(d, m, verinfo))
file_search(l, m) == FirstFound(l, LAMBDA d : ByName[d][m])

-----------------------------------------------------------------------------
(* Loading. *)

End(f) == f.addr + f.size
\* Mutant of roundup: the load address is used as it is.
roundupNot(a) == a
roundup(a) == ((a + PAGE_SIZE - 1) \div PAGE_SIZE) * PAGE_SIZE
Dest(f) == IF Kind[f] = "kernel" THEN KernelAddr ELSE roundup(loadaddr)

\* Mutant of Accepted: the type in the ELF header is not checked.
AcceptedAny(f) == Kind[f] = "kernel" <=> preloaded_files = <<>>
\* elf_loadfile takes a kernel first, then only modules.
Accepted(f) == \/ Kind[f] = "kernel" /\ preloaded_files = <<>>
               \/ Kind[f] = "module" /\ preloaded_files # <<>>
                  /\ preloaded_files[1].type = "kernel"

\* A kernel's MDT_DEPEND records are skipped.
\* Mutant of Deps: they are not.
DepsAll(f) == Requires[f]
Deps(f) == IF Kind[f] = "kernel" THEN <<>> ELSE Requires[f]

\* The n bytes of symbol tables that f is loaded with: all, or none when they do not fit
\* below memtop or one of their reads fails.
SymbolsLoaded(f, n) ==
    \/ n = Syms[f] /\ (n > 0 => Dest(f) + Size[f] + n < memtop) /\ UNCHANGED faults
    \/ n = 0 /\ Dest(f) + Size[f] + Syms[f] >= memtop /\ UNCHANGED faults
    \/ n = 0 /\ faults < MaxFaults /\ faults' = faults + 1

\* arch_readin refuses what reaches memtop; that arch_copyin refuses to zero the memory
\* behind what was read is never looked at by kern_bzero.
Fits(f) == Dest(f) + ReadEnd[f] < memtop

file_load(f) ==
    /\ Accepted(f) /\ Fits(f)
    /\ \E n \in {0, Syms[f]} :
          /\ SymbolsLoaded(f, n)
          /\ preloaded_files' = Append(preloaded_files,
                [name |-> f, type |-> Kind[f], addr |-> Dest(f), size |-> Size[f] + n])
          /\ loadaddr' = Dest(f) + Size[f] + n
    /\ kernelname' = IF Kind[f] = "kernel" THEN f ELSE kernelname

\* It fails on a bad header, for want of memory or when a read fails; by then a kernel's
\* name may be in the environment.
file_load_fails(f) ==
    /\ \/ ~Accepted(f) /\ UNCHANGED <<kernelname, faults>>
       \/ /\ Accepted(f)
          /\ kernelname' = IF Kind[f] = "kernel" THEN f ELSE kernelname
          /\ \/ ~Fits(f) /\ UNCHANGED faults
             \/ faults < MaxFaults /\ faults' = faults + 1
    /\ UNCHANGED <<preloaded_files, loadaddr>>

mod_loadkld ==
    /\ pc = "load"
    /\ \/ /\ file_findfile(arg)
          /\ pc' = "ret" /\ err' = FALSE
          /\ UNCHANGED <<preloaded_files, loadaddr, kernelname, faults, stack>>
       \/ /\ ~file_findfile(arg)
          /\ \/ /\ file_load_fails(arg)
                /\ pc' = "ret" /\ err' = TRUE /\ UNCHANGED stack
             \/ /\ file_load(arg)
                /\ stack' = Append(stack, [base |-> Len(preloaded_files) + 1, dep |-> 1])
                /\ pc' = "deps" /\ UNCHANGED err
    /\ arg' = None
    /\ UNCHANGED <<module_path, moduledir_list, before, cmds>>

Top == stack[Len(stack)]
Pop == SubSeq(stack, 1, Len(stack) - 1)
\* Mutant of NextDep: metadata_next is not called.
NextDepSame == stack
NextDep == [stack EXCEPT ![Len(stack)].dep = @ + 1]
Base == preloaded_files[Top.base].name
Dep == Deps(Base)[Top.dep]

\* Mutant of Discard: the load address stays where the failed files ended.
DiscardKeepsAddr ==
    /\ preloaded_files' = SubSeq(preloaded_files, 1, Top.base - 1)
    /\ UNCHANGED loadaddr
    /\ stack' = Pop /\ pc' = "ret" /\ err' = TRUE
\* Mutant of Discard: only the file itself goes, not what it pulled in.
DiscardOne ==
    /\ preloaded_files' = SubSeq(preloaded_files, 1, Top.base - 1)
                            \o SubSeq(preloaded_files, Top.base + 1, Len(preloaded_files))
    /\ loadaddr' = End(preloaded_files[Top.base - 1])
    /\ stack' = Pop /\ pc' = "ret" /\ err' = TRUE
\* The base file and everything after it go; last_file is the new end of the list.
Discard ==
    /\ preloaded_files' = SubSeq(preloaded_files, 1, Top.base - 1)
    /\ loadaddr' = End(preloaded_files[Top.base - 1])
    /\ stack' = Pop /\ pc' = "ret" /\ err' = TRUE

file_load_dependencies ==
    /\ pc = "deps"
    /\ \/ /\ Top.dep > Len(Deps(Base))
          /\ stack' = Pop /\ pc' = "ret" /\ err' = FALSE
          /\ UNCHANGED <<preloaded_files, loadaddr, moduledir_list, arg>>
       \/ /\ Top.dep <= Len(Deps(Base))
          /\ file_findmodule(Dep.mod, Dep)
          /\ stack' = NextDep
          /\ UNCHANGED <<preloaded_files, loadaddr, moduledir_list, pc, arg, err>>
       \/ /\ Top.dep <= Len(Deps(Base))
          /\ ~file_findmodule(Dep.mod, Dep)
          /\ moduledir_list' = Rebuilt
          /\ \E d \in {Dep} : \E f \in {mod_searchmodule(moduledir_list', d.mod, d)} :
             \/ /\ f \in Names
                /\ arg' = f /\ pc' = "load"
                /\ UNCHANGED <<preloaded_files, loadaddr, stack, err>>
             \/ f = None /\ Discard /\ UNCHANGED arg
    /\ UNCHANGED <<kernelname, module_path, before, cmds, faults>>

\* Mutant of DepLoaded: what was loaded is taken as it is, whatever its version.
DepLoadedUnchecked ==
    /\ pc = "ret" /\ stack # <<>>
    /\ \/ ~err /\ stack' = NextDep /\ pc' = "deps"
          /\ UNCHANGED <<preloaded_files, loadaddr, err>>
       \/ err /\ Discard
    /\ UNCHANGED <<kernelname, module_path, moduledir_list, arg, before, cmds, faults>>

\* A required module was loaded; it must have the right version.
DepLoaded ==
    /\ pc = "ret" /\ stack # <<>>
    /\ \/ /\ ~err /\ file_findmodule(Dep.mod, Dep)
          /\ stack' = NextDep /\ pc' = "deps"
          /\ UNCHANGED <<preloaded_files, loadaddr, err>>
       \/ /\ err \/ ~file_findmodule(Dep.mod, Dep)
          /\ Discard
    /\ UNCHANGED <<kernelname, module_path, moduledir_list, arg, before, cmds, faults>>

-----------------------------------------------------------------------------
(* Commands. *)

Command ==
    /\ pc = "idle" /\ cmds < MaxCmds /\ cmds' = cmds + 1
    /\ before' = [files |-> preloaded_files, loadaddr |-> loadaddr]

Done ==
    /\ pc = "ret" /\ stack = <<>>
    /\ pc' = "idle" /\ err' = FALSE
    /\ UNCHANGED <<preloaded_files, loadaddr, kernelname, module_path, moduledir_list, arg,
                   stack, before, cmds, faults>>

\* load <module>: by module name, whatever its version.
mod_load ==
    /\ Command
    /\ \E m \in Mods :
          \/ /\ file_findmodule(m, None)
             /\ pc' = "ret" /\ err' = FALSE /\ UNCHANGED <<arg, moduledir_list>>
          \/ /\ ~file_findmodule(m, None)
             /\ moduledir_list' = Rebuilt
             /\ \E f \in {mod_searchmodule(moduledir_list', m, None)} :
                \/ f = None /\ pc' = "ret" /\ err' = TRUE /\ UNCHANGED arg
                \/ f \in Names /\ arg' = f /\ pc' = "load" /\ UNCHANGED err
    /\ UNCHANGED <<preloaded_files, loadaddr, kernelname, module_path, stack, faults>>

\* load <path> or load -k <name>
command_load ==
    /\ Command
    /\ \/ /\ arg' \in Names /\ pc' = "load"
          /\ UNCHANGED <<err, moduledir_list>>
       \/ /\ moduledir_list' = Rebuilt
          /\ \E m \in Mods : \E f \in {file_search(moduledir_list', m)} :
                \/ f = None /\ pc' = "ret" /\ err' = TRUE /\ UNCHANGED arg
                \/ f \in Names /\ arg' = f /\ pc' = "load" /\ UNCHANGED err
    /\ UNCHANGED <<preloaded_files, loadaddr, kernelname, module_path, stack, faults>>

\* load -t <type> <path>: nothing is loaded before a kernel.
file_loadraw ==
    /\ Command
    /\ \E f \in Names :
          \/ /\ preloaded_files # <<>>
             /\ loadaddr + Size[f] + Chunk < memtop
             /\ preloaded_files' = Append(preloaded_files,
                    [name |-> f, type |-> "raw", addr |-> loadaddr, size |-> Size[f]])
             /\ loadaddr' = loadaddr + Size[f]
             /\ err' = FALSE /\ UNCHANGED faults
          \/ /\ \/ preloaded_files = <<>> /\ UNCHANGED faults
                \/ /\ preloaded_files # <<>>
                   /\ \/ loadaddr + Size[f] + Chunk >= memtop /\ UNCHANGED faults
                      \/ faults < MaxFaults /\ faults' = faults + 1
             /\ err' = TRUE /\ UNCHANGED <<preloaded_files, loadaddr>>
    /\ pc' = "ret"
    /\ UNCHANGED <<kernelname, module_path, moduledir_list, arg, stack>>

command_unload ==
    /\ Command
    /\ preloaded_files' = <<>> /\ loadaddr' = 0 /\ kernelname' = None /\ pc' = "ret"
    /\ UNCHANGED <<module_path, moduledir_list, arg, err, stack, faults>>

SetPath ==
    /\ Command
    /\ module_path' \in Paths \ {module_path} /\ pc' = "ret"
    /\ UNCHANGED <<preloaded_files, loadaddr, kernelname, moduledir_list, arg, err, stack, faults>>

Running == mod_loadkld \/ file_load_dependencies \/ DepLoaded
Next == \/ mod_load \/ command_load \/ file_loadraw \/ command_unload \/ SetPath
        \/ Running \/ Done

Spec == Init /\ [][Next]_vars

-----------------------------------------------------------------------------
TypeOK ==
    /\ preloaded_files \in Seq(File) /\ loadaddr \in Nat
    /\ kernelname \in Names \union {None}
    /\ pc \in {"idle", "load", "deps", "ret"} /\ arg \in Names \union {None}
    /\ err \in BOOLEAN /\ stack \in Seq(Frame)
    /\ cmds \in 0 .. MaxCmds /\ faults \in 0 .. MaxFaults

\* What was read lies below memtop.  The zeroed end of an image may not: kern_bzero does
\* not hear of it, and the file is loaded all the same.
BelowMemtop(f) ==
    IF f.type = "raw" \/ f.size > Size[f.name] THEN End(f) < memtop
    ELSE f.addr + ReadEnd[f.name] < memtop

\* Files never share memory: they are laid out in the order of the list, what was read of
\* them below memtop, and the next one goes where the last one ends, also after a load that
\* was rolled back.
Packed ==
    /\ \A k \in 1 .. Len(preloaded_files) - 1 :
          End(preloaded_files[k]) <= preloaded_files[k + 1].addr
    /\ \A k \in 1 .. Len(preloaded_files) : BelowMemtop(preloaded_files[k])
    /\ loadaddr = IF preloaded_files = <<>> THEN 0
                  ELSE End(preloaded_files[Len(preloaded_files)])

\* What the kernel's linker relies on: modules start on a page.
PageAligned ==
    \A k \in 1 .. Len(preloaded_files) :
        preloaded_files[k].type = "module" => preloaded_files[k].addr % PAGE_SIZE = 0

\* The list starts with the one kernel, so that command_boot executes a kernel and never
\* indexes file_formats with the f_loader of a raw file; and a frame for the first file
\* never has dependencies to fail, so that last_file is not NULL when the list is cut.
KernelFirst ==
    /\ \A k \in 1 .. Len(preloaded_files) : preloaded_files[k].type = "kernel" <=> k = 1
    /\ stack # <<>> /\ Top.base = 1 => Deps(Base) = <<>>

\* Between commands every loaded module has all it requires, in versions it accepts,
\* however deep, cyclic or unlucky the loads before were.
Complete ==
    pc = "idle" =>
        \A k \in 1 .. Len(preloaded_files) : preloaded_files[k].type = "module" =>
            LET d == Deps(preloaded_files[k].name) IN
            \A x \in 1 .. Len(d) : file_findmodule(d[x].mod, d[x])

\* A load command that fails, at any depth, leaves the list and the load address as it
\* found them; one that succeeds only adds to the list.
AllOrNothing ==
    pc = "ret" /\ stack = <<>> /\ preloaded_files # <<>> =>
        /\ err => before = [files |-> preloaded_files, loadaddr |-> loadaddr]
        /\ IsPrefix(before.files, preloaded_files)

\* No code file is loaded twice, whatever order dependencies arrive in.
LoadedOnce ==
    \A x, y \in 1 .. Len(preloaded_files) :
        /\ preloaded_files[x].name = preloaded_files[y].name
        /\ preloaded_files[x].type # "raw" /\ preloaded_files[y].type # "raw"
        => x = y

\* What the kernel is handed: the one kernel first, then modules and data that do not
\* overlap, each module on a page of its own and no code twice.
LaidOut == TypeOK /\ Packed /\ PageAligned /\ KernelFirst /\ LoadedOnce

\* Every command comes to an end, cyclic dependencies included.
Ends == pc # "idle" ~> pc = "idle"
=============================================================================
