--------------------------------- MODULE Boot ---------------------------------
(***************************************************************************)
(* Booting: boot/common/boot.c over the preloaded files of Preload, with   *)
(* the clock of boot/i386/libi386/time.c and interact() of                 *)
(* boot/common/interp.c, which runs loader.rc, then autoboot, then the     *)
(* prompt.                                                                 *)
(***************************************************************************)
EXTENDS Preload

CONSTANTS
    Bootfiles,  \* values of $bootfile: sequences of names, Empty between two ';'
    Empty,
    Delays, NO, \* values of $autoboot_delay, the word NO
    Default,    \* 10 seconds
    Day         \* 24 * 3600 seconds

ASSUME BootAssumption ==
    /\ Day \in Nat \ {0} /\ Default \in Nat
    /\ Delays \subseteq Nat \union {-1} /\ NO \notin Delays
    /\ \A b \in Bootfiles : Len(b) \in Nat

VARIABLES
    bpc,            \* where boot.c is; "command" when a command may be given
    interactive,    \* loader.rc has been run, commands come from the prompt
    bootfile, autoboot_delay,
    autoboot_tried,
    next,           \* what follows loadakernel: "named" in autoboot, "check" in command_boot
    try, timeout, when,
    bios, lasttime, \* the BIOS time of day; time()'s static
    elapsed         \* history: seconds since the countdown began, up to timeout

settings == <<interactive, bootfile, autoboot_delay, autoboot_tried>>
clock == <<timeout, when, bios, lasttime, elapsed>>
bootVars == <<bpc, settings, next, try, clock>>
loadVars == <<preloaded_files, loadaddr, kernelname, stack, faults>>

BootInit ==
    /\ Init
    /\ bpc = "command" /\ interactive = FALSE /\ bootfile \in Bootfiles
    /\ autoboot_delay \in Delays \union {NO}
    /\ autoboot_tried = FALSE /\ next = "check" /\ try = 1 /\ timeout = 0 /\ when = 0
    /\ bios \in 0 .. Day - 1 /\ lasttime = 0 /\ elapsed = 0

\* Mutant of time: a second reading in the same second counts as midnight.
timeEager == IF bios <= lasttime THEN bios + Day ELSE bios
\* Mutant of time: the BIOS reading as it is.
timeOfDay == bios
\* time(): past midnight the day's seconds are added, once.
time == IF bios < lasttime THEN bios + Day ELSE bios

-----------------------------------------------------------------------------
\* A call of mod_loadkld with an unqualified name; Fail says what follows when there is
\* no such file, bpc' where its return is awaited otherwise.
CallLoadkld(m, await, Fail) ==
    /\ moduledir_list' = Rebuilt
    /\ before' = [files |-> preloaded_files, loadaddr |-> loadaddr]
    /\ \E f \in {file_search(moduledir_list', m)} :
       \/ f \in Names /\ arg' = f /\ pc' = "load" /\ bpc' = await /\ UNCHANGED try
       \/ f = None /\ Fail /\ UNCHANGED <<arg, pc>>
    /\ UNCHANGED <<loadVars, module_path, err, cmds>>

Returned == pc = "ret" /\ stack = <<>> /\ pc' = "idle" /\ err' = FALSE
            /\ UNCHANGED <<loadVars, module_path, moduledir_list, arg, before, cmds>>

\* Mutant of loadakernel: the list is left at the first kernel that does not load.
loadakernelOnce ==
    /\ bpc = "akernel" /\ pc = "idle"
    /\ \/ /\ try = 1 /\ Len(bootfile) > 0 /\ bootfile[1] # Empty
          /\ CallLoadkld(bootfile[1], "loading", bpc' = "akernel" /\ try' = try + 1)
       \/ /\ try > 1
          /\ bpc' = next /\ UNCHANGED <<vars, try>>
    /\ UNCHANGED <<settings, next, clock>>

getbootfile(t) == IF t <= Len(bootfile) THEN bootfile[t] ELSE Empty
\* loadakernel walks getbootfile(0), getbootfile(1), ... until NULL.
loadakernel ==
    /\ bpc = "akernel" /\ pc = "idle"
    /\ \/ /\ getbootfile(try) # Empty
          /\ CallLoadkld(getbootfile(try), "loading", bpc' = "akernel" /\ try' = try + 1)
       \/ /\ getbootfile(try) = Empty
          /\ bpc' = next /\ UNCHANGED <<vars, try>>
    /\ UNCHANGED <<settings, next, clock>>

KernelLoaded ==
    /\ bpc = "loading" /\ Returned
    /\ \/ err /\ bpc' = "akernel" /\ try' = try + 1
       \/ ~err /\ bpc' = next /\ UNCHANGED try
    /\ UNCHANGED <<settings, next, clock>>

-----------------------------------------------------------------------------
\* autoboot(t, prompt), as far as the choice of a kernel.
autoboot(t) ==
    /\ autoboot_tried' = TRUE
    /\ timeout' = IF t # -1 THEN t ELSE IF autoboot_delay = NO THEN Default ELSE autoboot_delay
    /\ bpc' = IF kernelname = None THEN "akernel" ELSE "named"
    /\ next' = "named" /\ try' = 1
    /\ UNCHANGED <<vars, bootfile, autoboot_delay, when, bios, lasttime, elapsed>>

autoboot_maybe ==
    /\ bpc = "command" /\ pc = "idle" /\ ~interactive /\ interactive' = TRUE
    /\ \/ ~autoboot_tried /\ autoboot_delay # NO /\ autoboot(-1)
       \/ /\ autoboot_tried \/ autoboot_delay = NO
          /\ UNCHANGED <<vars, bpc, bootfile, autoboot_delay, autoboot_tried, next, try, clock>>

Asked == pc = "idle" /\ bpc = "command"
command_autoboot == Asked /\ cmds < MaxCmds /\ UNCHANGED interactive /\ \E t \in Delays : autoboot(t)

\* The countdown starts, or there is none, or no kernel was found.
StartCount ==
    /\ bpc = "named" /\ pc = "idle"
    /\ \/ /\ kernelname = None
          /\ bpc' = "command" /\ UNCHANGED <<when, lasttime, elapsed>>
       \/ /\ kernelname # None /\ timeout >= 0
          /\ bpc' = "count" /\ when' = time + timeout /\ lasttime' = time /\ elapsed' = 0
       \/ /\ kernelname # None /\ timeout < 0
          /\ bpc' = "boot" /\ UNCHANGED <<when, lasttime, elapsed>>
    /\ UNCHANGED <<vars, settings, next, try, timeout, bios>>

\* One turn of the loop: a key, or a look at the clock.
Key(enter) ==
    /\ bpc = "count"
    /\ bpc' = IF enter THEN "boot" ELSE "command"
    /\ UNCHANGED <<vars, settings, next, try, clock>>
Poll ==
    /\ bpc = "count"
    /\ lasttime' = time
    /\ bpc' = IF time >= when THEN "boot" ELSE "count"
    /\ UNCHANGED <<vars, settings, next, try, timeout, when, bios, elapsed>>

\* The BIOS clock.  The loop reads it many times in a second.
Tick ==
    /\ bpc = "count" => lasttime % Day = bios
    /\ bios' = (bios + 1) % Day
    /\ elapsed' = IF bpc = "count" /\ elapsed < timeout THEN elapsed + 1 ELSE elapsed
    /\ UNCHANGED <<vars, bpc, settings, next, try, timeout, when, lasttime>>

-----------------------------------------------------------------------------
\* boot <kernel>: refused when something is loaded.
BootNamed ==
    /\ Asked /\ cmds < MaxCmds /\ preloaded_files = <<>>
    /\ \E m \in Mods : CallLoadkld(m, "explicit", bpc' = "command" /\ UNCHANGED try)
    /\ UNCHANGED <<settings, next, clock>>
NamedLoaded ==
    /\ bpc = "explicit" /\ Returned
    /\ bpc' = IF err THEN "command" ELSE "boot"
    /\ UNCHANGED <<settings, next, try, clock>>

\* Mutant of command_boot: it does not look whether a kernel was found.
command_bootAnyway ==
    /\ pc = "idle"
    /\ \/ /\ bpc = "boot" \/ (Asked /\ cmds < MaxCmds)
          /\ bpc' = IF preloaded_files = <<>> THEN "akernel" ELSE "check"
          /\ next' = "check" /\ try' = 1
       \/ /\ bpc = "check"
          /\ bpc' = "exec"
          /\ UNCHANGED <<next, try>>
    /\ UNCHANGED <<vars, settings, clock>>

\* boot: load a kernel if there is none, then execute the head of the list.
command_boot ==
    /\ pc = "idle"
    /\ \/ /\ bpc = "boot" \/ (Asked /\ cmds < MaxCmds)
          /\ bpc' = IF preloaded_files = <<>> THEN "akernel" ELSE "check"
          /\ next' = "check" /\ try' = 1
       \/ /\ bpc = "check"
          /\ bpc' = IF preloaded_files = <<>> THEN "command" ELSE "exec"
          /\ UNCHANGED <<next, try>>
    /\ UNCHANGED <<vars, settings, clock>>

\* Commands of Preload at the prompt or in loader.rc; its loads go on under boot.c too.
LoaderCommand ==
    /\ bpc = "command"
    /\ mod_load \/ command_load \/ file_loadraw \/ command_unload \/ SetPath
    /\ UNCHANGED bootVars
LoadStep ==
    /\ Running \/ (bpc = "command" /\ Done)
    /\ UNCHANGED bootVars

BootStep == \/ loadakernel \/ KernelLoaded \/ autoboot_maybe \/ StartCount \/ Poll
            \/ NamedLoaded \/ command_boot
BootNext == \/ LoaderCommand \/ LoadStep \/ BootStep \/ command_autoboot \/ BootNamed \/ Tick
            \/ \E enter \in BOOLEAN : Key(enter)

BootSpec == BootInit /\ [][BootNext]_<<vars, bootVars>>
\* The loader runs its own code, and the clock goes on; nobody need press a key.
FairBoot == BootSpec /\ WF_<<vars, bootVars>>(LoadStep \/ BootStep)
                     /\ WF_<<vars, bootVars>>(Tick)

-----------------------------------------------------------------------------
BootTypeOK ==
    /\ bpc \in {"command", "akernel", "loading", "explicit", "named", "count",
                "boot", "check", "exec"}
    /\ autoboot_tried \in BOOLEAN /\ interactive \in BOOLEAN /\ next \in {"named", "check"}
    /\ try \in 1 .. Len(bootfile) + 1 /\ timeout \in Nat \union {-1} /\ when \in Nat
    /\ bios \in 0 .. Day - 1 /\ lasttime \in 0 .. 2 * Day - 1 /\ elapsed \in Nat

\* What is executed is a kernel, and every module handed to it has all it requires,
\* whichever of the commands, the boot file list and the countdown led here.
BootsKernel ==
    bpc = "exec" =>
        /\ preloaded_files # <<>> /\ preloaded_files[1].type = "kernel"
        /\ Complete

\* The countdown never runs short: without a key the system is booted only after as many
\* seconds as it was given, midnight included.
NotEarly ==
    [][bpc = "count" /\ Poll /\ bpc' = "boot" => elapsed >= timeout]_<<vars, bootVars>>

\* loadakernel gives up only when no name before an empty one leads to a kernel that fits
\* in memory (when reads do not fail).
Bootable(m) == LET f == file_search(moduledir_list, m) IN
               f # None /\ Kind[f] = "kernel" /\ KernelAddr + ReadEnd[f] < memtop
GivesUpRightly ==
    bpc \in {"named", "check"} /\ try > 1 /\ preloaded_files = <<>> /\ faults = 0 =>
        \A t \in 1 .. Len(bootfile) :
            (\A x \in 1 .. t : bootfile[x] # Empty) => ~Bootable(bootfile[t])

\* An unattended countdown whose end the clock can show comes to its end.
Unattended == bpc = "count" /\ when < 2 * Day ~> bpc # "count"
=============================================================================
