------------------------------ MODULE GptBoot ------------------------------
(***************************************************************************)
(* gptboot, the second-stage boot program for GPT disks: it picks the      *)
(* partition to boot from, and records in the attributes of the partition  *)
(* table, on both copies of the table, that a one-shot boot was tried and  *)
(* whether it failed.  boot/common/gpt.c and boot/i386/gptboot/gptboot.c.  *)
(*                                                                         *)
(* The disk survives a power cycle; everything else is lost.  Each         *)
(* drvwrite() is a step of its own, so power may fail between any two of   *)
(* them, and each may fail on its own.                                     *)
(***************************************************************************)
EXTENDS Integers, FiniteSets

CONSTANTS
    N,          \* hdr_entries: entries of the partition table
    EPS,        \* entries_per_sec: table entries in one disk sector
    UFS,        \* entries whose ent_type is freebsd-ufs
    PartArgs,   \* partition numbers parse() accepts on a command line
    BadParts,   \* numbers parse() stores in dsk.part and then rejects
    Configs,    \* what reading /boot/config may give in this instance
    InitFlags,  \* attribute sets a table entry may hold initially
    MaxBoots,   \* bound: power cycles
    MaxFaults   \* bound: disk reads and writes that fail

ASSUME GptAssumption ==
    /\ N \in Nat \ {0} /\ EPS \in Nat \ {0}
    /\ UFS \subseteq 0 .. N - 1
    /\ PartArgs \subseteq 1 .. 9 /\ BadParts \subseteq Int
    /\ MaxBoots \in Nat /\ MaxFaults \in Nat

Flags == {"me", "once", "failed"}   \* GPT_ENT_ATTR_BOOTME, BOOTONCE, BOOTFAILED
Copies == {"primary", "backup"}
Ents == 0 .. N - 1

ASSUME InitFlagsAssumption == InitFlags \subseteq SUBSET Flags
ASSUME ConfigsAssumption == Configs \subseteq {"none", "bad", "options", "part"}

Tables == [Ents -> SUBSET Flags]

Sector(e) == e \div EPS             \* table sector that holds entry e
Hdr == Sector(N - 1) + 1            \* the header, written after every sector
Writes == 0 .. Hdr

VARIABLES
    disk,       \* [Copies -> table on disk, table that hdr_crc_table covers]
    mem,        \* table_primary, table_backup
    lba,        \* hdr_primary_lba > 0, hdr_backup_lba > 0
    curent, bootonce,
    part,       \* dsk.part
    start,      \* entry whose first sector is dsk.start; -1 when dsk.start is 0
    autoboot,   \* main's local
    todo,       \* sectors of each copy still to be written, lowest first
    updating,   \* the writes are gptupdate's (TRUE) or gptbootconv's
    pc,         \* where the program is
    caller      \* who called gptfind: gptinit from main, the config, the prompt; or the retry

\* History: what the properties talk about, never read by the actions.
VARIABLES
    boots, faults,          \* power cycles and failed reads and writes so far
    hit,        \* copies that lost power or a write while being written
    tried,      \* entries left for the next stage as one-shot boots
    flags0,     \* attributes gptread found, before gptbootconv
    attempted,  \* entries whose load() failed since gptread
    picked,     \* entries gptfind chose as BOOTONCE since power on
    explicit    \* a command named a partition since power on

diskVars == <<disk>>
progVars == <<mem, lba, curent, bootonce, part, start, autoboot, todo, updating, pc, caller>>
histVars == <<boots, faults, hit, tried, flags0, attempted, picked, explicit>>
vars == <<disk, progVars, histVars>>

-----------------------------------------------------------------------------
Valid(c) == disk[c].table = disk[c].crc    \* gptread_hdr and gptread_table accept the copy
Idle == \A c \in Copies : todo[c] = {}
gpttable == IF lba["primary"] THEN mem["primary"] ELSE mem["backup"]

\* gptbootconv walks hdr_entries / entries_per_sec sectors.
ConvEnd == (N \div EPS) * EPS
Converted(t) == {e \in Ents : e < ConvEnd /\ t[e] = {"once"}}
gptbootconv(t) == [e \in Ents |-> IF e \in Converted(t) THEN {"failed"} ELSE t[e]]
ConvWrites(t) == IF Converted(t) = {} THEN {}
                 ELSE {Sector(e) : e \in Converted(t)} \union {Hdr}

Init ==
    /\ \E t \in [Ents -> InitFlags] :
          disk = [c \in Copies |-> [table |-> t, crc |-> t]]
    /\ mem = [c \in Copies |-> [e \in Ents |-> {}]]
    /\ lba = [c \in Copies |-> FALSE]
    /\ curent = -1 /\ bootonce = FALSE
    /\ part = -1 /\ start = -1
    /\ autoboot = TRUE
    /\ todo = [c \in Copies |-> {}] /\ updating = FALSE
    /\ pc = "off" /\ caller = "main"
    /\ boots = 0 /\ faults = 0 /\ hit = {}
    /\ tried = {} /\ flags0 = [e \in Ents |-> {}]
    /\ attempted = {} /\ picked = {} /\ explicit = FALSE

-----------------------------------------------------------------------------
\* Where gptinit's or the retry's failure and success lead in main().
AfterFailure(who) == IF who = "main" THEN "halt" ELSE "prompt"
AfterFound(who) == CASE who \in {"main", "retry"} -> "config"
                     [] who = "config" -> "boot"
                     [] who = "prompt" -> "load"

\* gptread: both copies are read, those that check are converted.
gptread(who) ==
    /\ \E bad \in SUBSET Copies :
          /\ faults + Cardinality(bad) <= MaxFaults
          /\ faults' = faults + Cardinality(bad)
          /\ lba' = [c \in Copies |-> c \notin bad /\ Valid(c)]
    /\ mem' = [c \in Copies |-> IF lba'[c] THEN gptbootconv(disk[c].table) ELSE mem[c]]
    /\ todo' = [c \in Copies |-> IF lba'[c] THEN ConvWrites(disk[c].table) ELSE {}]
    /\ updating' = FALSE
    /\ curent' = -1 /\ bootonce' = TRUE /\ start' = -1
    /\ caller' = who
    /\ pc' = IF \E c \in Copies : lba'[c] THEN "find" ELSE AfterFailure(who)
    /\ flags0' = IF lba'["primary"] THEN disk["primary"].table ELSE disk["backup"].table
    /\ attempted' = {}

PowerOn ==
    /\ pc = "off"
    /\ boots < MaxBoots /\ boots' = boots + 1
    /\ part' = -1 /\ autoboot' = TRUE
    /\ picked' = {} /\ explicit' = FALSE
    /\ gptread("main")
    /\ UNCHANGED <<disk, hit, tried>>

\* Mutant of Found: the entry's first sector is not stored in dsk.start.
FoundKeepsStart(e) ==
    /\ curent' = e /\ part' = e + 1 /\ start' = start
    /\ pc' = AfterFound(caller)
    /\ UNCHANGED <<mem, todo, updating, picked>>

\* Mutant of Found: BOOTME of a one-shot entry is cleared in memory, never on disk.
FoundNotWritten(e) ==
    LET oneshot == "once" \in gpttable[e] IN
    /\ curent' = e /\ part' = e + 1 /\ start' = e
    /\ mem' = [c \in Copies |->
                 IF oneshot /\ lba[c] THEN [mem[c] EXCEPT ![e] = @ \ {"me"}] ELSE mem[c]]
    /\ picked' = IF oneshot THEN picked \union {e} ELSE picked
    /\ pc' = AfterFound(caller)
    /\ UNCHANGED <<todo, updating>>

\* gptfind's `found:': a one-shot entry loses BOOTME on every copy in use.
Found(e) ==
    LET oneshot == "once" \in gpttable[e] IN
    /\ curent' = e /\ part' = e + 1 /\ start' = e
    /\ mem' = [c \in Copies |->
                 IF oneshot /\ lba[c] THEN [mem[c] EXCEPT ![e] = @ \ {"me"}] ELSE mem[c]]
    /\ todo' = [c \in Copies |-> IF oneshot /\ lba[c] THEN {Sector(e), Hdr} ELSE {}]
    /\ updating' = TRUE
    /\ picked' = IF oneshot THEN picked \union {e} ELSE picked
    /\ pc' = AfterFound(caller)

NotFound ==
    /\ pc' = AfterFailure(caller)
    /\ UNCHANGED <<part, start, mem, todo, updating, picked>>

FindPart ==
    /\ UNCHANGED bootonce
    /\ IF part \in 1 .. N /\ part - 1 \in UFS
       THEN Found(part - 1)
       ELSE NotFound /\ UNCHANGED curent

Least(e, S) == \A x \in S : e <= x
OnceEnts(from) == {e \in UFS : e >= from /\ {"me", "once"} \subseteq gpttable[e]}
BootEnts(from) == {e \in UFS : e >= from /\ "me" \in gpttable[e] /\ "once" \notin gpttable[e]}

\* Mutant of FindNext: after the one-shot entries the search goes on from curent, the
\* reset `curent = 0' is missing.
FindNextNoReset ==
    LET from == curent + 1
        once == IF bootonce THEN OnceEnts(from) ELSE {}
        boot == BootEnts(from)
        first == IF curent = -1 THEN UFS ELSE {}
    IN \/ /\ from >= N
          /\ curent' = N
          /\ NotFound /\ UNCHANGED bootonce
       \/ /\ from < N
          /\ \E e \in once : Least(e, once) /\ Found(e)
          /\ UNCHANGED bootonce
       \/ /\ from < N /\ once = {}
          /\ bootonce' = FALSE
          /\ \/ \E e \in boot : Least(e, boot) /\ Found(e)
             \/ boot = {} /\ \E e \in first : Least(e, first) /\ Found(e)
             \/ boot = {} /\ first = {} /\ NotFound /\ curent' = N

\* Mutant of FindNext: the increment `curent++' is missing.
FindNextSame ==
    LET boot == BootEnts(IF curent = -1 THEN 0 ELSE curent) IN
    /\ bootonce' = FALSE
    /\ \/ \E e \in boot : Least(e, boot) /\ Found(e)
       \/ boot = {} /\ NotFound /\ curent' = N

\* Mutant of FindNext: the loops run one entry too far, `curent <= hdr_entries'.
FindNextTooFar ==
    LET boot == BootEnts(curent + 1) IN
    /\ bootonce' = FALSE
    /\ \/ \E e \in boot : Least(e, boot) /\ Found(e)
       \/ boot = {} /\ NotFound /\ curent' = N + 1

FindNext ==
    LET from == curent + 1
        once == IF bootonce THEN OnceEnts(from) ELSE {}
        boot == BootEnts(IF bootonce THEN 0 ELSE from)
        first == IF curent = -1 THEN UFS ELSE {}
    IN \/ /\ from >= N
          /\ curent' = N
          /\ NotFound /\ UNCHANGED bootonce
       \/ /\ from < N
          /\ \E e \in once : Least(e, once) /\ Found(e)
          /\ UNCHANGED bootonce
       \/ /\ from < N /\ once = {}
          /\ bootonce' = FALSE
          /\ \/ \E e \in boot : Least(e, boot) /\ Found(e)
             \/ boot = {} /\ \E e \in first : Least(e, first) /\ Found(e)
             \/ boot = {} /\ first = {} /\ NotFound /\ curent' = N

gptfind ==
    /\ pc = "find" /\ Idle
    /\ IF caller # "retry" /\ part >= 0 THEN FindPart ELSE FindNext
    /\ UNCHANGED <<disk, lba, autoboot, caller, boots, faults, hit, tried, flags0, attempted, explicit>>

-----------------------------------------------------------------------------
\* A command line that names a partition of this disk makes main() call gptinit again.
NamePart(who) ==
    /\ part' \in PartArgs
    /\ gptread(who)
    /\ explicit' = TRUE
    /\ UNCHANGED <<disk, autoboot, boots, hit, tried, picked>>

\* parse() gives up, perhaps after it has stored a number in dsk.part.
BadCommand ==
    /\ part' \in PartArgs \union BadParts \union {part}
    /\ pc' = "prompt"
    /\ UNCHANGED <<disk, mem, lba, curent, bootonce, start, autoboot, todo, updating, caller, histVars>>

\* The top of main()'s loop: the configuration file of the chosen partition.
Config ==
    /\ pc = "config" /\ Idle
    /\ \/ /\ Configs \intersect {"none", "options"} # {}
          /\ pc' = "boot"
          /\ UNCHANGED <<disk, mem, lba, curent, bootonce, part, start, autoboot, todo,
                         updating, caller, histVars>>
       \/ "bad" \in Configs /\ BadCommand
       \/ "part" \in Configs /\ NamePart("config")

\* keyhit(3): the user asks for the prompt, only before the first attempt.
KeyHit ==
    /\ pc = "boot" /\ Idle /\ autoboot
    /\ pc' = "prompt"
    /\ UNCHANGED <<disk, mem, lba, curent, bootonce, part, start, autoboot, todo,
                   updating, caller, histVars>>

\* __exec(): the next stage runs and gptboot is gone.
Exec ==
    /\ start \in UFS
    /\ pc' = "os"
    /\ tried' = IF "once" \in gpttable[start] THEN tried \union {start} ELSE tried
    /\ UNCHANGED <<disk, mem, lba, curent, bootonce, part, start, todo, updating, caller,
                   boots, faults, hit, flags0, attempted, picked, explicit>>

BootExec == pc = "boot" /\ Idle /\ autoboot' = FALSE /\ Exec

\* Mutant of gptbootfailed: only the table in use is marked, the other copy is forgotten.
gptbootfailedOneCopy ==
    LET c == IF lba["primary"] THEN "primary" ELSE "backup"
        oneshot == "once" \in gpttable[curent] IN
    /\ mem' = IF oneshot THEN [mem EXCEPT ![c][curent] = (@ \ {"once"}) \union {"failed"}] ELSE mem
    /\ todo' = IF oneshot THEN [todo EXCEPT ![c] = {Sector(curent), Hdr}] ELSE todo
    /\ updating' = TRUE

\* Mutant of gptbootfailed: the flags of the entry that failed are left as they are.
gptbootfailedNoMark == UNCHANGED <<mem, todo, updating>>

\* gptbootfailed: a one-shot entry becomes BOOTFAILED on every copy in use.
gptbootfailed ==
    LET oneshot == "once" \in gpttable[curent] IN
    /\ mem' = [c \in Copies |->
                 IF oneshot /\ lba[c]
                 THEN [mem[c] EXCEPT ![curent] = (@ \ {"once"}) \union {"failed"}]
                 ELSE mem[c]]
    /\ todo' = [c \in Copies |-> IF oneshot /\ lba[c] THEN {Sector(curent), Hdr} ELSE {}]
    /\ updating' = TRUE

\* All three load() calls return: mark the failure and look for another partition.
BootFails ==
    /\ pc = "boot" /\ Idle
    /\ autoboot' = FALSE
    /\ gptbootfailed
    /\ attempted' = attempted \union {curent}
    /\ caller' = "retry" /\ pc' = "find"
    /\ UNCHANGED <<disk, lba, curent, bootonce, part, start, boots, faults, hit, tried, flags0,
                   picked, explicit>>

\* The boot2 prompt: Enter, a command that does not parse, or a partition.
Prompt ==
    /\ pc = "prompt" /\ Idle
    /\ \/ /\ pc' = "load"
          /\ UNCHANGED <<disk, mem, lba, curent, bootonce, part, start, autoboot, todo,
                         updating, caller, histVars>>
       \/ BadCommand
       \/ NamePart("prompt")

PromptLoad ==
    /\ pc = "load" /\ Idle
    /\ \/ Exec /\ UNCHANGED autoboot
       \/ /\ pc' = "prompt"
          /\ UNCHANGED <<disk, mem, lba, curent, bootonce, part, start, autoboot, todo,
                         updating, caller, histVars>>

-----------------------------------------------------------------------------
\* drvwrite: the primary copy before the backup, table sectors before the header.
NextCopy == IF todo["primary"] # {} THEN "primary" ELSE "backup"

Written(c, w) ==
    IF w = Hdr THEN [disk[c] EXCEPT !.crc = mem[c]]
    ELSE [disk[c] EXCEPT !.table = [e \in Ents |-> IF Sector(e) = w THEN mem[c][e] ELSE @[e]]]

\* Mutant of drvwrite: the writes of the two copies are not kept apart.
drvwriteMixed(c, w) ==
    /\ Least(w, todo[c])
    /\ disk' = [disk EXCEPT ![c] = Written(c, w)]
    /\ todo' = [todo EXCEPT ![c] = @ \ {w}]
    /\ UNCHANGED <<mem, lba, curent, bootonce, part, start, autoboot, updating, pc, caller, histVars>>

drvwrite(c, w) ==
    /\ c = NextCopy /\ Least(w, todo[c])
    /\ disk' = [disk EXCEPT ![c] = Written(c, w)]
    /\ todo' = [todo EXCEPT ![c] = @ \ {w}]
    /\ UNCHANGED <<mem, lba, curent, bootonce, part, start, autoboot, updating, pc, caller, histVars>>

\* A failed write: gptupdate gives up on the copy, gptbootconv goes on.
drvwriteFails(c, w) ==
    /\ c = NextCopy /\ Least(w, todo[c])
    /\ faults < MaxFaults /\ faults' = faults + 1
    /\ hit' = hit \union {c}
    /\ todo' = [todo EXCEPT ![c] = IF updating THEN {} ELSE @ \ {w}]
    /\ UNCHANGED <<disk, mem, lba, curent, bootonce, part, start, autoboot, updating, pc, caller,
                   boots, tried, flags0, attempted, picked, explicit>>

\* Power is cut, or the machine is reset, at any moment.
PowerOff ==
    /\ pc # "off"
    /\ hit' = IF Idle THEN hit ELSE hit \union {NextCopy}
    /\ mem' = [c \in Copies |-> [e \in Ents |-> {}]]
    /\ lba' = [c \in Copies |-> FALSE]
    /\ curent' = -1 /\ bootonce' = FALSE /\ part' = -1 /\ start' = -1
    /\ autoboot' = TRUE
    /\ todo' = [c \in Copies |-> {}] /\ updating' = FALSE
    /\ pc' = "off" /\ caller' = "main"
    /\ flags0' = [e \in Ents |-> {}] /\ attempted' = {}
    /\ picked' = {} /\ explicit' = FALSE
    /\ UNCHANGED <<disk, boots, faults, tried>>

\* What main() does on its own once it runs.
Step == \/ gptfind \/ Config \/ BootExec \/ BootFails
        \/ \E c \in Copies : \E w \in todo[c] : drvwrite(c, w) \/ drvwriteFails(c, w)

Next == \/ PowerOn \/ PowerOff \/ Step
        \/ KeyHit \/ Prompt \/ PromptLoad

Spec == Init /\ [][Next]_vars
FairSpec == Spec /\ WF_vars(Step)

-----------------------------------------------------------------------------
TypeOK ==
    /\ disk \in [Copies -> [table : Tables, crc : Tables]]
    /\ mem \in [Copies -> Tables]
    /\ lba \in [Copies -> BOOLEAN]
    /\ curent \in -1 .. N /\ bootonce \in BOOLEAN
    /\ part \in Int /\ start \in Ents \union {-1}
    /\ autoboot \in BOOLEAN
    /\ todo \in [Copies -> SUBSET Writes] /\ updating \in BOOLEAN
    /\ pc \in {"off", "find", "config", "boot", "load", "prompt", "os", "halt"}
    /\ caller \in {"main", "config", "prompt", "retry"}
    /\ boots \in 0 .. MaxBoots /\ faults \in 0 .. MaxFaults
    /\ hit \subseteq Copies /\ tried \subseteq UFS
    /\ flags0 \in Tables /\ attempted \subseteq UFS /\ picked \subseteq UFS
    /\ explicit \in BOOLEAN

\* gptbootfailed() indexes the table with curent, and load() reads at dsk.start:
\* whenever main() is about to boot, both name the same freebsd-ufs entry.
CurentInTable == pc \in {"config", "boot"} => curent \in UFS /\ start = curent

\* Wherever power is cut between two drvwrite() calls, and whichever write fails, only
\* the copy being written can end up with a checksum that does not match: a copy that
\* was never hit is good, so after any one mishap gptread still finds a table.
TableSurvives ==
    \A c \in Copies \ hit : Valid(c) \/ (todo[c] # {} /\ c = NextCopy)

\* Inductive strengthening of TableSurvives: a copy that was never hit differs from its
\* table in memory only in the sectors still to be written, and its header comes last.
Synced ==
    \A c \in Copies \ hit :
        /\ todo[c] # {} => lba[c] /\ Hdr \in todo[c]
        /\ lba[c] => \A e \in Ents : Sector(e) \notin todo[c] => disk[c].table[e] = mem[c][e]
IndInv == TypeOK /\ CurentInTable /\ (pc = "off" => Idle) /\ Synced /\ TableSurvives

\* The table the running system sees: the primary copy if it checks.
View == IF Valid("primary") THEN disk["primary"].table ELSE disk["backup"].table

\* As long as no I/O fails, an entry left for the next stage as a one-shot boot is never
\* armed again, on a copy that checks, by a crash and reboot at any point.
OnceOnly ==
    faults = 0 => \A c \in Copies : Valid(c) =>
                    \A e \in tried : ~({"me", "once"} \subseteq disk[c].table[e])

\* gptread's promise to the start-up scripts: when the system runs, the only entry with
\* BOOTONCE alone is the one it was booted from.
OnceMeansBooted ==
    pc = "os" /\ faults = 0 => {e \in Ents : View[e] = {"once"}} \subseteq {start}

\* gptupdate's four writes are done for both copies: undisturbed, they stay equal.
CopiesAgree ==
    Idle /\ faults = 0 /\ hit = {} => disk["primary"] = disk["backup"]

\* A one-shot boot happens once, is known by its flag to the system it started, and is
\* recorded in both copies of the table.
OneShot == OnceOnly /\ OnceMeansBooted /\ CopiesAgree

\* When the automatic search gives up, it has tried every entry with BOOTME, unless the
\* one-shot entry was the last of the table.
FallbackComplete ==
    pc = "prompt" /\ curent = N /\ ~explicit /\ N - 1 \notin picked =>
        {e \in UFS : "me" \in flags0[e]} \subseteq attempted

\* Unless a command names a partition, gptfind never returns an entry whose load() failed.
NoRetry == [][pc = "find" /\ pc' = "config" /\ ~explicit => curent' \notin attempted]_vars

\* Unless a command names a partition (a configuration file may name itself for ever), the
\* automatic search of main() ends: the next stage runs, or the user gets the prompt.
SearchEnds == ([]~explicit) => (pc = "config" ~> pc \in {"os", "prompt", "off"})
=============================================================================
