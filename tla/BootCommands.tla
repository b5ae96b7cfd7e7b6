--------------------------- MODULE BootCommands ---------------------------
(***************************************************************************)
(* The prompt and the boot commands of the AT91 loaders (bootiic, bootspi:    *)
(* loader_prompt.c, env_vars.c): a line is typed, cut into words in place and  *)
(* executed; bootiic sets boot commands and writes them to the EEPROM, from     *)
(* where they are loaded and executed at the next start.  The power may go at     *)
(* any byte.  Memory is a sequence of characters, "0" the byte that ends strings.   *)
(***************************************************************************)
EXTENDS Naturals, Sequences, FiniteSets, SequencesExt

CONSTANTS
    Baked,                      \* boot commands that a loader is built with
    TypedLines,                 \* lines that may be typed, sequences of keys
    MAX_INPUT_SIZE, MAX_COMMAND_PARAMS, MAX_ENV_SIZE_BYTES, MAX_BOOT_COMMANDS,
    MaxLines91

VARIABLES
    boot_commands,              \* index |-> command
    eeprom, writing,            \* the command section; how many bytes of a write are done, or "no"
    spi91,                      \* bootspi, which loads commands its own way and sets none
    source91,                   \* "auto": executing boot commands; "user": the prompt; "end": no more input
    currentIndex, written91, last91, nlines    \* histories: the commands of the last write, if it was complete; the last line
bcvars == <<boot_commands, eeprom, writing, spi91, source91, currentIndex, written91, last91, nlines>>

Index == 0 .. MAX_BOOT_COMMANDS - 1
Empty91 == [i \in Index |-> <<>>]
NUL == "0"
p_IsWhiteSpace(c) == c \in {" ", NUL}
CharAt(b, i) == IF i \in DOMAIN b THEN b[i] ELSE NUL
RECURSIVE CString(_, _)
CString(b, i) == IF CharAt(b, i) = NUL THEN <<>> ELSE <<b[i]>> \o CString(b, i + 1)
-----------------------------------------------------------------------------
\* ServicePrompt: what the keys of a line leave in the buffer.
ServicePrompt(keys) == FoldLeft(LAMBDA b, c : IF c = "bs" THEN (IF b = <<>> THEN b ELSE Front(b)) ELSE IF Len(b) < MAX_INPUT_SIZE - 1 THEN Append(b, c) ELSE b, <<>>, keys)
\* BreakCommand: where the words begin, the white space after them made into ends of strings.
BreakCommand(b) == SelectSeq([i \in 1 .. Len(b) |-> i], LAMBDA i : ~p_IsWhiteSpace(b[i]) /\ (i = 1 \/ p_IsWhiteSpace(b[i - 1])))
Cut91(b) == [i \in DOMAIN b |-> IF p_IsWhiteSpace(b[i]) THEN NUL ELSE b[i]]
\* Mutant of RestoreSpace: the words after the fourth are not joined.
RestoreSpaceOne(b, argv, start) == [i \in DOMAIN b |-> IF start + 2 \in DOMAIN argv /\ argv[start + 2] - 1 = i THEN " " ELSE b[i]]
\* RestoreSpace: the byte before each later word is a space again, the rest of a wider gap is not.
RestoreSpace(b, argv, start) == [i \in DOMAIN b |-> IF \E k \in start + 2 .. Len(argv) : argv[k] - 1 = i THEN " " ELSE b[i]]
StringToCommand(w) == CASE w = <<"s">> -> "SET" [] w = <<"w">> -> "WRITE" [] OTHER -> "other"
p_ASCIIToHex(w) == CASE w = <<"1">> -> 1 [] w = <<"2">> -> 2 [] OTHER -> 99
SetBootCommand(index, command) == IF index \in Index THEN [boot_commands EXCEPT ![index] = command] ELSE boot_commands

-----------------------------------------------------------------------------
\* WriteCommandTable: as many commands as fit, each with its end.
Table91(cmds) ==
    LET step(st, i) == LET left == st.size - Len(cmds[i]) - 1 IN
                       IF left < 0 THEN [st EXCEPT !.size = left] ELSE [bytes |-> Append(st.bytes \o cmds[i], NUL), size |-> left]
        t == FoldLeft(step, [bytes |-> <<>>, size |-> MAX_ENV_SIZE_BYTES], [i \in 1 .. MAX_BOOT_COMMANDS |-> i - 1]).bytes
    IN  [i \in 1 .. MAX_ENV_SIZE_BYTES |-> CharAt(t, i)]
\* LoadBootCommands of bootiic: string after string, to the end of the section.
LoadBootCommands(bytes) ==
    LET step(st, i) == LET c == CString(bytes, st.at) IN
                       IF st.at > MAX_ENV_SIZE_BYTES THEN st ELSE [at |-> st.at + Len(c) + 1, cmds |-> [st.cmds EXCEPT ![i] = c]]
    IN  FoldLeft(step, [at |-> 1, cmds |-> Empty91], [i \in 1 .. MAX_BOOT_COMMANDS |-> i - 1]).cmds
\* That of bootspi: up to the first empty string.
LoadBootCommandsSpi(bytes) ==
    LET all == LoadBootCommands(bytes) IN [i \in Index |-> IF \E j \in 0 .. i : all[j] = <<>> THEN <<>> ELSE all[i]]

-----------------------------------------------------------------------------
\* bootspi's commands load, write flash (Xmodem) and execute, but set no boot commands.
ParseCommandSpi == UNCHANGED <<boot_commands, writing>>
\* ParseCommand: a line with too many words is not executed.
ParseCommand(buffer) ==
    LET argv == BreakCommand(buffer)
        b == Cut91(buffer)
        arg(k) == CString(b, argv[k])
        cmd == IF Len(argv) \in 1 .. MAX_COMMAND_PARAMS - 1 THEN StringToCommand(arg(1)) ELSE "other"
    IN  \/ /\ cmd = "SET" /\ ~spi91 /\ UNCHANGED writing
           /\ boot_commands' = IF Len(argv) > 1
                               THEN SetBootCommand(p_ASCIIToHex(arg(2)), IF Len(argv) > 2 THEN CString(RestoreSpace(b, argv, 2), argv[3]) ELSE <<>>)
                               ELSE boot_commands
        \/ cmd = "WRITE" /\ ~spi91 /\ writing' = "yes" /\ UNCHANGED boot_commands
        \/ cmd = "other" /\ ~spi91 /\ UNCHANGED <<boot_commands, writing>>
        \/ spi91 /\ ParseCommandSpi
Type91(l) ==
    /\ source91 = "user" /\ writing = "no" /\ nlines < MaxLines91 /\ nlines' = nlines + 1
    /\ ParseCommand(ServicePrompt(l)) /\ last91' = [line |-> l, before |-> boot_commands]
    /\ UNCHANGED <<eeprom, spi91, source91, currentIndex, written91>>
\* ReadCharFromEnvironment: the next boot command; after the last there is no more input, and no prompt either.
ExecuteEnvironmentFunctions ==
    /\ source91 = "auto" /\ writing = "no" /\ UNCHANGED <<eeprom, spi91, written91, last91, nlines>>
    /\ IF currentIndex < MAX_BOOT_COMMANDS
       THEN ParseCommand(ServicePrompt(boot_commands[currentIndex])) /\ currentIndex' = currentIndex + 1 /\ UNCHANGED source91
       ELSE source91' = "end" /\ UNCHANGED <<boot_commands, writing, currentIndex>>
\* WriteEEPROM writes byte after byte: all of them, or as many as are done when the power goes.
WriteDone == /\ writing = "yes" /\ writing' = "no" /\ eeprom' = Table91(boot_commands) /\ written91' = {boot_commands}
             /\ UNCHANGED <<boot_commands, spi91, source91, currentIndex, last91, nlines>>
Load91 == IF spi91 THEN LoadBootCommandsSpi(eeprom') ELSE LoadBootCommands(eeprom')
Start91 == /\ boot_commands' = Load91 /\ currentIndex' = 0 /\ source91' \in {"auto", "user"} /\ writing' = "no"
           /\ last91' = [line |-> <<>>, before |-> Empty91]
Reset91 == /\ writing = "no" /\ UNCHANGED <<eeprom, spi91, written91, nlines>> /\ Start91
PowerGoes(n) == /\ writing = "yes" /\ eeprom' = SubSeq(Table91(boot_commands), 1, n) \o SubSeq(eeprom, n + 1, Len(eeprom))
                /\ written91' = {} /\ UNCHANGED <<spi91, nlines>> /\ Start91

CommandsInit == /\ eeprom \in {Table91(c) : c \in Baked} /\ spi91 \in BOOLEAN /\ writing = "no" /\ source91 \in {"auto", "user"} /\ currentIndex = 0
                /\ boot_commands = (IF spi91 THEN LoadBootCommandsSpi(eeprom) ELSE LoadBootCommands(eeprom))
                /\ written91 = {} /\ last91 = [line |-> <<>>, before |-> Empty91] /\ nlines = 0
CommandsNext == \/ \E l \in TypedLines : Type91(l)
                \/ ExecuteEnvironmentFunctions \/ WriteDone \/ Reset91
                \/ \E n \in 0 .. MAX_ENV_SIZE_BYTES - 1 : PowerGoes(n)

-----------------------------------------------------------------------------
(* Properties *)
RECURSIVE Needed(_, _)
Needed(cmds, i) == Len(cmds[i]) + 1 + (IF i = 0 THEN 0 ELSE Needed(cmds, i - 1))
\* What was written comes back at the next start: the commands that fit, the others empty.
ComesBack ==
    \A cmds \in written91 : LoadBootCommands(eeprom) = [i \in Index |-> IF Needed(cmds, i) <= MAX_ENV_SIZE_BYTES THEN cmds[i] ELSE <<>>]
\* A command that is set is the text after the index, if its words are a space apart; the other commands are kept.
Text91(l) == LET b == ServicePrompt(l) argv == BreakCommand(b) IN SubSeq(b, argv[3], Len(b))
SetRight ==
    LET b == ServicePrompt(last91.line) argv == BreakCommand(b) IN
    ~spi91 /\ source91 = "user" /\ Len(argv) \in 3 .. MAX_COMMAND_PARAMS - 1 /\ b[argv[1]] = "s" /\ argv[2] - argv[1] > 1 /\ b[argv[2]] \in {"1", "2"} /\ argv[3] - argv[2] = 2
    /\ (\A i \in argv[3] .. Len(b) - 1 : ~(p_IsWhiteSpace(b[i]) /\ p_IsWhiteSpace(b[i + 1]))) /\ ~p_IsWhiteSpace(b[Len(b)])
    => boot_commands = [last91.before EXCEPT ![p_ASCIIToHex(<<b[argv[2]]>>)] = Text91(last91.line)]
\* The boot commands are those that were set, now and after the next start.
CommandsSafe == ComesBack /\ SetRight
=============================================================================
