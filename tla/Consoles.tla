----------------------------- MODULE Consoles ------------------------------
(***************************************************************************)
(* The consoles of the loader: console.c, which keeps several of them and    *)
(* makes active those the variable console names, the serial port             *)
(* (comconsole.c), and the input side of the others, some of which keep a      *)
(* character that polling has read.  Input is numbered per source; a source     *)
(* is a keyboard, a firmware console or the serial port at an address.           *)
(* The values of variables are numbers, 0 for a text that is no number and        *)
(* NONE for a variable that is not set.                                             *)
(***************************************************************************)
EXTENDS Naturals, Integers, Sequences, FiniteSets, SequencesExt

CONSTANTS
    ConsoleLists,   \* consoles[] of the platforms, each with the variables and the divisor of the line at the start
    ConsoleValues,  \* what the user sets console to: lists of words
    Speeds, Ports,  \* what the user sets the speed and the port to
    PciBars,        \* the base address registers, by locator: a port, -1 if it cannot be read, -2 if it is memory
    MaxTyped,       \* bound on the characters typed
    MaxPut,         \* bound on the characters printed
    MaxSets         \* bound on the changes of variables

NONE == -1
COMSPEED == 9600
COMPORT == 1
CLOCK == 115200
FREED == -3         \* a value read after its string was freed

VARIABLES consoles, flags, cenv, com, uart, inq, saved, got, gone, sent, count, early
convars == <<consoles, flags, cenv, com, uart, inq, saved, got, gone, sent, count, early>>

Line == <<"com1", "com2", "com3">>
Names == Range(consoles)
Sources == {"kbd", "dcons", "ofw", "ski", "uboot", "userboot", "efi", "ps3", "null", "spin"} \union {Line[p] : p \in Ports}
Source(c) == IF c = "comconsole" THEN Line[com.port]
             ELSE CASE c = "vidconsole" -> "kbd" [] c = "nullconsole" -> "null" [] c = "spinconsole" -> "spin" [] OTHER -> c
present == {"in", "out"}
active(c) == "active" \in flags[c]

-----------------------------------------------------------------------------
(* The serial port *)
comc_parseint(v) == IF v > 0 THEN v ELSE -1
COMC_BPS(speed) == (CLOCK \div speed) % 65536       \* two bytes of divisor
COMC_DIV2BPS(divisor) == CLOCK \div divisor
comc_getspeed(s) == IF s.uart[s.com.port] = 0 THEN COMSPEED ELSE COMC_DIV2BPS(s.uart[s.com.port])
\* Program the divisor of the line and throw away what it has received.
comc_setup(s, speed, port) ==
    [s EXCEPT !.com.curspeed = speed, !.com.port = port, !.uart[port] = COMC_BPS(speed), !.inq[Line[port]] = <<>>, !.gone[Line[port]] = @ \union Range(s.inq[Line[port]])]
\* The hooks of the hint (env_nounset, env_noset) let nobody remove or replace it: it is made once.
set_hw_console_hint(s) == [s EXCEPT !.cenv.hint = IF @ = <<>> THEN <<s.com.port, s.com.curspeed>> ELSE @, !.cenv.hinted = IF @ < 2 THEN @ + 1 ELSE @]
comc_init(s) == IF s.com.started THEN s ELSE comc_setup([s EXCEPT !.com.started = TRUE], s.com.curspeed, s.com.port)
\* A variable that is set while the line is not in use is kept, and the line never hears of it.
Early(s, name) == IF s.com.started THEN s.early \ {name} ELSE s.early \union {name}
comc_speed_set(s, v) ==
    LET speed == comc_parseint(v)
        t == IF s.com.started /\ s.com.curspeed # speed THEN comc_setup(s, speed, s.com.port) ELSE s
    IN  IF speed <= 0 THEN s ELSE [t EXCEPT !.cenv.speed = v, !.early = Early(s, "speed")]
comc_port_set(s, v) ==
    LET port == comc_parseint(v)
        t == IF s.com.started /\ s.com.port # port THEN set_hw_console_hint(comc_setup(s, s.com.curspeed, port)) ELSE s
    IN  IF port <= 0 THEN s ELSE [t EXCEPT !.cenv.port = v, !.early = Early(s, "port")]
comc_parse_pcidev(v) == IF v \in DOMAIN PciBars THEN v ELSE 0
comc_pcidev_handle(s, loc) ==
    IF PciBars[loc] \in {-1, -2} THEN s      \* cannot be read, or is memory
    ELSE LET port == PciBars[loc]
             t == [s EXCEPT !.cenv.port = port, !.early = @ \ {"port"}]
         IN  [set_hw_console_hint(comc_setup(t, s.com.curspeed, port)) EXCEPT !.com.locator = loc]
comc_pcidev_set(s, v) ==
    LET loc == comc_parse_pcidev(v) IN
    IF loc <= 0 THEN s
    ELSE IF s.com.started /\ s.com.locator # loc /\ PciBars[loc] \in {-1, -2} THEN s
    ELSE [(IF s.com.started /\ s.com.locator # loc THEN comc_pcidev_handle(s, loc) ELSE s) EXCEPT !.cenv.pcidev = v]
\* comc_probe: the first time, the variables are made, with the values they already have if these are
\* numbers; the earlier stage's speed is kept if it used the port.  A PCI device is set up at once.
comc_probe(s) ==
    IF s.com.curspeed # 0 THEN s
    ELSE LET found == IF s.cenv.console = <<"comconsole">> \/ s.cenv.multicons THEN comc_getspeed(s) ELSE COMSPEED
             speed == IF comc_parseint(s.cenv.speed) > 0 THEN s.cenv.speed ELSE found
             port == IF comc_parseint(s.cenv.port) > 0 THEN s.cenv.port ELSE s.com.port
             t == [s EXCEPT !.com.curspeed = speed, !.cenv.speed = speed, !.com.port = port, !.cenv.port = port]
             locator == comc_parse_pcidev(s.cenv.pcidev)
             u == IF locator # 0 THEN comc_pcidev_handle(t, locator) ELSE t
         IN  [u EXCEPT !.cenv.pcidev = IF @ = NONE THEN NONE ELSE FREED]
\* A character is dropped if the transmitter does not become ready.
comc_putchar(log, c, ready) == IF ready THEN Append(log, c) ELSE log

-----------------------------------------------------------------------------
(* The other consoles *)
\* Keys typed ahead are thrown away, ten at most.
vidc_init9(s) == IF s.vidstarted THEN s
                 ELSE LET n == IF Len(s.inq["kbd"]) < 10 THEN Len(s.inq["kbd"]) ELSE 10 IN
                      [s EXCEPT !.vidstarted = TRUE, !.gone["kbd"] = @ \union {s.inq["kbd"][i] : i \in 1 .. n}, !.inq["kbd"] = SubSeq(@, n + 1, Len(@))]
nullc_init(s) == s
spinc_init(s) == s
c_init(s, c) == CASE c = "comconsole" -> comc_init(s) [] c = "vidconsole" -> vidc_init9(s) [] c = "nullconsole" -> nullc_init(s) [] c = "spinconsole" -> spinc_init(s) [] OTHER -> s
\* dcons makes itself active when it is probed.
dconsole_probe(s) == [s EXCEPT !.flags["dcons"] = present \union {"active"}]
ofw_cons_probe(s) == [s EXCEPT !.flags["ofw"] = present]
c_probe(s, c) == CASE c = "comconsole" -> [comc_probe(s) EXCEPT !.flags[c] = present]
                   [] c = "dcons" -> dconsole_probe(s)
                   [] c = "ofw" -> ofw_cons_probe(s)
                   \* a keyboard that is not found can be no input
                   [] c = "vidconsole" -> [s EXCEPT !.flags[c] = IF s.keyboard THEN present ELSE {"out"}]
                   [] OTHER -> [s EXCEPT !.flags[c] = present]
\* Polling an Open Firmware or a simulator's console reads the character and keeps it.
Keeps(c) == c \in {"ofw", "ski"}
Silent(c) == c \in {"nullconsole", "spinconsole", "ps3"}
ofw_cons_poll(c) == saved[c] # NONE \/ inq[Source(c)] # <<>>
c_ready(c) == ~Silent(c) /\ (IF Keeps(c) THEN ofw_cons_poll(c) ELSE inq[Source(c)] # <<>>)
ofw_cons_getchar(c) == IF saved[c] # NONE THEN [ch |-> saved[c], rest |-> inq[Source(c)]] ELSE [ch |-> Head(inq[Source(c)]), rest |-> Tail(inq[Source(c)])]

-----------------------------------------------------------------------------
(* console.c *)
cons_find(c) == c \in Names
\* One unknown name refuses the whole list, and so does a list of blanks.
cons_check(v) == (\A i \in DOMAIN v : v[i] = "" \/ cons_find(v[i])) /\ (\E i \in DOMAIN v : v[i] # "")
\* Mutant of cons_change: the consoles that were active stay so.
cons_changeAdds(s, v) ==
    FoldLeft(LAMBDA t, c : IF c = "" \/ ~cons_find(c) THEN t ELSE c_init([t EXCEPT !.flags[c] = @ \union {"active"}], c), s, v)
\* All are made inactive first; presence is not asked for.
cons_change(s, v) ==
    FoldLeft(LAMBDA t, c : IF c = "" \/ ~cons_find(c) THEN t ELSE c_init([t EXCEPT !.flags[c] = @ \union {"active"}], c),
             [s EXCEPT !.flags = [c \in DOMAIN @ |-> @[c] \ {"active"}]], v)
cons_set(s, v) == IF ~cons_check(v) THEN s ELSE [cons_change(s, v) EXCEPT !.cenv.console = v]

State == [flags |-> flags, cenv |-> cenv, com |-> com, uart |-> uart, inq |-> inq, gone |-> gone, early |-> early, vidstarted |-> count.vidstarted, keyboard |-> count.keyboard]
Commit(s) == /\ flags' = s.flags /\ cenv' = s.cenv /\ com' = s.com /\ uart' = s.uart /\ inq' = s.inq /\ gone' = s.gone /\ early' = s.early

ConsolesInit ==
    /\ \E l \in ConsoleLists : /\ consoles = l.list
                               /\ cenv = [console |-> l.console, multicons |-> l.multicons, speed |-> l.speed, port |-> l.port, pcidev |-> l.pcidev, hint |-> <<>>, hinted |-> 0]
                               /\ uart = [p \in Ports |-> l.divisor]
    /\ flags = [c \in Range(consoles) |-> {}]
    /\ com = [started |-> FALSE, curspeed |-> 0, port |-> COMPORT, locator |-> 0]
    /\ inq = [q \in Sources |-> <<>>] /\ got = [q \in Sources |-> <<>>] /\ gone = [q \in Sources |-> {}]
    /\ saved = [c \in {"ofw", "ski"} |-> NONE]
    /\ sent = [c \in Range(consoles) |-> <<>>] /\ early = {}
    /\ \E k \in BOOLEAN : count = [typed |-> [q \in Sources |-> 0], put |-> 0, sets |-> 0, probed |-> FALSE, vidstarted |-> FALSE, keyboard |-> k]

\* cons_probe: every console is probed, those up to the first usable one twice; then the one the
\* variable names, or that first one, is made active.
cons_probe ==
    /\ ~count.probed
    /\ LET once == FoldLeft(LAMBDA s, c : c_probe([s EXCEPT !.flags[c] = {}], c), State, consoles)
           usable == {i \in DOMAIN consoles : once.flags[consoles[i]] = present}
           first == IF usable = {} THEN Len(consoles) ELSE CHOOSE i \in usable : \A j \in usable : i <= j
           twice == FoldLeft(LAMBDA s, c : c_probe([s EXCEPT !.flags[c] = {}], c), once, SubSeq(consoles, 1, first))
           chosen == consoles[IF usable = {} THEN 1 ELSE first]
           \* env_setenv calls cons_set for a variable that is already there only
           s == IF cenv.console # <<>> THEN cons_change(twice, cenv.console)
                ELSE [c_init([twice EXCEPT !.flags[chosen] = @ \union {"active"}], chosen) EXCEPT !.cenv.console = <<chosen>>]
       IN  Commit(s) /\ count' = [count EXCEPT !.probed = TRUE, !.vidstarted = s.vidstarted]
    /\ UNCHANGED <<consoles, saved, got, sent>>
\* A variable is set at the prompt or by a script.
Set9(s) == /\ count.probed /\ count.sets < MaxSets /\ Commit(s)
           /\ count' = [count EXCEPT !.sets = @ + 1, !.vidstarted = s.vidstarted]
           /\ UNCHANGED <<consoles, saved, got, sent>>
HasCom == "comconsole" \in Names
SetConsole == \E v \in ConsoleValues : Set9(cons_set(State, v))
SetSpeed == HasCom /\ \E v \in Speeds \union {0} : Set9(comc_speed_set(State, v))
SetPort == HasCom /\ \E v \in Ports \union {0} : Set9(comc_port_set(State, v))
SetPci == HasCom /\ \E v \in DOMAIN PciBars \union {0} : Set9(comc_pcidev_set(State, v))
\* The world: a key is pressed, a line receives.
Typed(q) == /\ FoldSet(LAMBDA x, n : count.typed[x] + n, 0, Sources) < MaxTyped
            /\ inq' = [inq EXCEPT ![q] = Append(@, count.typed[q] + 1)] /\ count' = [count EXCEPT !.typed[q] = @ + 1]
            /\ UNCHANGED <<consoles, flags, cenv, com, uart, saved, got, gone, sent, early>>
\* getchar asks the active consoles in turn until one has a character; EFI's waits in the console.
getchar == \E i \in DOMAIN consoles :
    LET c == consoles[i] q == Source(c) r == ofw_cons_getchar(c) IN
    /\ count.probed /\ active(c) /\ c_ready(c)
    /\ \A j \in 1 .. i - 1 : ~(active(consoles[j]) /\ c_ready(consoles[j]))
    /\ IF Keeps(c) THEN got' = [got EXCEPT ![q] = Append(@, r.ch)] /\ inq' = [inq EXCEPT ![q] = r.rest] /\ saved' = [saved EXCEPT ![c] = NONE]
       ELSE got' = [got EXCEPT ![q] = Append(@, Head(inq[q]))] /\ inq' = [inq EXCEPT ![q] = Tail(@)] /\ UNCHANGED saved
    /\ UNCHANGED <<consoles, flags, cenv, com, uart, gone, sent, count, early>>
\* ischar polls them in turn up to the first that is ready.
ischar ==
    /\ count.probed
    /\ \E i \in DOMAIN consoles : LET c == consoles[i] q == Source(c) IN
         /\ active(c) /\ Keeps(c) /\ saved[c] = NONE /\ inq[q] # <<>>
         /\ \A j \in 1 .. i - 1 : ~(active(consoles[j]) /\ c_ready(consoles[j]))
         /\ saved' = [saved EXCEPT ![c] = Head(inq[q])] /\ inq' = [inq EXCEPT ![q] = Tail(@)]
    /\ UNCHANGED <<consoles, flags, cenv, com, uart, got, gone, sent, count, early>>
\* A line feed is sent with a carriage return before it; Open Firmware's, U-Boot's and EFI's consoles add one more.
Adds(c) == c \in {"ofw", "uboot", "efi"}
Out(c, log, ch, ready) == IF c = "comconsole" THEN comc_putchar(log, ch, ready)
                          ELSE IF Adds(c) /\ ch = "nl" THEN log \o <<"cr", "nl">> ELSE Append(log, ch)
putchar(ch) == \E r1, r2 \in BOOLEAN :
    /\ count.probed /\ count.put < MaxPut
    /\ (~HasCom => r1 /\ r2) /\ (ch # "nl" => r1 = r2)
    /\ sent' = [c \in DOMAIN sent |-> IF ~active(c) THEN sent[c]
                                      ELSE IF ch = "nl" THEN Out(c, Out(c, sent[c], "cr", r1), ch, r2) ELSE Out(c, sent[c], ch, r1)]
    /\ count' = [count EXCEPT !.put = @ + 1]
    /\ UNCHANGED <<consoles, flags, cenv, com, uart, inq, saved, got, gone, early>>

ConsolesNext == \/ cons_probe \/ SetConsole \/ SetSpeed \/ SetPort \/ SetPci \/ getchar \/ ischar
                \/ \E q \in {Source(c) : c \in Names} \ {"null", "spin", "ps3", "dcons"} : Typed(q)
                \/ \E ch \in {"a", "nl"} : putchar(ch)

-----------------------------------------------------------------------------
(* Properties *)
\* The active consoles are the ones the variable names; dcons, which nobody has to name, may be one more.
ActiveAsNamed == count.probed => \A c \in Names : active(c) <=> (Contains(cenv.console, c) \/ (c = "dcons" /\ active(c)))
\* A speed the line can be given; any other number is taken and believed all the same (comconsole.c:184).
Exact(speed) == CLOCK % speed = 0 /\ CLOCK \div speed < 65536
\* An active serial port has been programmed, with the speed the program believes in if there is a divisor
\* for it; the hint for the kernel names its address, unless the port was moved again (comconsole.c:220).
LineProgrammed == /\ HasCom /\ count.probed /\ active("comconsole") => com.started
                  /\ com.started /\ Exact(com.curspeed) => uart[com.port] # 0 /\ COMC_DIV2BPS(uart[com.port]) = com.curspeed
                  /\ cenv.hinted = 1 => cenv.hint[1] = com.port
\* Each variable describes the line once it is in use, but one that was set before that, and not again, is
\* what the user gave while the line has what comc_probe found (comc_speed_set, comc_port_set).
VariablesTrue == com.started => /\ "speed" \notin early => cenv.speed = com.curspeed
                                /\ "port" \notin early => cenv.port = com.port
\* Every character that is typed is returned once, in order, or thrown away when a console is set up.
OnceEach == \A q \in Sources :
    LET kept == IF q \in DOMAIN saved /\ saved[q] # NONE THEN <<saved[q]>> ELSE <<>>
        all == got[q] \o kept \o inq[q]
    IN  /\ \A i, j \in DOMAIN all : i < j => all[i] < all[j]
        /\ Range(all) \union gone[q] = 1 .. count.typed[q] /\ Range(all) \intersect gone[q] = {}
\* On consoles that drop nothing a line feed follows a carriage return.
Returns == \A c \in Names : c # "comconsole" => \A i \in DOMAIN sent[c] : sent[c][i] = "nl" => i > 1 /\ sent[c][i - 1] = "cr"
\* What the consoles promise: the named ones are active and programmed, the variables tell the
\* truth about the line, and input is neither lost nor repeated by polling.
ConsolesSafe == ActiveAsNamed /\ LineProgrammed /\ VariablesTrue /\ OnceEach /\ Returns
=============================================================================
