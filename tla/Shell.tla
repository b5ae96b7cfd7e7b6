------------------------------- MODULE Shell -------------------------------
(***************************************************************************)
(* The loader's command line: backslash and parse (interp_backslash.c,       *)
(* interp_parse.c), scripts and the prompt (interp.c, and interp_forth.c      *)
(* where Forth reads the lines), and the commands of commands.c and ls.c.       *)
(* parse owns the strings it returns and frees them at its next call, so a       *)
(* script run from a command takes the arguments of that command away.            *)
(***************************************************************************)
EXTENDS Naturals, Sequences, FiniteSets, SequencesExt, TLC

CONSTANTS
    InputLines,     \* lines for parse, sequences of characters
    Values,         \* variables and their values, for parse
    PARSE_BUFSIZE, ARGMAX,
    HelpFiles,      \* sequences of [topic, subtopic, text], topics together
    HelpRequests,   \* sequences of up to three words
    Scripts,        \* file names and their lines: [prefix, cmd, args]
    Prompted,       \* lines typed at the prompt
    MaxTyped9       \* how many are typed

VARIABLES
    line,           \* what parse or help is given; history of the lines typed
    forth,          \* BOOT_FORTH
    stack9,         \* include and command_include calls, the innermost last
    gen,            \* how often parse was called: the strings of the last call are there
    envt,           \* the environment
    fds9, heap9,    \* descriptors and script lines in use
    sourceID,
    mfail,          \* the script for which memory does not suffice, or "never"
    answer,         \* what the user does: types, or lets time pass; leaves the pager or reads on
    ran, dangling,  \* history: commands run; the strings of parse used after they were freed, `args' or `name'
    shpc, ntyped
shvars == <<line, forth, stack9, gen, envt, fds9, heap9, sourceID, mfail, answer, ran, dangling, shpc, ntyped>>

-----------------------------------------------------------------------------
(* backslash *)
Code(v) == CASE v = 0 -> "NUL" [] v = 32 -> " " [] v = 36 -> "$" [] OTHER -> "ctl"
Ch(s, i) == IF i \in DOMAIN s THEN s[i] ELSE "NUL"
DIGIT(c) == CASE c = "0" -> 0 [] c = "4" -> 4 [] OTHER -> 9
Octal(s, i) == \A k \in 0 .. 2 : DIGIT(Ch(s, i + k)) < 8
\* The character after a backslash: what it becomes, and how much of the input it takes.
Escape(s, i) ==
    LET c == s[i] IN
    CASE c \in {"'", "$"} -> [out |-> <<"\\", c>>, n |-> 1]
      [] c = "n" -> [out |-> <<"nl">>, n |-> 1]
      [] c = "s" -> [out |-> <<" ">>, n |-> 1]
      [] c = "z" -> [out |-> <<>>, n |-> 1]
      [] c = "0" /\ Octal(s, i) -> [out |-> <<Code(8 * DIGIT(Ch(s, i + 1)) + DIGIT(Ch(s, i + 2)))>>, n |-> 3]
      [] c = "0" /\ Ch(s, i + 1) = "x" /\ DIGIT(Ch(s, i + 2)) < 9 ->
            IF DIGIT(Ch(s, i + 3)) < 9 THEN [out |-> <<Code(16 * DIGIT(Ch(s, i + 2)) + DIGIT(Ch(s, i + 3)))>>, n |-> 4] ELSE [out |-> <<Code(DIGIT(Ch(s, i + 2)))>>, n |-> 3]
      [] c \in {"0", "4"} -> [out |-> <<>>, n |-> 0]          \* no number: taken as it is next time
      [] OTHER -> [out |-> <<c>>, n |-> 1]
\* A string ends at its NUL.
Str(s) == IF \E i \in DOMAIN s : s[i] = "NUL" THEN SubSeq(s, 1, (CHOOSE i \in DOMAIN s : s[i] = "NUL" /\ \A j \in 1 .. i - 1 : s[j] # "NUL") - 1) ELSE s
backslash(s) ==
    LET step(st, i) == IF i < st.next THEN st
                       ELSE IF st.seenbs THEN LET e == Escape(s, i) IN
                            IF e.n = 0 THEN [out |-> Append(st.out, s[i]), seenbs |-> FALSE, next |-> i + 1] ELSE [out |-> st.out \o e.out, seenbs |-> FALSE, next |-> i + e.n]
                       ELSE IF s[i] = "\\" THEN [st EXCEPT !.seenbs = TRUE, !.next = i + 1] ELSE [st EXCEPT !.out = Append(@, s[i]), !.next = i + 1]
        r == FoldLeft(step, [out |-> <<>>, seenbs |-> FALSE, next |-> 1], [i \in DOMAIN s |-> i])
    IN  Str(IF r.seenbs THEN Append(r.out, "\\") ELSE r.out)

-----------------------------------------------------------------------------
(* parse: one pass, with the states STR, WHITE and VAR. *)
isspace(c) == c \in {" ", "nl"}
isdelim(c) == IF c = "{" THEN "}" ELSE "NUL"
From(p, i, c) == {j \in i .. Len(p) : p[j] = c}
Least(S) == CHOOSE j \in S : \A k \in S : j <= k
variable_lookup(n) == IF n \in DOMAIN Values THEN Values[n] ELSE <<>>
insert(st) == IF st.buf = <<>> THEN st ELSE IF Len(st.argv) >= ARGMAX THEN [st EXCEPT !.fail = TRUE] ELSE [st EXCEPT !.argv = Append(@, st.buf), !.buf = <<>>]
\* The value is cut at the end of the buffer, the index into it is not.
Expand(st, p) ==
    LET ends == IF st.token # "NUL" THEN From(p, st.at, st.token) ELSE {j \in st.at .. Len(p) : isspace(p[j])} \union {Len(p) + 1}
        q == Least(ends)
        val == variable_lookup(SubSeq(p, st.at, q - 1))
    IN  IF ends = {} THEN [st EXCEPT !.fail = TRUE]
        ELSE [st EXCEPT !.buf = @ \o val, !.over = @ \/ Len(st.buf) + Len(val) > PARSE_BUFSIZE - 1, !.at = q + (IF st.token # "NUL" THEN 1 ELSE 0), !.state = "STR"]
Letter(st, c, n) == IF Len(st.buf) = PARSE_BUFSIZE - 1 THEN [st EXCEPT !.fail = TRUE] ELSE [st EXCEPT !.buf = Append(@, c), !.at = @ + n]
Scan(st, p) ==
    LET c == Ch(p, st.at) IN
    IF st.fail \/ st.at > Len(p) THEN st
    ELSE IF st.state = "VAR" THEN Expand(st, p)
    ELSE IF st.state = "WHITE" THEN IF isspace(c) THEN [st EXCEPT !.at = @ + 1] ELSE [st EXCEPT !.state = "STR"]
    ELSE IF c = "\\" /\ st.at < Len(p) THEN Letter(st, p[st.at + 1], 2)
    ELSE IF c = "'" THEN [st EXCEPT !.quote = ~@, !.at = @ + 1]
    ELSE IF isspace(c) /\ ~st.quote THEN [insert(st) EXCEPT !.state = "WHITE", !.at = @ + 1]
    ELSE IF c = "$" THEN LET t == isdelim(Ch(p, st.at + 1)) IN [st EXCEPT !.token = t, !.at = @ + (IF t # "NUL" THEN 2 ELSE 1), !.state = "VAR"]
    ELSE Letter(st, c, 1)
parse(str) ==
    LET p == backslash(str)
        r == FoldLeft(LAMBDA st, k : Scan(st, p), [state |-> "STR", at |-> 1, buf |-> <<>>, argv |-> <<>>, quote |-> FALSE, token |-> "NUL", fail |-> FALSE, over |-> FALSE], [k \in 1 .. 2 * Len(p) |-> k])
    IN  IF r.fail \/ r.state # "STR" THEN r ELSE insert(r)

-----------------------------------------------------------------------------
(* help: the help file is scanned for the topic. *)
\* help_getnext: lines before the first topic, and headings without one, are passed over.
HelpLines(file) == SelectSeq(file, LAMBDA e : e.topic # "NULL")
Summary(e) == [k |-> "summary", topic |-> e.topic, sub |-> e.subtopic]
\* quit is the output after which the user leaves the pager, 0 if he reads on.
command_help(file, req, quit) ==
    LET topic == IF Len(req) = 0 THEN "help" ELSE req[1]
        sub == IF Len(req) < 2 THEN "NULL" ELSE req[2]
        doindex == topic = "index"
        \* the user leaves once; what the command prints after that is shown
        show(s, outs) == IF quit = 0 \/ s.left \/ Len(s.out) + Len(outs) < quit THEN [s EXCEPT !.out = @ \o outs]
                         ELSE [s EXCEPT !.out = @ \o SubSeq(outs, 1, quit - Len(s.out)), !.stop = TRUE, !.left = TRUE]
        step(s, e) == IF s.stop THEN s
                      ELSE IF doindex THEN show(s, <<Summary(e)>>)
                      ELSE IF e.topic # topic THEN [s EXCEPT !.stop = s.matched]
                      ELSE LET m == [s EXCEPT !.matched = TRUE] IN
                           \* leaving the pager in the text of an entry only ends the entry
                           IF e.subtopic = sub THEN [show(m, e.text) EXCEPT !.stop = FALSE]
                           ELSE IF sub = "NULL" THEN show(m, <<Summary(e)>>) ELSE m
    IN  IF Len(req) > 2 THEN [out |-> <<>>, stop |-> TRUE, left |-> FALSE, matched |-> FALSE] ELSE FoldLeft(step, [out |-> <<>>, stop |-> FALSE, left |-> FALSE, matched |-> doindex], HelpLines(file))

-----------------------------------------------------------------------------
(* Commands that run no other: whether they succeed, and the environment after them. *)
Builtins == {"set", "unset", "show", "echo", "read", "more", "ls", "lsdev", "help", "include"}
Unset(env, n) == [x \in DOMAIN env \ {n} |-> env[x]]
Done9(ok, env) == [ok |-> ok, env |-> env]
\* <<name, value>> is the one word name=value
SetVar9(args, env) == IF Len(args) = 2 THEN Done9(TRUE, (args[1] :> args[2]) @@ env) ELSE Done9(FALSE, env)
Show9(args, env) == Done9(args = <<>> \/ Head(args) \in DOMAIN env, env)
\* echo and lsdev succeed, with a wrong option too
Echo9(env) == Done9(TRUE, env)
Lsdev9(env) == Done9(TRUE, env)
\* a time that passes without a key is no error
Read9(args, env) == Done9(TRUE, IF answer = "types" /\ args # <<>> THEN (args[1] :> "typed") @@ env ELSE env)
\* leaving the pager is an error of more, not of ls
More9(args, env) == Done9(answer # "leaves" /\ \A i \in DOMAIN args : args[i] \in DOMAIN Scripts, env)
ls_getdir(args) == args # <<"file">>
Ls9(args, env) == Done9(ls_getdir(args), env)
\* perform
Do(cmd, args, env) ==
    CASE cmd = "set" -> SetVar9(args, env)
      [] cmd = "unset" -> IF Len(args) = 1 /\ args[1] \in DOMAIN env THEN Done9(TRUE, Unset(env, args[1])) ELSE Done9(FALSE, env)
      [] cmd = "show" -> Show9(args, env)
      [] cmd = "echo" -> Echo9(env)
      [] cmd = "lsdev" -> Lsdev9(env)
      [] cmd = "read" -> Read9(args, env)
      [] cmd = "more" -> More9(args, env)
      [] cmd = "ls" -> Ls9(args, env)
      [] OTHER -> Done9(cmd \in Builtins, env)
\* What a script's prefixes do: Forth does not know them, and after @ a - is part of the command.
Text9(l) == IF forth /\ l.prefix # "" THEN [l EXCEPT !.cmd = "-"] ELSE IF l.prefix = "@-" THEN [l EXCEPT !.cmd = "-"] ELSE l
SL_IGNOREERR(l) == ~forth /\ l.prefix = "-"
\* Empty lines, and outside Forth comments, are not kept.
Kept(f) == SelectSeq(Scripts[f], LAMBDA l : l.cmd # "" /\ (forth \/ l.cmd # "comment"))

Top9 == stack9[Len(stack9)]
Pop9 == SubSeq(stack9, 1, Len(stack9) - 1)
Set9top(f) == [stack9 EXCEPT ![Len(stack9)] = f]
\* include: the script is read into memory and the file closed; without memory it stays open.
include(st, f) ==
    \/ /\ f \in DOMAIN Scripts /\ f # mfail
       /\ stack9' = Append(st, [k |-> "script", left |-> Kept(f), n |-> Len(Kept(f)), prev |-> sourceID])
       /\ heap9' = heap9 + Len(Kept(f)) /\ sourceID' = (IF forth THEN "file" ELSE sourceID) /\ shpc' = "run" /\ UNCHANGED fds9
    \/ /\ f \notin DOMAIN Scripts \/ f = mfail
       /\ fds9' = fds9 + (IF f = mfail THEN 1 ELSE 0)
       /\ stack9' = st /\ shpc' = "err" /\ UNCHANGED <<heap9, sourceID>>
\* Mutant of CopiesArgs: the arguments are used where parse put them.
CopiesArgsNot == FALSE
\* command_include copies its arguments, for the scripts' lines are parsed too.
CopiesArgs == TRUE
\* What whoever ran the line does with a command that failed: outside Forth argv[0] is printed, which is
\* freed by then if the command has parsed a line.
PrintsName(parsed) == IF ~forth /\ parsed # gen THEN {"name"} ELSE {}
\* A line, from a script or from the prompt: parse, which frees what it returned last, and the command.
Execute(l, st) ==
    /\ gen' = gen + 1
    /\ ran' = IF l.cmd \in {"bad", "comment"} THEN ran ELSE Append(ran, <<l.cmd, l.args>>)
    /\ \/ /\ l.cmd = "include"
          /\ stack9' = Append(st, [k |-> "include", rest |-> l.args, own |-> CopiesArgs, gen |-> gen + 1])
          /\ shpc' = "ok" /\ UNCHANGED envt
       \/ /\ l.cmd # "include" /\ stack9' = st
          /\ envt' = Do(l.cmd, l.args, envt).env
          /\ shpc' = IF l.cmd # "bad" /\ (l.cmd = "comment" \/ Do(l.cmd, l.args, envt).ok) THEN "lineok" ELSE IF l.cmd = "bad" THEN "linebad" ELSE "lineerr"
RunLine ==
    /\ shpc = "run" /\ Top9.k = "script" /\ Top9.left # <<>>
    /\ Execute(Text9(Head(Top9.left)), stack9)
    /\ UNCHANGED <<fds9, heap9, sourceID, dangling, ntyped>>
\* The script goes on, or stops at a line that failed or could not be parsed.
LineDone ==
    /\ shpc \in {"lineok", "lineerr", "linebad"} /\ stack9 # <<>> /\ Top9.k = "script"
    /\ IF shpc = "lineok" \/ (shpc = "lineerr" /\ SL_IGNOREERR(Head(Top9.left)))
       THEN stack9' = Set9top([Top9 EXCEPT !.left = Tail(@)]) /\ shpc' = "run" /\ UNCHANGED <<heap9, sourceID>>
       ELSE stack9' = Pop9 /\ shpc' = "err" /\ heap9' = heap9 - Top9.n /\ sourceID' = Top9.prev
    /\ envt' = IF forth THEN ("interpret" :> "OK") @@ envt ELSE envt      \* bf_run
    /\ UNCHANGED <<gen, fds9, ran, dangling, ntyped>>
ScriptEnds ==
    /\ shpc = "run" /\ Top9.k = "script" /\ Top9.left = <<>>
    /\ stack9' = Pop9 /\ shpc' = "ok" /\ heap9' = heap9 - Top9.n /\ sourceID' = Top9.prev
    /\ UNCHANGED <<gen, envt, fds9, ran, dangling, ntyped>>
\* command_include: the next file, unless the last one failed; the result is that of the line.
command_include ==
    /\ shpc \in {"ok", "err"} /\ stack9 # <<>> /\ Top9.k = "include"
    /\ \/ /\ shpc = "ok" /\ Top9.rest # <<>>
          /\ dangling' = dangling \union (IF ~Top9.own /\ Top9.gen # gen THEN {"args"} ELSE {})
          /\ include(Set9top([Top9 EXCEPT !.rest = Tail(@)]), Head(Top9.rest))
       \/ /\ shpc = "err" \/ Top9.rest = <<>>
          /\ stack9' = Pop9 /\ shpc' = (IF shpc = "ok" THEN "lineok" ELSE "lineerr")
          /\ dangling' = dangling \union (IF shpc = "ok" THEN {} ELSE PrintsName(Top9.gen))
          /\ UNCHANGED <<fds9, heap9, sourceID>>
    /\ UNCHANGED <<gen, envt, ran, ntyped>>
\* interact: loader.rc, or boot.conf if that fails; the automatic boot is in Boot; then the prompt.
interact ==
    /\ stack9 = <<>>
    /\ \/ shpc = "rc" /\ include(<<[k |-> "rc"]>>, "loader.rc")
       \/ shpc = "conf" /\ include(<<[k |-> "conf"]>>, "boot.conf")
    /\ UNCHANGED <<gen, envt, ran, dangling, ntyped>>
Configured ==
    /\ shpc \in {"ok", "err"} /\ stack9 # <<>> /\ Top9.k \in {"rc", "conf"} /\ stack9' = <<>>
    /\ \/ Top9.k = "rc" /\ shpc = "err" /\ shpc' = "conf" /\ UNCHANGED envt
       \/ /\ Top9.k = "conf" \/ shpc = "ok"
          /\ shpc' = "prompt" /\ envt' = envt @@ ("prompt" :> "${interpret}" @@ "interpret" :> "OK")
    /\ UNCHANGED <<gen, fds9, heap9, sourceID, ran, dangling, ntyped>>
Prompt9(l) ==
    /\ shpc = "prompt" /\ stack9 = <<>> /\ ntyped < MaxTyped9 /\ ntyped' = ntyped + 1
    /\ sourceID' = "user" /\ Execute(l, <<>>) /\ line' = Append(line, l)
    /\ UNCHANGED <<fds9, heap9, dangling>>
Again == /\ shpc \in {"lineok", "lineerr", "linebad"} /\ stack9 = <<>> /\ shpc' = "prompt"
         /\ envt' = IF forth THEN ("interpret" :> "OK") @@ envt ELSE envt
         /\ UNCHANGED <<stack9, gen, fds9, heap9, sourceID, ran, dangling, ntyped>>

ShellInit == /\ stack9 = <<>> /\ gen = 0 /\ fds9 = 0 /\ heap9 = 0 /\ sourceID = "user" /\ ran = <<>> /\ dangling = {} /\ ntyped = 0
             /\ envt = ("loaddev" :> "disk")
             /\ \/ shpc = "parse" /\ line \in InputLines /\ forth = FALSE /\ mfail = "never" /\ answer = "types"
                \/ shpc = "help" /\ line \in [file : HelpFiles, req : HelpRequests, quit : 0 .. 3] /\ forth = FALSE /\ mfail = "never" /\ answer = "types"
                \/ shpc = "rc" /\ line = <<>> /\ forth \in BOOLEAN /\ mfail \in DOMAIN Scripts \union {"never"} /\ answer \in {"types", "leaves", "waits"}
ShellNext == /\ \/ UNCHANGED line /\ (RunLine \/ LineDone \/ ScriptEnds \/ command_include \/ interact \/ Configured \/ Again)
                \/ \E l \in Prompted : Prompt9(l)
             /\ UNCHANGED <<forth, mfail, answer>>

-----------------------------------------------------------------------------
(* Properties.  What a line means: its pieces, cut at spaces outside quotes. *)
RECURSIVE Items(_)
Items(p) ==
    IF p = <<>> THEN <<>>
    ELSE LET c == Head(p)
             ends == IF Ch(p, 2) = "{" THEN From(p, 3, "}") ELSE {j \in 2 .. Len(p) : isspace(p[j])} \union {Len(p) + 1}
             name == SubSeq(p, IF Ch(p, 2) = "{" THEN 3 ELSE 2, Least(ends) - 1)
             rest(n) == Items(SubSeq(p, n, Len(p)))
         IN  CASE c = "\\" /\ Len(p) > 1 -> <<[k |-> "text", v |-> <<p[2]>>]>> \o rest(3)
               [] c = "'" -> <<[k |-> "quote", v |-> <<>>]>> \o rest(2)
               [] isspace(c) -> <<[k |-> "space", v |-> <<c>>]>> \o rest(2)
               [] c = "$" /\ (Len(p) = 1 \/ p = <<"$", "{">>) -> <<[k |-> "lone", v |-> <<>>]>>
               [] c = "$" /\ ends = {} -> <<[k |-> "open", v |-> <<>>]>>
               [] c = "$" -> <<[k |-> "text", v |-> variable_lookup(name)]>> \o rest(Least(ends) + (IF Ch(p, 2) = "{" THEN 1 ELSE 0))
               [] OTHER -> <<[k |-> "text", v |-> <<c>>]>> \o rest(2)
Words9(items) ==
    LET quotes(i) == Cardinality({j \in 1 .. i : items[j].k = "quote"})
        cuts == {0, Len(items) + 1} \union {i \in DOMAIN items : items[i].k = "space" /\ quotes(i) % 2 = 0}
        next(i) == Least({j \in cuts : j > i})
        all == [i \in 1 .. Len(items) + 1 |-> IF i - 1 \in cuts THEN FlattenSeq([k \in 1 .. next(i - 1) - i |-> items[i + k - 1].v]) ELSE <<>>]
    IN  SelectSeq(all, LAMBDA w : w # <<>>)
\* parse gives the words of the line, or fails when a brace is open or there is too much; a value that
\* does not fit in the buffer and a `$' at the very end are left out.
ParseRight == shpc = "parse" =>
    LET r == parse(line) items == Items(backslash(line)) words == Words9(items) IN
    r.over \/ (\E i \in DOMAIN items : items[i].k = "lone")
    \/ IF \E i \in DOMAIN items : items[i].k = "open" THEN r.fail
       ELSE /\ r.fail <=> Len(words) > ARGMAX \/ \E i \in DOMAIN words : Len(words[i]) > PARSE_BUFSIZE - 1
            /\ ~r.fail => r.argv = words
\* help prints the entry asked for and what else there is on its topic, as far as the user reads.
HelpRight == shpc = "help" =>
    LET r == command_help(line.file, line.req, line.quit)
        topic == IF line.req = <<>> THEN "help" ELSE line.req[1]
        sub == IF Len(line.req) < 2 THEN "NULL" ELSE line.req[2]
        on == IF topic = "index" THEN SelectSeq(line.file, LAMBDA e : e.topic # "NULL") ELSE SelectSeq(line.file, LAMBDA e : e.topic = topic)
        text == FlattenSeq([i \in DOMAIN on |-> IF topic = "index" THEN <<Summary(on[i])>> ELSE IF on[i].subtopic = sub THEN on[i].text ELSE IF sub = "NULL" THEN <<Summary(on[i])>> ELSE <<>>])
    IN  Len(line.req) <= 2 => /\ r.matched <=> (topic = "index" \/ on # <<>>)
                              /\ IF line.quit = 0 THEN r.out = text ELSE \A i \in 1 .. line.quit : i \in DOMAIN r.out /\ i \in DOMAIN text => r.out[i] = text[i]
\* What scripts mean: each line in its turn, up to one that fails and may not, which ends them all.
RECURSIVE RefLines(_, _)
RECURSIVE RefFiles(_, _)
RunsNothing(env, ok) == [ok |-> ok, env |-> env, ran |-> <<>>]
Then(a, b) == [b EXCEPT !.ran = a.ran \o @]
RefLine(l, env) ==
    CASE l.cmd = "bad" -> RunsNothing(env, FALSE)
      [] l.cmd = "comment" -> RunsNothing(env, TRUE)
      [] l.cmd = "include" -> Then([ran |-> <<<<l.cmd, l.args>>>>], RefFiles(l.args, env))
      [] OTHER -> [ok |-> Do(l.cmd, l.args, env).ok, env |-> Do(l.cmd, l.args, env).env, ran |-> <<<<l.cmd, l.args>>>>]
RefLines(ls, env) ==
    IF ls = <<>> THEN RunsNothing(env, TRUE)
    ELSE LET r == RefLine(Text9(Head(ls)), env) IN
         IF r.ok \/ (SL_IGNOREERR(Head(ls)) /\ Head(ls).cmd # "bad") THEN Then(r, RefLines(Tail(ls), r.env)) ELSE r
RefFiles(fs, env) ==
    IF fs = <<>> THEN RunsNothing(env, TRUE)
    ELSE IF Head(fs) \notin DOMAIN Scripts \/ Head(fs) = mfail THEN RunsNothing(env, FALSE)
    ELSE LET r == RefLines(Kept(Head(fs)), env) IN IF r.ok THEN Then(r, RefFiles(Tail(fs), r.env)) ELSE r
Plain9(env) == [x \in DOMAIN env \ {"prompt", "interpret"} |-> env[x]]
RefSession ==
    LET rc == RefFiles(<<"loader.rc">>, ("loaddev" :> "disk"))
        start == IF rc.ok THEN rc ELSE Then(rc, RefFiles(<<"boot.conf">>, rc.env))
    IN  FoldLeft(LAMBDA s, l : Then(s, RefLine(l, s.env)), start, line)
Included == \E i \in DOMAIN ran : ran[i][1] = "include"
\* No string of parse is used after it was freed, but for the name of an include that fails after one of
\* its lines was parsed, in the message about it (interp.c:136, 307).  Scripts run as they read; when the
\* prompt is back nothing is left in memory.
ScriptsRight ==
    /\ dangling \subseteq IF ~forth /\ Included THEN {"name"} ELSE {}
    /\ shpc = "prompt" => /\ stack9 = <<>> /\ heap9 = 0 /\ sourceID = "user" /\ (mfail = "never" => fds9 = 0)
                          /\ ran = RefSession.ran /\ Plain9(envt) = Plain9(RefSession.env)
\* The command line: words, help and scripts are what the user wrote, and no command uses arguments that
\* are gone; only a message may (ScriptsRight).
ShellSafe == ParseRight /\ HelpRight /\ ScriptsRight
=============================================================================
