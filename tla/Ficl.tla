-------------------------------- MODULE Ficl --------------------------------
(***************************************************************************)
(* The Forth interpreter of the loader: boot/ficl/{vm,words,dict,stack,     *)
(* ficl,search}.c.                                                          *)
(*                                                                         *)
(* bf_run() hands one line at a time to ficlExec(), which runs the inner    *)
(* loop until an exception ends it.  EVALUATE, CATCH and user parse steps   *)
(* start inner loops within inner loops; `calls' is that C stack.  A word   *)
(* under construction, the search order and the stacks outlive the line and *)
(* have to survive every way out of it.                                     *)
(***************************************************************************)
EXTENDS Integers, Sequences, FiniteSets, SequencesExt, TLC

CONSTANTS Lines,        \* input lines: sequences of tokens
          Texts,        \* named strings: what s" leaves and EVALUATE reads
          Numbers,      \* tokens that ficlParseNumber accepts
          VOCS,         \* FICL_DEFAULT_VOCS
          MaxStack, MaxLocals,
          MaxBody, MaxWords, MaxLines \* bounds of the model

VARIABLES vm,           \* FICL_VM
          sys,          \* FICL_SYSTEM and its dictionaries
          calls,        \* active ficlExecC, ficlCatch and ficlExecXT
          exc,          \* exception on its way (longjmp), or none
          answer,       \* what the last line returned
          nlines
ficlvars == <<vm, sys, calls, exc, answer, nlines>>

None == "none"
\* Cells: a number, a tag, an address in the word being compiled, an execution
\* token, a saved ip or frame, an operand yet to be filled in.
N(k) == <<"n", k>>
Tag(t) == <<"tag", t>>
Here(i) == <<"here", i>>
W(name) == <<"w", name>>
U(k) == <<"u", k>>
Hole == <<"hole", 0>>
InterpLoop == <<0, 1>>          \* pInterp
ExitInner == <<-1, 1>>          \* pExitInner
NullIP == <<-2, 0>>

-----------------------------------------------------------------------------
(* Primitives on the state S = [vm, sys, calls, exc].  Nothing happens after *)
(* a longjmp: each leaves a state with an exception as it is.                *)

Ok(S, T) == IF S.exc # None THEN S ELSE T
vmThrow(S, e) == Ok(S, [S EXCEPT !.exc = e])
vmThrowErr(S) == vmThrow(S, "ERREXIT")
vmPush(S, c) == Ok(S, [S EXCEPT !.vm.ps = Append(@, c)])
Drop(S, n) == Ok(S, [S EXCEPT !.vm.ps = SubSeq(@, 1, Len(@) - n)])
Top(S, n) == S.vm.ps[Len(S.vm.ps) - n]        \* stackFetch
vmCheckStack(S, pop, push) ==
    Ok(S, IF Len(S.vm.ps) < pop \/ Len(S.vm.ps) - pop + push > MaxStack THEN vmThrowErr(S) ELSE S)
vmPushIP(S, ip) == Ok(S, [S EXCEPT !.vm.rs = Append(@, <<"ip", S.vm.ip>>), !.vm.ip = ip])
vmPopIP(S) ==
    Ok(S, IF S.vm.rs # <<>> /\ Last(S.vm.rs)[1] = "ip" THEN [S EXCEPT !.vm.ip = Last(S.vm.rs)[2], !.vm.rs = Front(@)]
          ELSE [S EXCEPT !.vm.ip = NullIP])
vmBranchRelative(S, n) == [S EXCEPT !.vm.ip = <<@[1], @[2] + n>>]
Operand(S) == S.sys.words[S.vm.ip[1]].body[S.vm.ip[2]]
RPush(S, c) == Ok(S, [S EXCEPT !.vm.rs = Append(@, c)])
RDrop(S, n) == Ok(S, [S EXCEPT !.vm.rs = SubSeq(@, 1, Len(@) - n)])
RTop(S, n) == S.vm.rs[Len(S.vm.rs) - n]

\* vmGetWord0 and vmGetWord: at the end of the line the word is run again with the next one.
HasWord(S) == S.vm.tib.at <= Len(S.vm.tib.text)
Word(S) == S.vm.tib.text[S.vm.tib.at]
Parsed(S) == Ok(S, IF HasWord(S) THEN [S EXCEPT !.vm.tib.at = @ + 1] ELSE vmThrow(S, "RESTART"))

-----------------------------------------------------------------------------
(* The dictionary. *)

Body(S) == Last(S.sys.words).body
dictAppendCell(S, c) == Ok(S, [S EXCEPT !.sys.words[Len(S.sys.words)].body = Append(@, c)])
Patch(S, i, c) == Ok(S, [S EXCEPT !.sys.words[Len(S.sys.words)].body[i] = c])
dictAppendWord2(S, name, code, smudged) ==
    Ok(S, [S EXCEPT !.sys.words = Append(@, [name |-> name, code |-> code, smudged |-> smudged, immediate |-> FALSE,
                                            body |-> <<>>, wid |-> S.sys.current])])
\* Mutant of dictAbortDefinition: the unfinished word stays.
dictAbortDefinitionNot(S) == S
dictAbortDefinition(S) ==
    IF S.sys.words # <<>> /\ Last(S.sys.words).smudged THEN [S EXCEPT !.sys.words = Front(@)] ELSE S
dictUnsmudge(S) ==
    Ok(S, [S EXCEPT !.sys.words[Len(S.sys.words)].smudged = FALSE, !.sys.words[Len(S.sys.words)].wid = S.sys.current])
dictResetSearchOrder(S) == [S EXCEPT !.sys.order = <<"forth">>, !.sys.current = "forth"]
\* dictLookup: the last list of the order first; in a list the newest word that is finished.
InList(S, name, wid) ==
    {k \in DOMAIN S.sys.words : S.sys.words[k].name = name /\ S.sys.words[k].wid = wid /\ ~S.sys.words[k].smudged}
Newest(ks) == CHOOSE k \in ks : \A j \in ks : j <= k
dictLookup(S, name, builtin) ==
    LET lists == {i \in DOMAIN S.sys.order : InList(S, name, S.sys.order[i]) # {}} IN
    IF lists # {} THEN U(Newest(InList(S, name, S.sys.order[Newest(lists)])))
    ELSE IF builtin /\ \E i \in DOMAIN S.sys.order : S.sys.order[i] = "forth" THEN W(name) ELSE <<"nil", 0>>
dictCheck(S) == IF Len(S.sys.order) > VOCS THEN vmThrowErr(dictResetSearchOrder(S)) ELSE S

-----------------------------------------------------------------------------
(* Control structures: what is still open is kept on the data stack, tagged. *)

markControlTag(S, t) == vmPush(S, Tag(t))
markBranch(S, t) == markControlTag(vmPush(S, Here(Len(Body(S)) + 1)), t)
\* Mutant of matchControlTag: the tag is not compared.
matchControlTagAny(S, t) == Drop(vmCheckStack(S, 1, 0), 1)
matchControlTag(S, t) ==
    LET T == vmCheckStack(S, 1, 0) IN
    Ok(T, IF Top(T, 0) = Tag(t) THEN Drop(T, 1) ELSE vmThrowErr(Drop(T, 1)))
\* The address below the tag, after the tag was matched.
Addr(S) == IF S.exc = None /\ Len(S.vm.ps) > 0 /\ Top(S, 0)[1] = "here" THEN Top(S, 0)[2] ELSE 1
resolveBackBranch(S, t) ==
    LET T == matchControlTag(S, t) IN dictAppendCell(Drop(T, 1), N(Addr(T) - (Len(Body(S)) + 1)))
resolveForwardBranch(S, t) ==
    LET T == matchControlTag(S, t) IN Patch(Drop(T, 1), Addr(T), N(Len(Body(S)) + 1 - Addr(T)))
\* A tag that does not match is only warned of.
resolveAbsBranch(S, t) == LET T == Drop(vmCheckStack(S, 2, 0), 1) IN Patch(Drop(T, 1), Addr(T), <<"abs", Len(Body(S)) + 1>>)
Compile(S, w) == dictAppendCell(S, W(w))

Comment(S) == [S EXCEPT !.vm.tib.at = Len(S.vm.tib.text) + 1]
ifCoIm(S) == dictAppendCell(markBranch(Compile(S, "(branch0)"), "orig"), Hole)
elseCoIm(S) ==
    LET T == matchControlTag(Compile(S, "(branch)"), "orig") IN
    Patch(dictAppendCell(markBranch(Drop(T, 1), "orig"), Hole), Addr(T), N(Len(Body(S)) + 3 - Addr(T)))
endifCoIm(S) == resolveForwardBranch(S, "orig")
beginCoIm(S) == markBranch(S, "dest")
untilCoIm(S) == resolveBackBranch(Compile(S, "(branch0)"), "dest")
againCoIm(S) == resolveBackBranch(Compile(S, "(branch)"), "dest")
twoSwap(S) ==
    LET T == vmCheckStack(S, 4, 4)
        n == Len(T.vm.ps) IN
    Ok(T, [T EXCEPT !.vm.ps = SubSeq(@, 1, n - 4) \o SubSeq(@, n - 1, n) \o SubSeq(@, n - 3, n - 2)])
whileCoIm(S) == dictAppendCell(twoSwap(markBranch(Compile(S, "(branch0)"), "orig")), Hole)
repeatCoIm(S) == resolveForwardBranch(resolveBackBranch(Compile(S, "(branch)"), "dest"), "orig")
doCoIm(S, run) == markBranch(dictAppendCell(markBranch(Compile(S, run), "leave"), Hole), "do")
loopCoIm(S, run) == resolveAbsBranch(resolveBackBranch(Compile(S, run), "do"), "leave")

\* CASE keeps the number of branches to be resolved by ENDCASE below its tag.
caseCoIm(S) == markControlTag(vmPush(vmCheckStack(S, 0, 2), N(0)), "case")
Fallthrough(S) == Len(S.vm.ps) > 0 /\ Top(S, 0) = Tag("fallthrough")
ofCoIm(S) ==
    LET S0 == vmCheckStack(S, 1, 3)
        fall == S0.exc = None /\ Fallthrough(S0)
        S1 == IF fall THEN Drop(S0, 1) ELSE S0
        S2 == markControlTag(matchControlTag(IF fall THEN Drop(S1, 1) ELSE S1, "case"), "case")
        S3 == dictAppendCell(markBranch(Compile(S2, "(of)"), "of"), Hole) IN
    IF fall THEN Patch(S3, Addr(S1), N(Len(Body(S)) + 3 - Addr(S1))) ELSE S3
endofCoIm(S) ==
    LET T == matchControlTag(vmCheckStack(S, 4, 3), "of")
        V == matchControlTag(Drop(T, 1), "case")
        count == IF V.exc = None THEN Top(V, 0)[2] ELSE 0
        X == Compile(Drop(V, 1), "(branch)")
        Y == markControlTag(vmPush(vmPush(X, Here(Len(Body(S)) + 2)), N(count + 1)), "case") IN
    Patch(dictAppendCell(Y, Hole), Addr(T), N(Len(Body(S)) + 3 - Addr(T)))
fallthroughCoIm(S) ==
    LET T == matchControlTag(vmCheckStack(S, 4, 3), "of")
        V == Compile(markControlTag(matchControlTag(Drop(T, 1), "case"), "case"), "(branch)")
        X == markControlTag(vmPush(V, Here(Len(Body(S)) + 2)), "fallthrough") IN
    Patch(dictAppendCell(X, Hole), Addr(T), N(Len(Body(S)) + 3 - Addr(T)))
endcaseCoIm(S) ==
    LET fall == Fallthrough(S)
        below == Drop(S, 2)
        \* the branch left open by FALLTHROUGH joins those that are counted
        S0 == IF ~fall THEN S
              ELSE LET T == matchControlTag(below, "case") IN
                   Ok(T, markControlTag(vmPush(vmPush(Drop(T, 1), Top(S, 1)), N(Top(T, 0)[2] + 1)), "case"))
        T == vmCheckStack(matchControlTag(S0, "case"), 1, 0)
        n == IF T.exc = None THEN Top(T, 0)[2] ELSE 0
        V == Compile(vmCheckStack(Drop(T, 1), n, 0), "drop")
        at == {Top(V, i)[2] : i \in 0 .. n - 1} IN
    Ok(V, [Drop(V, n) EXCEPT !.sys.words[Len(S.sys.words)].body =
              [i \in DOMAIN @ |-> IF i \in at THEN N(Len(Body(V)) + 1 - i) ELSE @[i]]])

-----------------------------------------------------------------------------
(* Run-time words.  ip is past the cell that was fetched. *)

Flag(b) == N(IF b THEN -1 ELSE 0)
IsZero(c) == c = N(0)
branchParen(S) == vmBranchRelative(S, Operand(S)[2])
branch0(S) ==
    LET T == vmCheckStack(S, 1, 0) IN
    Ok(T, IF IsZero(Top(T, 0)) THEN branchParen(Drop(T, 1)) ELSE vmBranchRelative(Drop(T, 1), 1))
ofParen(S) ==
    LET T == vmCheckStack(S, 2, 1) IN
    Ok(T, IF Top(T, 0) = Top(T, 1) THEN vmBranchRelative(Drop(T, 2), 1) ELSE branchParen(Drop(T, 1)))
\* The address after the loop, the limit and the index go to the return stack.
doParen(S) ==
    LET T == vmCheckStack(S, 2, 0) IN
    Ok(T, [vmBranchRelative(Drop(T, 2), 1) EXCEPT
              !.vm.rs = @ \o <<<<"ip", <<S.vm.ip[1], Operand(S)[2]>>>>, Top(T, 1), Top(T, 0)>>])
qDoParen(S) ==
    LET T == vmCheckStack(S, 2, 0) IN
    Ok(T, IF Top(T, 0) = Top(T, 1) THEN [Drop(T, 2) EXCEPT !.vm.ip = <<@[1], Operand(S)[2]>>] ELSE doParen(S))
leaveCo(S) == vmPopIP(RDrop(S, 2))
unloopCo(S) == RDrop(S, 3)
Stepped(S, by) ==
    LET index == RTop(S, 0)[2] + by
        limit == RTop(S, 1)[2] IN
    IF (by < 0 /\ index < limit) \/ (by >= 0 /\ index >= limit) THEN vmBranchRelative(RDrop(S, 3), 1)
    ELSE branchParen(RPush(RDrop(S, 1), N(index)))
loopParen(S) == Stepped(S, 1)
plusLoopParen(S) == LET T == vmCheckStack(S, 1, 0) IN Ok(T, Stepped(Drop(T, 1), Top(T, 0)[2]))
loopICo(S, n) == vmPush(S, RTop(S, 3 * n))
toRStack(S) == LET T == vmCheckStack(S, 1, 0) IN Ok(T, RPush(Drop(T, 1), Top(T, 0)))
fromRStack(S) == vmPush(RDrop(vmCheckStack(S, 0, 1), 1), RTop(S, 0))
fetchRStack(S) == vmPush(vmCheckStack(S, 0, 1), RTop(S, 0))
literalParen(S) == vmBranchRelative(vmPush(vmCheckStack(S, 0, 1), Operand(S)), 1)

\* Words that only rearrange or combine the cells on the data stack.
Pops == [drop |-> 1, dup |-> 1, over |-> 2, swap |-> 2, rot |-> 3]
Shuffled(w, x) ==
    CASE w = "drop" -> <<>>
      [] w = "dup" -> <<x[1], x[1]>>
      [] w = "over" -> <<x[1], x[2], x[1]>>
      [] w = "swap" -> <<x[2], x[1]>>
      [] w = "rot" -> <<x[2], x[3], x[1]>>
Shuffle(S, w) ==
    LET k == Pops[w]
        n == Len(S.vm.ps)
        T == vmCheckStack(S, k, Len(Shuffled(w, [i \in 1 .. k |-> 0]))) IN
    Ok(T, [T EXCEPT !.vm.ps = SubSeq(@, 1, n - k) \o Shuffled(w, SubSeq(@, n - k + 1, n))])
Binary(S, w) ==
    LET T == vmCheckStack(S, 2, 1)
        a == Top(T, 1)[2]
        b == Top(T, 0)[2] IN
    Ok(T, vmPush(Drop(T, 2), CASE w = "+" -> N(a + b) [] w = "-" -> N(a - b) [] w = "=" -> Flag(a = b) [] w = "<" -> Flag(a < b)))
zeroEquals(S) == LET T == vmCheckStack(S, 1, 1) IN Ok(T, vmPush(Drop(T, 1), Flag(IsZero(Top(T, 0)))))
\* Variables and the cells of a created word: an address is a word and a cell.
fetch(S) ==
    LET T == vmCheckStack(S, 1, 1) IN Ok(T, vmPush(Drop(T, 1), S.sys.words[Top(T, 0)[2]].body[Top(T, 0)[3]]))
store(S) ==
    LET T == vmCheckStack(S, 2, 0) IN Ok(T, [Drop(T, 2) EXCEPT !.sys.words[Top(T, 0)[2]].body[Top(T, 0)[3]] = Top(T, 1)])
comma(S) == LET T == vmCheckStack(S, 1, 0) IN Ok(T, dictAppendCell(Drop(T, 1), Top(T, 0)))

\* Locals: a frame on the return stack below the values.
stackLink(S, n) ==
    [S EXCEPT !.vm.rs = @ \o <<<<"fp", S.vm.fp>>>> \o [i \in 1 .. n |-> N(0)], !.vm.fp = Len(S.vm.rs) + 1]
stackUnlink(S) ==
    IF S.vm.fp \in 1 .. Len(S.vm.rs) /\ S.vm.rs[S.vm.fp][1] = "fp"
    THEN [S EXCEPT !.vm.fp = S.vm.rs[S.vm.fp][2], !.vm.rs = SubSeq(@, 1, S.vm.fp - 1)]
    ELSE [S EXCEPT !.vm.ip = NullIP]
linkParen(S) == stackLink(vmBranchRelative(S, 1), Operand(S)[2])
getLocalParen(S) == vmPush(vmBranchRelative(S, 1), S.vm.rs[S.vm.fp + 1 + Operand(S)[2]])
\* Nothing checks that there is a cell to take: below the stack lies its own header, and
\* what the machine does with that is not followed (wild).
toLocalParen(S) ==
    IF S.vm.ps = <<>> THEN [vmBranchRelative(S, 1) EXCEPT !.vm.wild = TRUE]
    ELSE [Drop(vmBranchRelative(S, 1), 1) EXCEPT !.vm.rs[S.vm.fp + 1 + Operand(S)[2]] = Top(S, 0)]

-----------------------------------------------------------------------------
(* Defining and compiling words. *)

NoLocals(S) == [S EXCEPT !.sys.locals = <<>>]    \* dictEmpty(localp)
colon(S) ==
    LET T == Parsed(S) IN
    Ok(T, [dictAppendWord2(markControlTag([T EXCEPT !.vm.state = "COMPILE"], "colon"), Word(S), "colon", TRUE)
              EXCEPT !.sys.nLocals = 0])
\* The names of the locals and the code that unlinks them go with the definition.
Unlink(S) == IF S.sys.nLocals > 0 THEN Compile(NoLocals(S), "(unlink)") ELSE S
semicolonCoIm(S) ==
    LET T == matchControlTag(S, "colon") IN
    Ok(T, dictUnsmudge([Compile([Unlink(T) EXCEPT !.sys.nLocals = 0], "(;)") EXCEPT !.vm.state = "INTERPRET"]))
exitCoIm(S) == Compile(IF S.sys.nLocals > 0 THEN Compile(S, "(unlink)") ELSE S, "(exit)")
\* :NONAME leaves its execution token below the tag, and nLocals as it is.
colonNoName(S) ==
    LET T == dictAppendWord2([S EXCEPT !.vm.state = "COMPILE"], "", "colon", TRUE) IN
    markControlTag(vmPush(T, U(Len(T.sys.words))), "colon")
Defining(S, code, cells) ==
    LET T == Parsed(S) IN Ok(T, [dictAppendWord2(T, Word(S), code, FALSE) EXCEPT !.sys.words[Len(T.sys.words) + 1].body = cells])
create(S) == Defining(S, "create", <<N(0)>>)
variable(S) == Defining(S, "variable", <<N(0)>>)
constant(S) == LET T == vmCheckStack(Parsed(S), 1, 0) IN Ok(T, Drop(Defining(S, "constant", <<Top(T, 0)>>), 1))
doesCoIm(S) == Compile([Unlink(S) EXCEPT !.sys.nLocals = 0], "(does>)")
doesParen(S) ==
    vmPopIP([S EXCEPT !.sys.words[Len(S.sys.words)].code = "does", !.sys.words[Len(S.sys.words)].body[1] = <<"ip", S.vm.ip>>])
literalIm(S) == Drop(dictAppendCell(Compile(S, "(literal)"), Top(S, 0)), 1)
immediate(S) == [S EXCEPT !.sys.words[Len(S.sys.words)].immediate = TRUE]
recurseCoIm(S) == dictAppendCell(S, U(Len(S.sys.words)))
\* (local) by way of the soft words LOCAL name and END-LOCALS.
localParen(S) ==
    LET T == Parsed(S)
        n == S.sys.nLocals IN
    Ok(T, IF n >= MaxLocals THEN vmThrowErr(T)
          ELSE LET V == IF n > 0 THEN T
                        ELSE [dictAppendCell(Compile(T, "(link)"), Hole) EXCEPT !.sys.mark = Len(Body(S)) + 2] IN
               [dictAppendCell(Compile(V, "(toLocal)"), N(n)) EXCEPT
                   !.sys.locals = Append(@, Word(S)), !.sys.nLocals = n + 1])
endLocals(S) == IF S.sys.nLocals > 0 THEN Patch(S, S.sys.mark, N(S.sys.nLocals)) ELSE S
doLocalIm(S, i) == dictAppendCell(Compile(S, "(@local)"), N(i - 1))

-----------------------------------------------------------------------------
(* Exceptions and nested inner loops. *)

Call(S, f) == Ok(S, [S EXCEPT !.calls = Append(@, f)])
\* Mutant of Caught: only the data stack is put back.
CaughtHalf(S, f) == [S EXCEPT !.vm.ps = f.vm.ps]
\* The copies of the FICL_VM and of both stack headers are put back; what was
\* pushed on the stacks below their old tops stays.
Restored(old, now) == [i \in DOMAIN old |-> IF i \in DOMAIN now THEN now[i] ELSE old[i]]
Caught(S, f) == [S EXCEPT !.vm = [f.vm EXCEPT !.ps = Restored(f.vm.ps, S.vm.ps), !.rs = Restored(f.vm.rs, S.vm.rs)]]
ficlThrow(S) == IF IsZero(Top(S, 0)) THEN Drop(S, 1)
                ELSE vmThrow(Drop(S, 1), IF Top(S, 0)[1] = "exc" THEN Top(S, 0)[2] ELSE "USER")
refill(S) == IF S.vm.sourceID = 0 /\ ~S.vm.fRestart THEN vmThrow(S, "RESTART") ELSE vmPush(S, Flag(S.vm.sourceID = 0))

\* vmPushTib, and the frame ficlExecC comes back to.
Exec(S, text, nested) ==
    Call([S EXCEPT !.vm.tib = [text |-> text, at |-> 1], !.vm.sourceID = IF nested THEN -1 ELSE @],
         [k |-> "execC", tib |-> S.vm.tib, nested |-> nested, sourceID |-> S.vm.sourceID])
evaluate(S) == LET T == vmCheckStack(S, 2, 0) IN Ok(T, vmPushIP(Exec(Drop(T, 2), Texts[Top(T, 1)[2]], TRUE), InterpLoop))
stringQuoteIm(S) ==
    LET T == Parsed(S)
        s == <<"str", Word(S)>> IN
    Ok(T, IF S.vm.state = "INTERPRET" THEN vmPush(vmPush(T, s), N(Len(Texts[Word(S)])))
          ELSE dictAppendCell(Compile(dictAppendCell(Compile(T, "(literal)"), s), "(literal)"), N(Len(Texts[Word(S)]))))

-----------------------------------------------------------------------------
(* Search order. *)

searchPush(S) == LET T == vmCheckStack(S, 1, 0) IN
    Ok(T, IF Len(S.sys.order) > VOCS THEN vmThrowErr(T) ELSE [Drop(T, 1) EXCEPT !.sys.order = Append(@, Top(T, 0)[2])])
searchPop(S) == IF S.sys.order = <<>> THEN vmThrowErr(S) ELSE [vmPush(S, <<"wid", Last(S.sys.order)>>) EXCEPT !.sys.order = Front(@)]
definitions(S) == IF S.sys.order = <<>> THEN vmThrowErr(S) ELSE [S EXCEPT !.sys.current = Last(S.sys.order)]

-----------------------------------------------------------------------------
(* Execution and the outer interpreter. *)

CompImmed == {"if", "else", "then", "begin", "until", "again", "while", "repeat", "do", "?do", "loop", "+loop", "case", "of",
              "endof", "fallthrough", "endcase", ";", "exit", "does>", "recurse", "literal", "postpone", "[']"}
CompOnly == CompImmed \union {">r", "r>", "r@", "i", "j", "leave", "unloop"}
Immediate == CompImmed \union {"s\"", "\\", "local", "end-locals", "to"}
Words == CompOnly \union Immediate \union DOMAIN Pops \union
         {"+", "-", "=", "<", "0=", "@", "!", ",", ":", ":noname", "create", "variable", "constant", "immediate", "execute", "'",
          "evaluate", "catch", "throw", "refill", "quit", "abort", ">search", "search>", "definitions", "wordlist",
          "forth-wordlist", "add-parse-step"}

ficlTick(S) ==
    LET T == Parsed(S)
        xt == dictLookup(S, Word(S), Word(S) \in Words) IN
    Ok(T, IF xt[1] = "nil" THEN vmThrowErr(T) ELSE vmPush(vmCheckStack(T, 0, 1), xt))
wordIsImmediate(S, xt) == IF xt[1] = "u" THEN S.sys.words[xt[2]].immediate ELSE xt[2] \in Immediate
postponeCoIm(S) ==
    LET T == ficlTick(S) IN
    Ok(T, IF wordIsImmediate(T, Top(T, 0)) THEN Drop(dictAppendCell(T, Top(T, 0)), 1) ELSE Compile(literalIm(T), ","))
\* TO name: now, or compiled as an address and a store.
toValue(S) ==
    LET T == Parsed(S)
        local == {i \in DOMAIN S.sys.locals : S.sys.locals[i] = Word(S)}
        xt == dictLookup(S, Word(S), FALSE) IN
    Ok(T, IF S.sys.nLocals > 0 /\ S.vm.state = "COMPILE" /\ local # {} THEN dictAppendCell(Compile(T, "(toLocal)"), N(Newest(local) - 1))
          ELSE IF xt[1] = "nil" THEN vmThrowErr(T)
          ELSE IF S.vm.state = "INTERPRET" THEN [Drop(T, 1) EXCEPT !.sys.words[xt[2]].body[1] = Top(T, 0)]
          ELSE Compile(dictAppendCell(Compile(T, "(literal)"), <<"adr", xt[2], 1>>), "!"))

\* A compiling word.
Compiling(S, w) ==
    CASE w = "if" -> ifCoIm(S) [] w = "else" -> elseCoIm(S) [] w = "then" -> endifCoIm(S)
      [] w = "begin" -> beginCoIm(S) [] w = "until" -> untilCoIm(S) [] w = "again" -> againCoIm(S)
      [] w = "while" -> whileCoIm(S) [] w = "repeat" -> repeatCoIm(S)
      [] w = "do" -> doCoIm(S, "(do)") [] w = "?do" -> doCoIm(S, "(?do)")
      [] w = "loop" -> loopCoIm(S, "(loop)") [] w = "+loop" -> loopCoIm(S, "(+loop)")
      [] w = "case" -> caseCoIm(S) [] w = "of" -> ofCoIm(S) [] w = "endof" -> endofCoIm(S)
      [] w = "fallthrough" -> fallthroughCoIm(S) [] w = "endcase" -> endcaseCoIm(S)
      [] w = ";" -> semicolonCoIm(S) [] w = "exit" -> exitCoIm(S) [] w = "does>" -> doesCoIm(S)
      [] w = "recurse" -> recurseCoIm(S) [] w = "literal" -> literalIm(S) [] w = "postpone" -> postponeCoIm(S)
      [] w = "[']" -> LET T == ficlTick(S) IN Ok(T, literalIm(T))
\* Run-time halves of compiling words and words of the return stack.
Runtime(S, w) ==
    CASE w = "(branch)" -> branchParen(S) [] w = "(branch0)" -> branch0(S) [] w = "(of)" -> ofParen(S)
      [] w = "(do)" -> doParen(S) [] w = "(?do)" -> qDoParen(S) [] w = "(loop)" -> loopParen(S) [] w = "(+loop)" -> plusLoopParen(S)
      [] w \in {"(;)", "(exit)"} -> vmPopIP(S) [] w = "(literal)" -> literalParen(S) [] w = "(does>)" -> doesParen(S)
      [] w = "(link)" -> linkParen(S) [] w = "(unlink)" -> stackUnlink(S)
      [] w = "(@local)" -> getLocalParen(S) [] w = "(toLocal)" -> toLocalParen(S)
      [] w = ">r" -> toRStack(S) [] w = "r>" -> fromRStack(S) [] w = "r@" -> fetchRStack(S)
      [] w = "i" -> loopICo(S, 0) [] w = "j" -> loopICo(S, 1) [] w = "leave" -> leaveCo(S) [] w = "unloop" -> unloopCo(S)
Runtimes == {"(branch)", "(branch0)", "(of)", "(do)", "(?do)", "(loop)", "(+loop)", "(;)", "(exit)", "(literal)", "(does>)",
             "(link)", "(unlink)", "(@local)", "(toLocal)", ">r", "r>", "r@", "i", "j", "leave", "unloop"}
Plain(S, w) ==
    CASE w \in DOMAIN Pops -> Shuffle(S, w) [] w \in {"+", "-", "=", "<"} -> Binary(S, w) [] w = "0=" -> zeroEquals(S)
      [] w = "@" -> fetch(S) [] w = "!" -> store(S) [] w = "," -> comma(S)
      [] w = ":" -> colon(S) [] w = ":noname" -> colonNoName(S) [] w = "create" -> create(S) [] w = "variable" -> variable(S)
      [] w = "constant" -> constant(S) [] w = "immediate" -> immediate(S) [] w = "'" -> ficlTick(S) [] w = "to" -> toValue(S)
      [] w = "local" -> localParen(S) [] w = "end-locals" -> endLocals(S) [] w = "\\" -> Comment(S) [] w = "s\"" -> stringQuoteIm(S)
      [] w = "evaluate" -> evaluate(S) [] w = "throw" -> ficlThrow(S) [] w = "refill" -> refill(S)
      [] w = "quit" -> vmThrow(S, "QUIT") [] w = "abort" -> vmThrow(S, "ABORT")
      [] w = ">search" -> searchPush(S) [] w = "search>" -> searchPop(S) [] w = "definitions" -> definitions(S)
      [] w = "wordlist" -> vmPush(S, <<"wid", "other">>) [] w = "forth-wordlist" -> vmPush(S, <<"wid", "forth">>)
      [] w = "add-parse-step" -> [Drop(S, 1) EXCEPT !.sys.steps = Append(@, Top(S, 0))]

\* vmExecute of a word that starts no other word.
Run(S, xt) ==
    LET R == [S EXCEPT !.vm.runningWord = xt]
        k == xt[2] IN
    IF xt[1] = "w" THEN IF k \in CompImmed THEN Compiling(R, k) ELSE IF k \in Runtimes THEN Runtime(R, k) ELSE Plain(R, k)
    ELSE LET u == S.sys.words[k] IN
         CASE u.code = "colon" -> vmPushIP(R, <<k, 1>>)
           [] u.code = "create" -> vmPush(R, <<"adr", k, 2>>)
           [] u.code = "variable" -> vmPush(R, <<"adr", k, 1>>)
           [] u.code = "constant" -> vmPush(R, u.body[1])
           [] u.code = "does" -> vmPushIP(vmPush(R, <<"adr", k, 2>>), u.body[1][2])
ficlCatch(S) ==
    LET T == vmCheckStack(S, 1, 0)
        V == Drop(T, 1) IN
    Ok(T, Run(vmPushIP(Call(V, [k |-> "catch", vm |-> V.vm]), ExitInner), Top(T, 0)))
vmExecute(S, xt) ==
    IF xt = W("execute") THEN LET T == vmCheckStack(S, 1, 0) IN Ok(T, Run(Drop(T, 1), Top(T, 0)))
    ELSE IF xt = W("catch") THEN ficlCatch([S EXCEPT !.vm.runningWord = xt])
    ELSE Run(S, xt)

\* After the dictionary come the parse steps, ?number last.
ficlParseNumber(S, tok) ==
    IF tok \notin DOMAIN Numbers THEN vmThrowErr(S)
    ELSE IF S.vm.state = "COMPILE" THEN literalIm(vmPush(S, N(Numbers[tok]))) ELSE vmPush(S, N(Numbers[tok]))
ficlExecXT(S, xt, tok) == Run(vmPushIP(Call(S, [k |-> "execXT", tok |-> tok, runningWord |-> S.vm.runningWord]), ExitInner), xt)
ficlParseWord(S, tok) ==
    LET T == vmCheckStack(dictCheck(S), 0, 0)
        local == {i \in DOMAIN S.sys.locals : S.sys.nLocals > 0 /\ S.sys.locals[i] = tok}
        xt == dictLookup(S, tok, tok \in Words) IN
    Ok(T, IF local # {} THEN doLocalIm(T, Newest(local))
          ELSE IF xt[1] # "nil" THEN
               IF S.vm.state = "INTERPRET" THEN IF xt[1] = "w" /\ xt[2] \in CompOnly THEN vmThrowErr(T) ELSE vmExecute(T, xt)
               ELSE IF wordIsImmediate(S, xt) THEN vmExecute(T, xt) ELSE dictAppendCell(T, xt)
          ELSE IF S.sys.steps # <<>> THEN ficlExecXT(vmPush(vmPush(T, <<"str", tok>>), N(1)), S.sys.steps[1], tok)
          ELSE ficlParseNumber(T, tok))
interpret(S) == IF HasWord(S) THEN ficlParseWord(Parsed(S), Word(S)) ELSE vmThrow(S, "OUTOFTEXT")

-----------------------------------------------------------------------------
(* Actions. *)

Now == [vm |-> vm, sys |-> sys, calls |-> calls, exc |-> exc]
Become(S) == vm' = S.vm /\ sys' = S.sys /\ calls' = S.calls /\ exc' = S.exc
Valid(S) == S.vm.ip[1] \in DOMAIN S.sys.words /\ S.vm.ip[2] \in DOMAIN S.sys.words[S.vm.ip[1]].body

\* One word of the inner loop.
Step ==
    /\ calls # <<>> /\ exc = None /\ ~vm.wild
    /\ \E S \in {IF vm.ip = InterpLoop THEN interpret([Now EXCEPT !.vm.runningWord = W("interpret")])
                 ELSE IF vm.ip = ExitInner THEN vmThrow(Now, "INNEREXIT")
                 ELSE vmExecute([Now EXCEPT !.vm.ip[2] = @ + 1], sys.words[vm.ip[1]].body[vm.ip[2]])} :
          Become(S)
    /\ UNCHANGED <<answer, nlines>>

\* bf_run and ficlExec: a line is handed over.  A word that ran out of input is run
\* again before anything else.
ficlExec(line) ==
    /\ calls = <<>> /\ nlines < MaxLines /\ Len(sys.words) < MaxWords
    /\ sys.words # <<>> => Len(Last(sys.words).body) < MaxBody
    /\ LET S == Exec(Now, line, FALSE)
           T == Run(S, vm.runningWord) IN
       Become(IF ~vm.fRestart THEN vmPushIP(S, InterpLoop)
              ELSE IF T.exc = None THEN [T EXCEPT !.vm.fRestart = FALSE] ELSE T)
    /\ nlines' = nlines + 1 /\ answer' = "running"

vmQuit(S) == [S EXCEPT !.vm.rs = <<>>, !.vm.fRestart = FALSE, !.vm.ip = NullIP, !.vm.runningWord = <<"nil", 0>>,
                       !.vm.state = "INTERPRET", !.vm.sourceID = 0]
vmReset(S) == [vmQuit(S) EXCEPT !.vm.ps = <<>>]
\* An unfinished definition goes, and its locals with it.
Aborted(S) == IF S.vm.state = "COMPILE" THEN NoLocals(dictAbortDefinition(S)) ELSE S
Handled(S, e) ==
    CASE e = "RESTART" -> [S EXCEPT !.vm.fRestart = TRUE]
      [] e = "OUTOFTEXT" -> vmPopIP(S)
      [] e = "INNEREXIT" -> S
      [] e = "QUIT" -> vmQuit(Aborted(S))
      [] OTHER -> vmReset(dictResetSearchOrder(Aborted(S)))
\* The end of ficlExecC; EVALUATE throws on what it does not know.
ExecReturns(f) ==
    LET S == Handled([Now EXCEPT !.calls = Front(@), !.exc = None], exc)
        T == [S EXCEPT !.vm.tib = f.tib]
        result == IF exc = "RESTART" THEN "OUTOFTEXT" ELSE exc IN
    /\ f.k = "execC"
    /\ IF ~f.nested THEN Become(T) /\ answer' = result
       ELSE LET V == [T EXCEPT !.vm.sourceID = f.sourceID] IN
            Become(IF result # "OUTOFTEXT" THEN vmThrow(V, result) ELSE V) /\ UNCHANGED answer
CatchReturns(f) ==
    LET S == [Now EXCEPT !.calls = Front(@), !.exc = None] IN
    /\ f.k = "catch" /\ UNCHANGED answer
    /\ Become(IF exc = "INNEREXIT" THEN vmPush(vmPopIP(S), N(0)) ELSE vmPush(Caught(S, f), <<"exc", exc>>))
\* A parse step is asked whether it took the word; if not, the next one is.
StepReturns(f) ==
    LET S == vmPopIP([Now EXCEPT !.calls = Front(@), !.exc = None]) IN
    /\ f.k = "execXT" /\ UNCHANGED answer
    /\ IF exc # "INNEREXIT" THEN Become(vmThrow(S, exc))
       ELSE LET T == Drop([S EXCEPT !.vm.runningWord = f.runningWord], 1) IN
            Become(IF IsZero(Top(S, 0)) THEN ficlParseNumber(T, f.tok) ELSE T)
Unwind == /\ exc # None /\ calls # <<>> /\ UNCHANGED nlines
          /\ \/ ExecReturns(Last(calls)) \/ CatchReturns(Last(calls)) \/ StepReturns(Last(calls))

ficlInitSystem ==
    /\ vm = [ps |-> <<>>, rs |-> <<>>, fp |-> 0, ip |-> NullIP, runningWord |-> <<"nil", 0>>, state |-> "INTERPRET",
             tib |-> [text |-> <<>>, at |-> 1], sourceID |-> 0, fRestart |-> FALSE, wild |-> FALSE]
    /\ sys = [words |-> <<>>, order |-> <<"forth">>, current |-> "forth", nLocals |-> 0, locals |-> <<>>, mark |-> 1, steps |-> <<>>]
    /\ calls = <<>> /\ exc = None /\ answer = "OUTOFTEXT" /\ nlines = 0
FiclNext == Step \/ Unwind \/ \E line \in Lines : ficlExec(line)
FiclSpec == ficlInitSystem /\ [][FiclNext]_ficlvars

-----------------------------------------------------------------------------
FiclTypeOK ==
    /\ vm.state \in {"INTERPRET", "COMPILE"} /\ vm.sourceID \in {0, -1} /\ vm.fRestart \in BOOLEAN /\ vm.wild \in BOOLEAN
    /\ Len(vm.ps) <= MaxStack + 4 /\ Len(sys.order) <= VOCS + 1 /\ sys.nLocals \in 0 .. MaxLocals

\* Instructions of a body, as opposed to their operands.
HasOperand(c) == c[1] = "w" /\ c[2] \in {"(branch)", "(branch0)", "(of)", "(do)", "(?do)", "(loop)", "(+loop)", "(literal)",
                                        "(link)", "(@local)", "(toLocal)"}
IsOperand(b, i) ==
    LET op[j \in 1 .. i] == IF j = 1 THEN FALSE ELSE ~op[j - 1] /\ HasOperand(b[j - 1]) IN op[i]
Starts(b) == {i \in DOMAIN b : ~IsOperand(b, i)}
Target(b, i) == IF b[i + 1][1] = "abs" THEN b[i + 1][2] ELSE i + 1 + b[i + 1][2]
\* Whatever order the compiling words come in, with errors, QUIT and the end of a
\* line between them, a definition that can be found has every branch filled in,
\* and each leads to an instruction of the same definition (matchControlTag,
\* resolveBackBranch, resolveForwardBranch, dictAbortDefinition).
BranchesLand ==
    \A k \in DOMAIN sys.words : LET b == sys.words[k].body IN
        sys.words[k].code = "colon" /\ ~sys.words[k].smudged =>
            \A i \in Starts(b) : b[i][1] = "w" /\ HasOperand(b[i]) =>
                /\ b[i + 1] # Hole
                /\ b[i][2] \notin {"(literal)", "(link)", "(@local)", "(toLocal)"} => Target(b, i) \in Starts(b)

\* The inner loop always has an instruction to go on with: exceptions, EVALUATE,
\* CATCH and parse steps leave ip at a word (vmPopIP, ficlExecC, ficlCatch, ficlExecXT).
IpValid ==
    calls # <<>> /\ exc = None =>
        \/ vm.ip \in {InterpLoop, ExitInner}
        \/ Valid(Now) /\ vm.ip[2] \in Starts(sys.words[vm.ip[1]].body)

\* Between lines nothing is left on the return stack, and no word is half compiled
\* unless the line is to be continued (ficlExecC).
LinesClean ==
    calls = <<>> /\ ~vm.fRestart =>
        /\ vm.rs = <<>> /\ vm.ip = NullIP
        /\ sys.words # <<>> /\ Last(sys.words).smudged => vm.state = "COMPILE" \/ answer = "OUTOFTEXT"

\* What was on the return stack when CATCH was called is there as long as its word
\* runs, whatever was caught or aborted in between (ficlCatch, stackLink).
CatchFramesIntact ==
    exc = None => \A i \in DOMAIN calls : calls[i].k = "catch" =>
        LET old == calls[i].vm.rs IN
        /\ Len(old) < Len(vm.rs)
        /\ \A j \in DOMAIN old : old[j][1] \in {"ip", "fp"} => vm.rs[j] = old[j]

\* The stack is left below its base only by a word whose locals find it empty, which nothing
\* checks (words.c:4195-4228); every other word of these lines that takes a cell throws.
StackKept == vm.wild => vm.runningWord = W("(toLocal)") /\ vm.ps = <<>>

\* The interpreter survives every way out of a line; after a local was taken from an
\* empty stack nothing more is said of it.
FiclSafe == FiclTypeOK /\ BranchesLand /\ IpValid /\ LinesClean /\ CatchFramesIntact /\ StackKept
=============================================================================
