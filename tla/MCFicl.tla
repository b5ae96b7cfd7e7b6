------------------------------- MODULE MCFicl -------------------------------
(***************************************************************************)
(* Input for model checking Ficl.  `part' picks the lines of a behaviour:   *)
(* control structures one word per line in any order, or whole definitions  *)
(* and what is done with them.  In the part `math' numbers are divided,      *)
(* printed and read, in the part `words' single words run on a bare machine;   *)
(* what a behaviour is not about rests.                                      *)
(***************************************************************************)
EXTENDS Ficl, FiclMath, FiclWords
CONSTANT MaxOf           \* lines of a behaviour, by part
VARIABLE part

MCTexts == [def |-> <<":", "e", "1", ";">>, bad |-> <<":", "b", "if", "nosuch">>, run |-> <<"1", "throw">>,
            half |-> <<":", "h", "1">>, more |-> <<"w3">>, stop |-> <<"quit">>]
MCNumbers == [n \in {"0", "1", "2"} |-> CASE n = "0" -> 0 [] n = "1" -> 1 [] n = "2" -> 2]
Each(words) == {<<w>> : w \in words} \union {<<":", "x">>}
Loops == Each({"if", "else", "then", "begin", "while", "repeat", "until", "again", "do", "?do", "loop", "+loop", ";", "dup"})
Cases == Each({"if", "then", "case", "of", "endof", "fallthrough", "endcase", ";", "dup"})
\* Exceptions, through EVALUATE and locals, caught and not.
Catching == {
    <<":", "w1", "local", "a", "end-locals", "a", "throw", ";">>, <<":", "w2", "1", "[']", "w1", "catch", "drop", ";">>,
    <<":", "w3", "s\"", "bad", "evaluate", ";">>, <<":", "w4", "[']", "w3", "catch", ";">>,
    <<"w2", "drop">>, <<"1", "w1">>, <<"w4">>, <<"'", "w3", "catch">>, <<"0", "w1">>, <<"w1">>,
    <<"s\"", "half", "evaluate">>, <<"s\"", "stop", "evaluate">>, <<"s\"", "def", "evaluate", "e">>, <<"s\"", "run", "evaluate">>}
\* Input that ends too early, defining words, parse steps, the search order.
Definers == Each({"'", "refill", "w1"}) \union {
        <<":">>, <<":", "m", "local", "a", "nosuch">>,
    <<":", "d", "create", "1", ",", "does>", "@", ";">>, <<"d", "y", "y">>,
    <<":", "st", "drop", "drop", "0", ";">>, <<"'", "st", "add-parse-step", "2">>,
    <<":", "lp", "2", "0", "do", "i", "1", "=", "if", "leave", "then", "loop", ";", "lp">>,
    <<"wordlist", ">search", "definitions">>, <<"search>", "drop">>,
    <<"variable", "v", "1", "v", "!", "v", "@", "constant", "k", "2", "to", "k">>,
    <<":", "im", "postpone", "dup", ";", "immediate", ":", "n", "1", "im", "recurse", ";">>}
LinesOf == [loops |-> Loops, cases |-> Cases, catching |-> Catching, defining |-> Definers]
MCLines == UNION {LinesOf[p] : p \in DOMAIN LinesOf}

MCMaxOf == [loops |-> 6, cases |-> 6, catching |-> 4, defining |-> 3]

MathRests == number = Zero /\ divisor = 1 /\ base = 2 /\ ud = Zero /\ pad = <<>> /\ count = 0 /\ stage = "given"
\* Machines: what is on the stack, the input `ab A b)' and a dictionary that is nearly full or not.
Mem9 == [a \in 0 .. MEMSIZE - 1 |-> IF a \in 8 .. 13 THEN <<2, 3, 1, 4, 3, 6>>[a - 7] ELSE IF a % 3 = 0 THEN 5 ELSE 0]
Stacks == {<<>>, <<63>>, <<2>>, <<8>>, <<3>>, <<1, 2>>, <<2, 63>>, <<8, 2>>, <<9, 3>>, <<3, 9, 1>>, <<8, 9, 3>>, <<9, 8, 3>>, <<16, 3, 5>>, <<63, 1, 0>>, <<8, 2, 10, 2>>, <<8, 2, 8, 3>>,
           <<8, 1, 11, 1>>, <<8, 1, 10, 2, 1>>, <<1, 2, 1, 63, 8>>, <<1, 2, 3, 4, 5, 8>>}
Machine9(s, h) == [stk |-> s, rstk |-> <<7, 9>>, mem |-> Mem9, here |-> h, in |-> 0, base |-> 10, out |-> 0, heap |-> 0, env |-> FALSE, fds |-> {3}, lists |-> <<1, 2>>, cur |-> 1,
                   thrown |-> FALSE, bad |-> FALSE, wild |-> FALSE]
MCMachines == {Machine9(s, 15) : s \in Stacks} \union {Machine9(<<2>>, 23), Machine9(<<8, 2>>, 22)}
WordsRest == fw = [bad |-> FALSE] /\ fprev = [word |-> ""] /\ lit = NoLit
MCInit == /\ ficlInitSystem
          /\ \/ part \in DOMAIN LinesOf /\ MathRests /\ WordsRest
             \/ part = "math" /\ MathInit /\ WordsRest
             \/ part = "words" /\ MathRests /\ WordsInit
\* The divisor has no part in printing.
MCNext == /\ UNCHANGED part
          /\ \/ /\ part \in DOMAIN LinesOf /\ UNCHANGED <<mathvars, fwvars>>
                /\ calls = <<>> => nlines < MaxOf[part]
                /\ Step \/ Unwind \/ \E line \in LinesOf[part] : ficlExec(line)
             \/ part = "math" /\ divisor = 1 /\ MathNext /\ UNCHANGED <<ficlvars, fwvars>>
             \/ part = "words" /\ WordsNext /\ UNCHANGED <<ficlvars, mathvars>>
MCSpec == MCInit /\ [][MCNext]_<<ficlvars, mathvars, fwvars, part>>

\* The arithmetic of math64.c is exact at the edges of a cell, and the words of words.c stay
\* within stack, pad and dictionary and give back what they were given; but the words of
\* Unchecked, ALLOT at an odd address and WORD with nPAD - 2 characters or more.
NumbersAndWords == MathSafe /\ WordsSafe
=============================================================================
