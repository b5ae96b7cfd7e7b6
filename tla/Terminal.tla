----------------------------- MODULE Terminal ------------------------------
(***************************************************************************)
(* The screens of the loader: the ANSI emulators of i386 and pc98            *)
(* (vidconsole.c), the first on the video BIOS, the second on the memory of   *)
(* the screen, and the frame buffer of the PlayStation 3 (ps3cons.c).  All     *)
(* three are given the same characters.  The cell behind the last one of the   *)
(* screen belongs to the memory of the screen too.                              *)
(***************************************************************************)
EXTENDS Naturals, Integers, Sequences, FiniteSets, SequencesExt

CONSTANTS
    TermWords,      \* what is printed: sequences of characters
    MaxWords,       \* bound on the number of words
    ROWS, COLS,     \* the size of the screen
    MAXARGS,        \* arguments of an escape sequence
    Ps3             \* the frame buffer: w, h, xm, ym, font

VARIABLES vid, ps3, paper, nwords
termvars == <<vid, ps3, paper, nwords>>

Screen == 0 .. ROWS * COLS - 1
DEFAULT_FGCOLOR == 7
DEFAULT_BGCOLOR == 0
Digits == [d \in {"0", "1", "2", "3", "4", "5", "6", "7", "8", "9"} |->
           CASE d = "0" -> 0 [] d = "1" -> 1 [] d = "2" -> 2 [] d = "3" -> 3 [] d = "4" -> 4 [] d = "5" -> 5 [] d = "6" -> 6 [] d = "7" -> 7 [] d = "8" -> 8 [] d = "9" -> 9]
Digit(n) == CHOOSE d \in DOMAIN Digits : Digits[d] = n
\* sprintf of an argument
Decimal(n) == IF n < 10 THEN <<Digit(n)>> ELSE <<Digit((n \div 10) % 10), Digit(n % 10)>>
isvisible(c) == c # "nul"

-----------------------------------------------------------------------------
(* The screen.  hx, hy is the cursor of the hardware, curx, cury the one the program believes in; *)
(* off, mid, wild and scrolled are history: the cursor was sent outside, erased from the middle of  *)
(* a line, a cell outside was written, the screen was scrolled.                                       *)
write_char(t, c) ==
    LET p == t.hx + t.hy * COLS IN
    IF p \in Screen THEN [t EXCEPT !.cell[p] = [c |-> c, fg |-> t.fg, bg |-> t.bg]] ELSE [t EXCEPT !.wild = TRUE]
\* A cell that shows nothing is made a blank, so that the cursor can be seen.
curs_move(t, x, y) ==
    LET m == [t EXCEPT !.hx = x, !.hy = y, !.curx = x, !.cury = y, !.off = @ \/ x >= COLS \/ y >= ROWS]
        p == x + y * COLS
    IN  IF p \in Screen /\ ~isvisible(t.cell[p].c) THEN write_char(m, " ") ELSE m
get_pos(t) == IF t.hw = "i386" THEN [t EXCEPT !.curx = t.hx, !.cury = t.hy]
              ELSE LET p == t.hx + t.hy * COLS IN [t EXCEPT !.curx = p % COLS, !.cury = p \div COLS]
Blank9(t) == [c |-> " ", fg |-> t.fg, bg |-> t.bg]
\* pc98 moves the characters and leaves their colours where they are.
scroll_up(t) ==
    [t EXCEPT !.scrolled = TRUE,
              !.cell = [p \in DOMAIN t.cell |-> IF p \notin Screen THEN t.cell[p]
                                                ELSE IF p >= (ROWS - 1) * COLS THEN Blank9(t)
                                                ELSE IF t.hw = "i386" THEN t.cell[p + COLS] ELSE [t.cell[p] EXCEPT !.c = t.cell[p + COLS].c]]]
LineFeed(t) == IF t.cury + 1 > ROWS - 1 THEN scroll_up(t) ELSE curs_move(t, t.curx, t.cury + 1)
\* A character moves the cursor, to the next line after the last column.
Glyph(t, c) ==
    LET w == write_char(t, c)
        wrap == t.curx + 1 > COLS - 1
        row == IF wrap THEN t.cury + 1 ELSE t.cury
    IN  IF wrap /\ row > ROWS - 1 THEN curs_move(scroll_up(w), 0, row - 1) ELSE curs_move(w, IF wrap THEN 0 ELSE t.curx + 1, row)
Raw1(t, c) == CASE c = "bel" -> t
                [] c = "cr" -> curs_move(t, 0, t.cury)
                [] c = "nl" -> LineFeed(t)
                [] c = "bs" -> IF t.curx > 0 THEN curs_move(t, t.curx - 1, t.cury) ELSE t
                [] OTHER -> Glyph(t, c)
vidc_rawputchar(t, c) == IF c = "tab" THEN FoldLeft(LAMBDA u, i : Raw1(u, " "), t, [i \in 1 .. 8 |-> i]) ELSE Raw1(t, c)

-----------------------------------------------------------------------------
(* Escape sequences *)
end_term(t) == [t EXCEPT !.esc = "", !.argc = -1]
\* What is not understood is printed, without the separators.
bail_out(t, c) ==
    LET seen == IF t.esc = "" THEN <<>>
                ELSE <<"esc">> \o (IF t.esc # "esc" THEN <<t.esc>> ELSE <<>>) \o FlattenSeq([i \in 1 .. t.argc + 1 |-> Decimal(t.args[i - 1])])
    IN  end_term(FoldLeft(LAMBDA u, d : vidc_rawputchar(u, d), t, Append(seen, c)))
get_arg(t, c) == LET a == IF t.argc < 0 THEN 0 ELSE t.argc IN [t EXCEPT !.argc = a, !.args[a] = @ * 10 + Digits[c]]
CM(t) == LET less(n) == IF n > 0 THEN n - 1 ELSE n IN
         end_term(curs_move([t EXCEPT !.args[0] = less(@), !.args[1] = less(@)], less(t.args[1]), less(t.args[0])))
HO(t) == CM([t EXCEPT !.argc = 1, !.args[0] = 1, !.args[1] = 1])
Erase(t, cells, blank) == [t EXCEPT !.cell = [p \in DOMAIN t.cell |-> IF p \in cells THEN blank ELSE t.cell[p]]]
\* i386: the rest of the line, and the lines below; only the believed cursor goes down.  The
\* attribute of what is erased is in the wrong half of the register, which makes it 0.
CDi386(t) ==
    LET g == get_pos(t)
        none == [c |-> " ", fg |-> 0, bg |-> 0]
        line == Erase(g, {p \in Screen : p >= g.curx + g.cury * COLS /\ p < (g.cury + 1) * COLS}, none)
        below(u, y) == Erase(u, {p \in Screen : p >= y * COLS}, none)
    IN  IF g.curx = 0 THEN end_term(below(g, g.cury))
        ELSE IF g.cury + 1 > ROWS - 1 THEN end_term([line EXCEPT !.cury = g.cury + 1, !.mid = TRUE])
        ELSE end_term(below([line EXCEPT !.cury = g.cury + 1, !.mid = TRUE], g.cury + 1))
\* pc98: to the end of the screen and one cell more.
CDpc98(t) == LET g == get_pos(t) IN end_term(Erase(g, {p \in DOMAIN g.cell : p >= g.hx + g.hy * COLS /\ p <= COLS * ROWS}, Blank9(g)))
CD(t) == IF t.hw = "i386" THEN CDi386(t) ELSE CDpc98(t)
\* The terminal counts the bits of red and blue the other way round.
ansi_col == <<0, 4, 2, 6, 1, 5, 3, 7>>
Bright(n) == IF n < 8 THEN n + 8 ELSE n
Attribute(t, a) ==
    CASE a = 0 -> [t EXCEPT !.fg = DEFAULT_FGCOLOR, !.bg = DEFAULT_BGCOLOR]
      [] a = 1 -> [t EXCEPT !.fg = Bright(@)]
      [] a \in {4, 5} -> [t EXCEPT !.bg = Bright(@)]
      [] a = 7 -> [t EXCEPT !.fg = t.bg, !.bg = t.fg]
      [] a \in 30 .. 37 -> [t EXCEPT !.fg = ansi_col[a - 29]]
      [] a = 39 -> [t EXCEPT !.fg = DEFAULT_FGCOLOR]
      [] a \in 40 .. 47 -> [t EXCEPT !.bg = ansi_col[a - 39]]
      [] a = 49 -> [t EXCEPT !.bg = DEFAULT_BGCOLOR]
      [] OTHER -> t
SGR(t) == end_term(IF t.argc < 0 THEN Attribute(t, 0) ELSE FoldLeft(LAMBDA u, i : Attribute(u, t.args[i - 1]), t, [i \in 1 .. t.argc + 1 |-> i]))
\* Mutant of Semicolon: one argument too many is let in.
SemicolonLate(t, c) == IF t.argc < 0 THEN [t EXCEPT !.argc = 0]
                       ELSE IF t.argc + 1 > MAXARGS THEN bail_out(t, c) ELSE [t EXCEPT !.argc = @ + 1, !.args = [i \in DOMAIN @ |-> IF i = t.argc + 1 THEN 0 ELSE @[i]]]
Semicolon(t, c) == IF t.argc < 0 THEN [t EXCEPT !.argc = 0]
                   ELSE IF t.argc + 1 >= MAXARGS THEN bail_out(t, c) ELSE [t EXCEPT !.argc = @ + 1, !.args[t.argc + 1] = 0]
vidc_term_emu(t, c) ==
    CASE t.esc = "" -> IF c = "esc" THEN [t EXCEPT !.esc = c] ELSE vidc_rawputchar(t, c)
      [] t.esc = "esc" -> IF c = "[" THEN [t EXCEPT !.esc = c, !.args[0] = 0, !.argc = -1] ELSE bail_out(t, c)
      [] t.esc = "[" -> CASE c = ";" -> Semicolon(t, c)
                          [] c = "H" -> IF t.argc < 0 THEN HO(t) ELSE IF t.argc = 1 THEN CM(t) ELSE bail_out(t, c)
                          [] c = "J" -> IF t.argc < 0 THEN CD(t) ELSE bail_out(t, c)
                          [] c = "m" -> SGR(t)
                          [] c \in DOMAIN Digits -> get_arg(t, c)
                          [] OTHER -> bail_out(t, c)
\* pc98's copy differs in the functions of the screen only.
pc98_term_emu(t, c) == vidc_term_emu(t, c)
vidc_putchar(t, c) == IF t.hw = "i386" THEN vidc_term_emu(t, c) ELSE pc98_term_emu(t, c)
\* The cursor is wherever the BIOS has left it: at home here.
vidc_init(hw, shown) ==
    curs_move(get_pos([hw |-> hw, cell |-> [p \in 0 .. ROWS * COLS |-> [c |-> shown, fg |-> 7, bg |-> 0]], hx |-> 0, hy |-> 0, curx |-> 0, cury |-> 0,
                       esc |-> "", argc |-> -1, args |-> [i \in 0 .. MAXARGS - 1 |-> 0], fg |-> DEFAULT_FGCOLOR, bg |-> DEFAULT_BGCOLOR,
                       off |-> FALSE, mid |-> FALSE, wild |-> FALSE, scrolled |-> FALSE]), 0, 0)

-----------------------------------------------------------------------------
(* The frame buffer: no emulation, at the bottom it goes on at the top. drawn: the last glyph's corner. *)
ps3cons_init == [x |-> 0, y |-> 0, drawn |-> <<0, 0>>]
ps3cons_putchar(f, c) ==
    CASE c = "nul" -> f
      [] c = "cr" -> [f EXCEPT !.x = 0]
      [] c = "nl" -> [f EXCEPT !.y = @ + Ps3.font]
      [] c = "bs" -> [f EXCEPT !.x = IF @ - 8 > 0 THEN @ - 8 ELSE 0]
      [] OTHER -> LET wrap == f.x + Ps3.xm + Ps3.font > Ps3.w - Ps3.xm
                      y1 == IF wrap THEN f.y + Ps3.font ELSE f.y
                      y2 == IF y1 + Ps3.ym + Ps3.font > Ps3.h - Ps3.ym THEN 0 ELSE y1
                      x1 == IF wrap THEN 0 ELSE f.x
                  IN  [x |-> x1 + 8, y |-> y2, drawn |-> <<x1 + Ps3.xm, y2 + Ps3.ym>>]

-----------------------------------------------------------------------------
(* Paper: the lines that have been printed, as long as it was plain text. *)
Plain(w) == \A i \in DOMAIN w : w[i] \in {"a", "cr", "nl", "tab"} /\ (w[i] = "nl" => i > 1 /\ w[i - 1] = "cr")
Lines(text) ==
    FoldLeft(LAMBDA l, c : CASE c = "cr" -> l
                             [] c = "nl" -> Append(l, <<>>)
                             [] OTHER -> LET new == [l EXCEPT ![Len(l)] = Append(@, c)] IN IF Len(new[Len(new)]) = COLS THEN Append(new, <<>>) ELSE new,
             << <<>> >>, FlattenSeq([i \in DOMAIN text |-> IF text[i] = "tab" THEN [k \in 1 .. 8 |-> " "] ELSE <<text[i]>>]))

TermInit == /\ \E shown \in {" ", "nul"} : vid = [hw \in {"i386", "pc98"} |-> vidc_init(hw, shown)]
            /\ ps3 = ps3cons_init /\ paper = [plain |-> TRUE, text |-> <<>>] /\ nwords = 0
TermPut(w) ==
    /\ nwords < MaxWords
    /\ vid' = [hw \in DOMAIN vid |-> FoldLeft(LAMBDA t, c : vidc_putchar(t, c), vid[hw], w)]
    /\ ps3' = FoldLeft(LAMBDA f, c : ps3cons_putchar(f, c), ps3, w)
    /\ paper' = IF paper.plain /\ Plain(w) THEN [paper EXCEPT !.text = @ \o w] ELSE [plain |-> FALSE, text |-> <<>>]
    /\ nwords' = nwords + 1
TermNext == \E w \in TermWords : TermPut(w)

-----------------------------------------------------------------------------
(* Properties *)
Sane(t) == ~t.off /\ ~t.mid
\* Argument counts stay within the array (vidconsole.c:408-413), whatever is printed.
ArgsBound == \A hw \in DOMAIN vid : vid[hw].argc \in -1 .. MAXARGS - 1 /\ DOMAIN vid[hw].args = 0 .. MAXARGS - 1
\* Unless it is sent outside, or i386's CD erases from the middle of a line, the cursor is where the
\* program believes it to be, on the screen, and nothing outside is written.
CursorKnown == \A hw \in DOMAIN vid : LET t == vid[hw] IN
    Sane(t) => t.curx = t.hx /\ t.cury = t.hy /\ t.hx + t.hy * COLS \in Screen /\ ~t.wild
\* The two emulators show the same text, and until a line scrolls away in the same colours.
SameText == LET a == vid["i386"] b == vid["pc98"] IN
    Sane(a) /\ Sane(b) => \A p \in Screen : /\ a.cell[p].c = b.cell[p].c
                                            /\ ~a.scrolled /\ a.cell[p].c \notin {" ", "nul"} => a.cell[p] = b.cell[p]
\* Plain text appears as on paper, of which the screen shows the end.
AsOnPaper ==
    paper.plain => LET l == Lines(paper.text)
                       top == IF Len(l) > ROWS THEN Len(l) - ROWS ELSE 0
                       want(p) == LET k == top + (p \div COLS) + 1 IN
                                  IF k <= Len(l) /\ (p % COLS) + 1 <= Len(l[k]) THEN l[k][(p % COLS) + 1] ELSE " "
                   IN  \A p \in Screen : want(p) = " " \/ vid["i386"].cell[p].c = want(p)
\* Every glyph is drawn within the margins of the frame buffer.
DrawnInside == ps3.drawn = <<0, 0>> \/ (/\ ps3.drawn[1] >= Ps3.xm /\ ps3.drawn[1] + Ps3.font <= Ps3.w - Ps3.xm
                                         /\ ps3.drawn[2] >= Ps3.ym /\ ps3.drawn[2] + Ps3.font <= Ps3.h - Ps3.ym)
\* What the screens of the loader promise: arguments stay in their array, the cursor is known, both
\* emulators agree, plain text reads as on paper and the frame buffer is not left.
TerminalSafe == ArgsBound /\ CursorKnown /\ SameText /\ AsOnPaper /\ DrawnInside
=============================================================================
