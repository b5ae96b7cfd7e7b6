------------------------------ MODULE MCPreload ------------------------------
EXTENDS Preload

CONSTANTS kern, kern2, fileA, fileB, fileC, fileC2, fileD, rawFile, ma, mb, mc, md, mz, kernel, d1, d2

MCNames == {kern, kern2, fileA, fileB, fileC, fileC2, fileD, rawFile}
MCMods == {ma, mb, md, kernel}
MCKind == [f \in MCNames |-> IF f \in {kern, kern2} THEN "kernel" ELSE IF f = rawFile THEN "other" ELSE "module"]
\* Sizes are no multiples of the page.
MCSize == [f \in MCNames |-> IF f \in {fileA, fileC2} THEN 5 ELSE 3]
\* kern2, fileB and fileD end in zeroes; kern and fileC have symbol tables.
MCReadEnd == [f \in MCNames |-> IF f \in {kern2, fileB, fileD} THEN 1 ELSE MCSize[f]]
MCSyms == [f \in MCNames |-> IF f \in {kern, fileC} THEN 2 ELSE 0]
MCProvides == [f \in MCNames |->
    CASE f = fileA -> {[mod |-> ma, ver |-> 1]}
      [] f = fileB -> {[mod |-> mb, ver |-> 1], [mod |-> mb, ver |-> 3]}
      [] f = fileC -> {[mod |-> mc, ver |-> 1]}
      [] f = fileC2 -> {[mod |-> mc, ver |-> 2]}
      [] f = fileD -> {[mod |-> md, ver |-> 1]}
      [] OTHER -> {[mod |-> kernel, ver |-> 1]}]
Dependency(m, lo, pref, hi) == [mod |-> m, min |-> lo, pref |-> pref, max |-> hi]
\* fileA and fileB require each other; fileD needs a version of mc that the file fileB pulls in does not
\* have, after fileA, fileB and fileC were loaded for it; a kernel's dependency is never looked at.
MCRequires == [f \in MCNames |->
    CASE f = fileA -> <<Dependency(mb, 1, 2, 3)>>
      [] f = fileB -> <<Dependency(ma, 1, 1, 1), Dependency(mc, 1, 1, 1)>>
      [] f = fileD -> <<Dependency(ma, 0, 1, 1), Dependency(mc, 2, 2, 2)>>
      [] f = fileC2 -> <<Dependency(mz, 1, 1, 1)>>
      [] f \in {kern, kern2} -> <<Dependency(mz, 1, 1, 1)>>
      [] OTHER -> <<>>]
MCDirs == {d1, d2}
MCPaths == {<<d1>>, <<d2, d1, d2>>, <<d1, d2>>}
Hint(m, v, f) == [mod |-> m, ver |-> v, file |-> f]
MCHints == [x \in MCDirs |->
    IF x = d1 THEN <<Hint(ma, 1, fileA), Hint(mb, 1, None), Hint(mb, 3, fileB), Hint(mc, 1, fileC)>>
    ELSE <<Hint(mc, 1, fileC), Hint(mc, 2, fileC2)>>]
MCByName == [x \in MCDirs |-> [m \in MCMods \union {mc, mz} |->
    CASE x = d1 /\ m = kernel -> kern
      [] x = d2 /\ m = kernel -> kern2
      [] m = md -> fileD
      [] x = d1 /\ m = ma -> fileA
      [] x = d2 /\ m = mc -> fileC
      [] OTHER -> None]]
=============================================================================
