SPECIFICATION Spec
CONSTANTS
    kern = kern  kern2 = kern2  fileA = fileA  fileB = fileB  fileC = fileC  fileC2 = fileC2  fileD = fileD  rawFile = rawFile
    ma = ma  mb = mb  mc = mc  md = md  mz = mz  kernel = kernel
    d1 = d1  d2 = d2  None = None
    Names <- MCNames  Mods <- MCMods  Kind <- MCKind  Size <- MCSize  ReadEnd <- MCReadEnd  Syms <- MCSyms
    Provides <- MCProvides  Requires <- MCRequires
    Dirs <- MCDirs  Paths <- MCPaths  Hints <- MCHints  ByName <- MCByName
    KernelAddr = 6  PAGE_SIZE = 4  Chunk = 2  memtop = 31
    MaxCmds = 5  MaxFaults = 1
INVARIANTS LaidOut Complete AllOrNothing
CHECK_DEADLOCK FALSE
