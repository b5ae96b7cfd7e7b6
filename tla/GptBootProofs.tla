--------------------------- MODULE GptBootProofs ---------------------------
(* Proofs about gptboot: the table survives, a one-shot boot happens once, the search ends well. *)
EXTENDS GptBoot, FiniteSetTheorems, TLAPS

\* The sectors of the entries come before the header.
LEMMA SectorRange == \A e \in Ents : Sector(e) \in 0 .. Hdr - 1 /\ Hdr \in Nat
  <1> SUFFICES ASSUME NEW e \in Ents PROVE Sector(e) \in 0 .. Hdr - 1 /\ Hdr \in Nat
      OBVIOUS
  <1>1. e \in Nat /\ N - 1 \in Nat /\ e <= N - 1 /\ EPS \in Nat /\ EPS > 0
      BY GptAssumption DEF Ents
  <1>2. e \div EPS \in Nat /\ (N - 1) \div EPS \in Nat
      BY <1>1
  <1>3. e \div EPS <= (N - 1) \div EPS
      BY <1>1, <1>2
  <1> QED BY <1>2, <1>3 DEF Sector, Hdr

LEMMA SectorWrite == \A e \in Ents : Sector(e) \in Writes /\ Sector(e) # Hdr /\ Hdr \in Writes
  BY SectorRange DEF Writes

LEMMA CopiesFinite == IsFiniteSet(Copies)
  <1>1. IsFiniteSet({"primary"})
      BY FS_Singleton
  <1>2. IsFiniteSet({"primary"} \union {"backup"})
      BY <1>1, FS_AddElement
  <1> QED BY <1>2 DEF Copies

\* The number of copies that cannot be read is a natural number.
LEMMA BadCount == \A bad \in SUBSET Copies : Cardinality(bad) \in Nat
  BY CopiesFinite, FS_Subset, FS_CardinalityType

\* gptbootconv keeps a table a table and asks for writes of the copy's own sectors.
LEMMA ConvType ==
    ASSUME NEW t \in Tables
    PROVE  gptbootconv(t) \in Tables /\ ConvWrites(t) \in SUBSET Writes
  BY SectorWrite DEF gptbootconv, ConvWrites, Converted, Tables, Flags, Ents

LEMMA InitInv == Init => IndInv
  <1> SUFFICES ASSUME Init PROVE IndInv
      OBVIOUS
  <1>1. PICK t \in [Ents -> InitFlags] : disk = [c \in Copies |-> [table |-> t, crc |-> t]]
      BY DEF Init
  <1>2. t \in Tables
      BY InitFlagsAssumption DEF Tables
  <1>3. TypeOK
    <2>1. disk \in [Copies -> [table : Tables, crc : Tables]]
        BY <1>1, <1>2
    <2>2. mem \in [Copies -> Tables] /\ flags0 \in Tables
        BY DEF Init, Tables
    <2>3. lba \in [Copies -> BOOLEAN] /\ todo \in [Copies -> SUBSET Writes]
        BY DEF Init
    <2>4. curent \in -1 .. N /\ part \in Int /\ boots \in 0 .. MaxBoots /\ faults \in 0 .. MaxFaults
        BY GptAssumption DEF Init
    <2> QED BY <2>1, <2>2, <2>3, <2>4 DEF Init, TypeOK
  <1>4. Synced /\ TableSurvives
      BY <1>1 DEF Init, Synced, TableSurvives, Valid
  <1> QED BY <1>3, <1>4 DEF Init, IndInv, CurentInTable, Idle

-----------------------------------------------------------------------------
\* gptread only starts from a quiet disk, so what it finds valid is what it will rewrite.
LEMMA ReadStep ==
    ASSUME IndInv, Idle, NEW who \in {"main", "config", "prompt"}, gptread(who),
           disk' = disk, hit' = hit
    PROVE  /\ mem' \in [Copies -> Tables] /\ lba' \in [Copies -> BOOLEAN]
           /\ todo' \in [Copies -> SUBSET Writes]
           /\ pc' \in {"find", "halt", "prompt"}
           /\ flags0' \in Tables /\ faults' \in 0 .. MaxFaults
           /\ Synced' /\ TableSurvives'
  <1>1. disk \in [Copies -> [table : Tables, crc : Tables]] /\ mem \in [Copies -> Tables]
      BY DEF IndInv, TypeOK
  <1>2. lba' \in [Copies -> BOOLEAN] /\ \A c \in Copies : lba'[c] => Valid(c)
      BY DEF gptread
  <1>3. faults' \in 0 .. MaxFaults
      BY BadCount, GptAssumption DEF gptread, IndInv, TypeOK
  <1>4. \A c \in Copies : /\ gptbootconv(disk[c].table) \in Tables
                          /\ ConvWrites(disk[c].table) \in SUBSET Writes
      BY <1>1, ConvType
  <1>5. mem' \in [Copies -> Tables] /\ todo' \in [Copies -> SUBSET Writes]
      BY <1>1, <1>4 DEF gptread
  <1>6. flags0' \in Tables
      BY <1>1 DEF gptread, Copies
  <1>7. \A c \in Copies \ hit : Valid(c)
      BY DEF IndInv, TableSurvives, Idle
  <1>8. TableSurvives'
      BY <1>7 DEF TableSurvives, Valid
  <1>9. Synced'
    <2> SUFFICES ASSUME NEW c \in Copies \ hit
                 PROVE  /\ todo'[c] # {} => lba'[c] /\ Hdr \in todo'[c]
                        /\ lba'[c] => \A e \in Ents : Sector(e) \notin todo'[c] =>
                                         disk[c].table[e] = mem'[c][e]
        BY DEF Synced
    <2>1. todo'[c] = IF lba'[c] THEN ConvWrites(disk[c].table) ELSE {}
        BY DEF gptread
    <2>2. todo'[c] # {} => lba'[c] /\ Hdr \in todo'[c]
        BY <2>1 DEF ConvWrites
    <2>3. ASSUME lba'[c], NEW e \in Ents, Sector(e) \notin todo'[c]
          PROVE  disk[c].table[e] = mem'[c][e]
      <3>1. mem'[c] = gptbootconv(disk[c].table)
          BY <2>3 DEF gptread
      <3>2. e \notin Converted(disk[c].table)
          BY <2>1, <2>3 DEF ConvWrites
      <3> QED BY <3>1, <3>2 DEF gptbootconv
    <2> QED BY <2>2, <2>3
  <1>10. pc' \in {"find", "halt", "prompt"}
      BY DEF gptread, AfterFailure
  <1> QED BY <1>2, <1>3, <1>5, <1>6, <1>8, <1>9, <1>10

\* gptfind and gptbootfailed change one entry and queue its sector and the header.
LEMMA MarkStep ==
    ASSUME IndInv, Idle, NEW e \in Ents, NEW oneshot \in BOOLEAN,
           \A c \in Copies : /\ ~(oneshot /\ lba[c]) => mem'[c] = mem[c]
                             /\ \A x \in Ents \ {e} : mem'[c][x] = mem[c][x],
           todo' = [c \in Copies |-> IF oneshot /\ lba[c] THEN {Sector(e), Hdr} ELSE {}],
           lba' = lba, disk' = disk, hit' = hit
    PROVE  todo' \in [Copies -> SUBSET Writes] /\ Synced' /\ TableSurvives'
  <1>1. todo' \in [Copies -> SUBSET Writes]
      BY SectorWrite
  <1>2. \A c \in Copies \ hit : Valid(c)
      BY DEF IndInv, TableSurvives, Idle
  <1>3. TableSurvives'
      BY <1>2 DEF TableSurvives, Valid
  <1>4. \A c \in Copies \ hit : lba[c] => \A x \in Ents : disk[c].table[x] = mem[c][x]
      BY DEF IndInv, Synced, Idle
  <1>5. Synced'
    <2> SUFFICES ASSUME NEW c \in Copies \ hit
                 PROVE  /\ todo'[c] # {} => lba[c] /\ Hdr \in todo'[c]
                        /\ lba[c] => \A x \in Ents : Sector(x) \notin todo'[c] =>
                                        disk[c].table[x] = mem'[c][x]
        BY DEF Synced
    <2>1. ASSUME lba[c], NEW x \in Ents, Sector(x) \notin todo'[c]
          PROVE  disk[c].table[x] = mem'[c][x]
      <3>1. CASE oneshot
        <4>1. x # e
            BY <3>1, <2>1
        <4> QED BY <4>1, <2>1, <1>4
      <3>2. CASE ~oneshot
          BY <3>2, <2>1, <1>4
      <3> QED BY <3>1, <3>2
    <2> QED BY <2>1
  <1> QED BY <1>1, <1>3, <1>5

-----------------------------------------------------------------------------
\* Steps that leave the disk, the tables in memory and the pending writes alone.
LEMMA QuietStep ==
    ASSUME IndInv, UNCHANGED <<disk, mem, lba, todo, hit>>
    PROVE  Synced' /\ TableSurvives' /\ (Idle <=> Idle')
  BY DEF IndInv, Synced, TableSurvives, Valid, NextCopy, Idle

LEMMA PowerOnStep == ASSUME IndInv, PowerOn PROVE IndInv'
  <1> USE DEF PowerOn
  <1>1. Idle /\ gptread("main") /\ disk' = disk /\ hit' = hit
      BY DEF IndInv
  <1>2. /\ mem' \in [Copies -> Tables] /\ lba' \in [Copies -> BOOLEAN]
        /\ todo' \in [Copies -> SUBSET Writes]
        /\ pc' \in {"find", "halt", "prompt"}
        /\ flags0' \in Tables /\ faults' \in 0 .. MaxFaults
        /\ Synced' /\ TableSurvives'
      BY <1>1, ReadStep
  <1>3. boots' \in 0 .. MaxBoots /\ curent' \in -1 .. N /\ part' \in Int
      BY GptAssumption DEF IndInv, TypeOK, gptread
  <1>4. TypeOK'
      BY <1>2, <1>3 DEF IndInv, TypeOK, gptread
  <1> QED BY <1>2, <1>4 DEF IndInv, CurentInTable

LEMMA NamePartStep ==
    ASSUME IndInv, Idle, NEW who \in {"config", "prompt"}, NamePart(who) PROVE IndInv'
  <1> USE DEF NamePart
  <1>1. /\ mem' \in [Copies -> Tables] /\ lba' \in [Copies -> BOOLEAN]
        /\ todo' \in [Copies -> SUBSET Writes]
        /\ pc' \in {"find", "halt", "prompt"}
        /\ flags0' \in Tables /\ faults' \in 0 .. MaxFaults
        /\ Synced' /\ TableSurvives'
      BY ReadStep
  <1>2. part' \in Int /\ curent' \in -1 .. N
      BY GptAssumption DEF gptread
  <1>3. TypeOK'
      BY <1>1, <1>2 DEF IndInv, TypeOK, gptread
  <1> QED BY <1>1, <1>3 DEF IndInv, CurentInTable

LEMMA BadCommandStep == ASSUME IndInv, BadCommand PROVE IndInv'
  <1> USE DEF BadCommand, histVars
  <1>1. Synced' /\ TableSurvives'
      BY QuietStep
  <1>2. part' \in Int
      BY GptAssumption DEF IndInv, TypeOK
  <1>3. TypeOK'
      BY <1>2 DEF IndInv, TypeOK
  <1> QED BY <1>1, <1>3 DEF IndInv, CurentInTable

\* A step of main() that only moves on.
LEMMA MoveStep ==
    ASSUME IndInv, pc \in {"config", "boot", "prompt", "load"},
           (pc' = "boot" /\ pc = "config") \/ pc' \in {"prompt", "load"},
           UNCHANGED <<disk, mem, lba, curent, bootonce, part, start, autoboot, todo,
                       updating, caller, histVars>>
    PROVE  IndInv'
  <1>1. Synced' /\ TableSurvives'
      BY QuietStep DEF histVars
  <1>2. TypeOK'
      BY DEF IndInv, TypeOK, histVars
  <1> QED BY <1>1, <1>2 DEF IndInv, CurentInTable

LEMMA ExecStep == ASSUME IndInv, Exec, autoboot' \in BOOLEAN PROVE IndInv'
  <1> USE DEF Exec
  <1>1. Synced' /\ TableSurvives'
      BY QuietStep
  <1>2. TypeOK'
      BY DEF IndInv, TypeOK
  <1> QED BY <1>1, <1>2 DEF IndInv, CurentInTable

\* What gptfind leaves alone.
FindFrame == UNCHANGED <<disk, lba, autoboot, caller, boots, faults, hit, tried, flags0,
                         attempted, explicit>>

LEMMA FoundStep ==
    ASSUME IndInv, Idle, NEW e \in UFS, Found(e), bootonce' \in BOOLEAN, FindFrame
    PROVE  IndInv'
  <1> USE DEF Found, FindFrame
  <1> DEFINE oneshot == "once" \in gpttable[e]
  <1>1. e \in Ents /\ e + 1 \in Nat /\ e \in -1 .. N
      BY GptAssumption DEF Ents
  <1>2. mem \in [Copies -> Tables] /\ lba \in [Copies -> BOOLEAN]
      BY DEF IndInv, TypeOK
  <1>3. mem' \in [Copies -> Tables]
    <2>1. \A c \in Copies : [mem[c] EXCEPT ![e] = @ \ {"me"}] \in Tables
        BY <1>1, <1>2 DEF Tables
    <2> QED BY <2>1, <1>2
  <1>4. \A c \in Copies : /\ ~(oneshot /\ lba[c]) => mem'[c] = mem[c]
                          /\ \A x \in Ents \ {e} : mem'[c][x] = mem[c][x]
      BY <1>1, <1>2 DEF Tables
  <1>5. todo' = [c \in Copies |-> IF oneshot /\ lba[c] THEN {Sector(e), Hdr} ELSE {}]
      OBVIOUS
  <1>6. oneshot \in BOOLEAN
      OBVIOUS
  <1> HIDE DEF oneshot
  <1>7. todo' \in [Copies -> SUBSET Writes] /\ Synced' /\ TableSurvives'
      BY <1>1, <1>4, <1>5, <1>6, MarkStep
  <1>8. pc' \in {"config", "boot", "load"} /\ picked' \subseteq UFS
      BY DEF IndInv, TypeOK, AfterFound
  <1>9. TypeOK'
      BY <1>1, <1>3, <1>7, <1>8 DEF IndInv, TypeOK
  <1> QED BY <1>7, <1>8, <1>9 DEF IndInv, CurentInTable

LEMMA NotFoundStep ==
    ASSUME IndInv, NotFound, bootonce' \in BOOLEAN, curent' \in -1 .. N, FindFrame
    PROVE  IndInv'
  <1> USE DEF NotFound, FindFrame
  <1>1. Synced' /\ TableSurvives'
      BY QuietStep
  <1>2. pc' \in {"halt", "prompt"}
      BY DEF AfterFailure
  <1>3. TypeOK'
      BY <1>2 DEF IndInv, TypeOK
  <1> QED BY <1>1, <1>2, <1>3 DEF IndInv, CurentInTable

LEMMA FindStep == ASSUME IndInv, gptfind PROVE IndInv'
  <1>1. Idle /\ FindFrame /\ (FindPart \/ FindNext)
      BY DEF gptfind, FindFrame
  <1>2. bootonce \in BOOLEAN /\ curent \in -1 .. N /\ N \in -1 .. N
      BY GptAssumption DEF IndInv, TypeOK
  <1>3. CASE FindPart
    <2>1. bootonce' \in BOOLEAN
        BY <1>2, <1>3 DEF FindPart
    <2>2. \/ part - 1 \in UFS /\ Found(part - 1)
          \/ NotFound /\ curent' = curent
        BY <1>3 DEF FindPart
    <2> QED BY <1>1, <1>2, <2>1, <2>2, FoundStep, NotFoundStep
  <1>4. CASE FindNext
    <2>1. bootonce' \in BOOLEAN
        BY <1>2, <1>4 DEF FindNext
    <2>2. \/ \E e \in UFS : Found(e)
          \/ NotFound /\ curent' = N
        BY <1>4 DEF FindNext, OnceEnts, BootEnts
    <2> QED BY <1>1, <1>2, <2>1, <2>2, FoundStep, NotFoundStep
  <1> QED BY <1>1, <1>3, <1>4

\* gptbootfailed: curent names an entry, because main() is about to boot it.
LEMMA BootFailsStep == ASSUME IndInv, BootFails PROVE IndInv'
  <1> USE DEF BootFails, gptbootfailed
  <1> DEFINE oneshot == "once" \in gpttable[curent]
  <1>1. curent \in UFS /\ curent \in Ents
      BY GptAssumption DEF IndInv, CurentInTable, Ents
  <1>2. mem \in [Copies -> Tables] /\ lba \in [Copies -> BOOLEAN]
      BY DEF IndInv, TypeOK
  <1>3. mem' \in [Copies -> Tables]
    <2>1. \A c \in Copies :
            [mem[c] EXCEPT ![curent] = (@ \ {"once"}) \union {"failed"}] \in Tables
        BY <1>1, <1>2 DEF Tables, Flags
    <2> QED BY <2>1, <1>2
  <1>4. \A c \in Copies : /\ ~(oneshot /\ lba[c]) => mem'[c] = mem[c]
                          /\ \A x \in Ents \ {curent} : mem'[c][x] = mem[c][x]
      BY <1>1, <1>2 DEF Tables
  <1>5. todo' = [c \in Copies |-> IF oneshot /\ lba[c] THEN {Sector(curent), Hdr} ELSE {}]
      OBVIOUS
  <1>6. oneshot \in BOOLEAN
      OBVIOUS
  <1> HIDE DEF oneshot
  <1>7. todo' \in [Copies -> SUBSET Writes] /\ Synced' /\ TableSurvives'
      BY <1>1, <1>4, <1>5, <1>6, MarkStep
  <1>8. TypeOK'
      BY <1>1, <1>3, <1>7 DEF IndInv, TypeOK
  <1> QED BY <1>7, <1>8 DEF IndInv, CurentInTable

\* The header is the last write of a copy, so a copy whose writes are done is whole again.
LEMMA WriteStep ==
    ASSUME IndInv, NEW c \in Copies, NEW w \in todo[c], drvwrite(c, w) PROVE IndInv'
  <1> USE DEF drvwrite, histVars
  <1>1. /\ disk \in [Copies -> [table : Tables, crc : Tables]] /\ mem \in [Copies -> Tables]
        /\ todo \in [Copies -> SUBSET Writes]
      BY DEF IndInv, TypeOK
  <1>2. Written(c, w) \in [table : Tables, crc : Tables]
    <2>1. /\ disk[c] \in [table : Tables, crc : Tables] /\ mem[c] \in Tables
          /\ disk[c].table \in Tables
        BY <1>1
    <2>2. CASE w = Hdr
        BY <2>1, <2>2 DEF Written
    <2>3. CASE w # Hdr
      <3>1. [e \in Ents |-> IF Sector(e) = w THEN mem[c][e] ELSE disk[c].table[e]] \in Tables
          BY <2>1 DEF Tables
      <3> QED BY <2>1, <2>3, <3>1 DEF Written
    <2> QED BY <2>2, <2>3
  <1>3. disk' \in [Copies -> [table : Tables, crc : Tables]] /\ todo' \in [Copies -> SUBSET Writes]
      BY <1>1, <1>2
  <1>4. TypeOK'
      BY <1>3 DEF IndInv, TypeOK
  <1>5. w \in Nat /\ Hdr \in Nat /\ \A x \in todo[c] : x \in Nat /\ x <= Hdr /\ w <= x
      BY <1>1, GptAssumption, SectorRange DEF Writes, Least, Ents
  <1>6. \A d \in Copies \ {c} : disk'[d] = disk[d] /\ todo'[d] = todo[d]
      BY <1>1
  <1>7. disk'[c] = Written(c, w) /\ todo'[c] = todo[c] \ {w}
      BY <1>1
  <1>8. w = Hdr => todo'[c] = {}
      BY <1>5, <1>7
  <1>9. \A e \in Ents : disk'[c].table[e] = IF w # Hdr /\ Sector(e) = w THEN mem[c][e]
                                            ELSE disk[c].table[e]
    <2>1. CASE w = Hdr
        BY <2>1, <1>1, <1>7 DEF Written
    <2>2. CASE w # Hdr
        BY <2>2, <1>1, <1>7 DEF Written
    <2> QED BY <2>1, <2>2
  <1>10. Synced'
    <2> SUFFICES ASSUME NEW d \in Copies \ hit
                 PROVE  /\ todo'[d] # {} => lba[d] /\ Hdr \in todo'[d]
                        /\ lba[d] => \A e \in Ents : Sector(e) \notin todo'[d] =>
                                        disk'[d].table[e] = mem[d][e]
        BY DEF Synced
    <2>1. CASE d # c
        BY <2>1, <1>6 DEF IndInv, Synced
    <2>2. CASE d = c
      <3>1. lba[c] /\ Hdr \in todo[c]
          BY <2>2 DEF IndInv, Synced
      <3>2. todo'[c] # {} => Hdr \in todo'[c]
          BY <3>1, <1>7, <1>8
      <3>3. ASSUME NEW e \in Ents, Sector(e) \notin todo'[c]
            PROVE  disk'[c].table[e] = mem[c][e]
        <4>1. CASE Sector(e) = w
            BY <4>1, <1>9, SectorWrite
        <4>2. CASE Sector(e) # w
          <5>1. Sector(e) \notin todo[c]
              BY <4>2, <3>3, <1>7
          <5> QED BY <5>1, <4>2, <1>9, <2>2, <3>1 DEF IndInv, Synced
        <4> QED BY <4>1, <4>2
      <3> QED BY <2>2, <3>1, <3>2, <3>3
    <2> QED BY <2>1, <2>2
  <1>11. TableSurvives'
    <2> SUFFICES ASSUME NEW d \in Copies \ hit
                 PROVE  Valid(d)' \/ (todo'[d] # {} /\ d = NextCopy')
        BY DEF TableSurvives
    <2>1. CASE d # c
      <3>1. Valid(d)' <=> Valid(d)
          BY <2>1, <1>6 DEF Valid
      <3>2. Valid(d)
          BY <2>1 DEF IndInv, TableSurvives
      <3> QED BY <3>1, <3>2
    <2>2. CASE d = c /\ todo'[c] = {}
      <3>1. w = Hdr
          BY <2>2, <1>7 DEF IndInv, Synced
      <3>2. lba[c]
          BY <2>2 DEF IndInv, Synced
      <3>3. disk'[c].crc = mem[c] /\ disk'[c].table \in Tables /\ mem[c] \in Tables
          BY <3>1, <1>1, <1>3, <1>7 DEF Written
      <3>4. \A e \in Ents : disk'[c].table[e] = mem[c][e]
          BY <2>2, <3>2, <1>10 DEF Synced
      <3>5. disk'[c].table = mem[c]
          BY <3>3, <3>4 DEF Tables
      <3> QED BY <2>2, <3>3, <3>5 DEF Valid
    <2>3. CASE d = c /\ todo'[c] # {}
      <3>1. NextCopy' = c
        <4>1. CASE c = "primary"
            BY <4>1, <2>3 DEF NextCopy
        <4>2. CASE c = "backup"
            BY <4>2, <1>6 DEF NextCopy, Copies
        <4> QED BY <4>1, <4>2 DEF Copies
      <3> QED BY <2>3, <3>1
    <2> QED BY <2>1, <2>2, <2>3
  <1>12. pc # "off"
      BY DEF IndInv, Idle
  <1> QED BY <1>4, <1>10, <1>11, <1>12 DEF IndInv, CurentInTable

\* A failed write costs at most the copy being written.
LEMMA WriteFailsStep ==
    ASSUME IndInv, NEW c \in Copies, NEW w \in todo[c], drvwriteFails(c, w) PROVE IndInv'
  <1> USE DEF drvwriteFails
  <1>1. todo \in [Copies -> SUBSET Writes] /\ todo' \in [Copies -> SUBSET Writes]
      BY DEF IndInv, TypeOK
  <1>2. \A d \in Copies \ {c} : todo'[d] = todo[d]
      BY <1>1
  <1>3. faults' \in 0 .. MaxFaults /\ hit' \subseteq Copies
      BY GptAssumption DEF IndInv, TypeOK
  <1>4. TypeOK'
      BY <1>1, <1>3 DEF IndInv, TypeOK
  <1>5. Synced'
      BY <1>2 DEF IndInv, Synced
  <1>6. TableSurvives'
      BY <1>2 DEF IndInv, TableSurvives, Valid
  <1>7. pc # "off"
      BY DEF IndInv, Idle
  <1> QED BY <1>4, <1>5, <1>6, <1>7 DEF IndInv, CurentInTable

LEMMA PowerOffStep == ASSUME IndInv, PowerOff PROVE IndInv'
  <1> USE DEF PowerOff
  <1>1. mem' \in [Copies -> Tables] /\ flags0' \in Tables /\ curent' \in -1 .. N /\ part' \in Int
      BY GptAssumption DEF Tables
  <1>2. lba' \in [Copies -> BOOLEAN] /\ todo' \in [Copies -> SUBSET Writes]
      OBVIOUS
  <1>3. hit' \subseteq Copies
      BY DEF IndInv, TypeOK, NextCopy, Copies
  <1>4. TypeOK'
      BY <1>1, <1>2, <1>3 DEF IndInv, TypeOK
  <1>5. \A c \in Copies \ hit' : Valid(c)
      BY DEF IndInv, TableSurvives, Idle
  <1>6. Synced' /\ TableSurvives' /\ Idle'
      BY <1>5 DEF Synced, TableSurvives, Valid, Idle
  <1> QED BY <1>4, <1>6 DEF IndInv, CurentInTable

LEMMA StutterStep == ASSUME IndInv, UNCHANGED vars PROVE IndInv'
  BY DEF IndInv, vars, progVars, histVars, TypeOK, CurentInTable, Idle, Synced, TableSurvives,
         Valid, NextCopy

LEMMA NextStep == IndInv /\ [Next]_vars => IndInv'
  <1> SUFFICES ASSUME IndInv, [Next]_vars PROVE IndInv'
      OBVIOUS
  <1>1. CASE PowerOn
      BY <1>1, PowerOnStep
  <1>2. CASE PowerOff
      BY <1>2, PowerOffStep
  <1>3. CASE gptfind
      BY <1>3, FindStep
  <1>4. CASE Config
    <2>1. CASE NamePart("config")
        BY <2>1, <1>4, NamePartStep DEF Config
    <2>2. CASE BadCommand
        BY <2>2, BadCommandStep
    <2> QED BY <1>4, <2>1, <2>2, MoveStep DEF Config
  <1>5. CASE BootExec
      BY <1>5, ExecStep DEF BootExec
  <1>6. CASE BootFails
      BY <1>6, BootFailsStep
  <1>7. CASE \E c \in Copies : \E w \in todo[c] : drvwrite(c, w) \/ drvwriteFails(c, w)
      BY <1>7, WriteStep, WriteFailsStep
  <1>8. CASE KeyHit
      BY <1>8, MoveStep DEF KeyHit
  <1>9. CASE Prompt
    <2>1. CASE NamePart("prompt")
        BY <2>1, <1>9, NamePartStep DEF Prompt
    <2>2. CASE BadCommand
        BY <2>2, BadCommandStep
    <2> QED BY <1>9, <2>1, <2>2, MoveStep DEF Prompt
  <1>10. CASE PromptLoad
    <2>1. CASE Exec /\ UNCHANGED autoboot
        BY <2>1, ExecStep DEF IndInv, TypeOK
    <2> QED BY <1>10, <2>1, MoveStep DEF PromptLoad
  <1>11. CASE UNCHANGED vars
      BY <1>11, StutterStep
  <1> QED BY <1>1, <1>2, <1>3, <1>4, <1>5, <1>6, <1>7, <1>8, <1>9, <1>10, <1>11 DEF Next, Step

-----------------------------------------------------------------------------
LEMMA Inductive == Spec => []IndInv
  BY InitInv, NextStep, PTL DEF Spec

\* Every variable of gptboot keeps its type, for every table size, bound and fault.
THEOREM TypeCorrect == Spec => []TypeOK
  <1>1. IndInv => TypeOK
      BY DEF IndInv
  <1> QED BY <1>1, Inductive, PTL

\* Before every load() and gptbootfailed(), curent is an entry of the table of type
\* freebsd-ufs and dsk.start is its first sector: main() never indexes past the table.
THEOREM NeverPastTable == Spec => []CurentInTable
  <1>1. IndInv => CurentInTable
      BY DEF IndInv
  <1> QED BY <1>1, Inductive, PTL

\* Power may fail between any two writes of gptupdate() and gptbootconv(), and any write
\* may fail: a copy of the table that was never caught in the middle always checks.
THEOREM Survives == Spec => []TableSurvives
  <1>1. IndInv => TableSurvives
      BY DEF IndInv
  <1> QED BY <1>1, Inductive, PTL
-----------------------------------------------------------------------------
(***************************************************************************)
(* One-shot boots.  As long as no read or write fails, both tables in      *)
(* memory describe what is on the disk, and the entries that were started  *)
(* once are not armed in any of the four.                                  *)
(***************************************************************************)

\* A copy in use differs from its table in memory only where a write is pending, and its
\* checksum is the table's unless the header is still to be written.
Settled ==
    \A c \in Copies : lba[c] =>
        /\ todo[c] # {} => Hdr \in todo[c]
        /\ Hdr \notin todo[c] => disk[c].crc = mem[c]
        /\ \A e \in Ents : Sector(e) \notin todo[c] => disk[c].table[e] = mem[c][e]

\* A copy not in use is one gptread rejected, and nobody writes to it.
Unused == \A c \in Copies : ~lba[c] => todo[c] = {} /\ (pc # "off" => ~Valid(c))

Unarmed(a) == "me" \notin a \/ "once" \notin a

\* What was started once is armed neither in memory nor in a table that checks.
TriedUnarmed ==
    \A e \in tried, c \in Copies :
        /\ lba[c] => Unarmed(disk[c].table[e]) /\ Unarmed(mem[c][e])
        /\ Valid(c) => Unarmed(disk[c].table[e])

\* The one-shot entry about to be loaded has lost BOOTME in every copy in use.
StartUnarmed ==
    start # -1 => /\ \E c \in Copies : lba[c]
                  /\ "once" \in gpttable[start] => \A c \in Copies : lba[c] => "me" \notin mem[c][start]

\* BOOTONCE alone is only ever the mark of the entry about to be loaded.
PureOnce ==
    \A c \in Copies, e \in Ents :
        lba[c] /\ mem[c][e] = {"once"} => e = start /\ "once" \in gpttable[e] /\ pc # "find"

\* Nothing is pending when the machine is off or the next stage runs.
AtRest ==
    /\ pc \in {"off", "os"} => Idle
    /\ pc = "off" => start = -1 /\ \A c \in Copies : ~lba[c]
    /\ pc = "os" => start # -1

\* Until power is cut during a write, the two copies are treated alike.
Twins ==
    hit = {} => IF pc = "off" THEN disk["primary"] = disk["backup"]
                ELSE mem["primary"] = mem["backup"] /\ \A c \in Copies : lba[c]

OnceInv == faults = 0 => Settled /\ Unused /\ TriedUnarmed /\ StartUnarmed /\ PureOnce /\ AtRest /\ Twins

LEMMA ConvSame ==
    ASSUME NEW t \in Tables, NEW e \in Ents, Sector(e) \notin ConvWrites(t)
    PROVE  gptbootconv(t)[e] = t[e]
  <1>1. e \notin Converted(t)
      BY DEF ConvWrites
  <1> QED BY <1>1 DEF gptbootconv

\* The header is always among the writes gptbootconv asks for; with none, nothing changed.
LEMMA ConvHeader ==
    ASSUME NEW t \in Tables
    PROVE  /\ ConvWrites(t) # {} => Hdr \in ConvWrites(t)
           /\ Hdr \notin ConvWrites(t) => gptbootconv(t) = t
  <1>1. ConvWrites(t) # {} => Hdr \in ConvWrites(t)
      BY DEF ConvWrites
  <1>2. ASSUME Hdr \notin ConvWrites(t) PROVE gptbootconv(t) = t
    <2>1. gptbootconv(t) \in Tables
        BY ConvType
    <2>2. \A e \in Ents : gptbootconv(t)[e] = t[e]
        BY <1>1, <1>2, ConvSame
    <2> QED BY <2>1, <2>2 DEF Tables
  <1> QED BY <1>1, <1>2

LEMMA ConvUnarmed ==
    ASSUME NEW t \in Tables, NEW e \in Ents, Unarmed(t[e]) PROVE Unarmed(gptbootconv(t)[e])
  BY DEF gptbootconv, Unarmed

\* A table that fills its sectors keeps no entry with BOOTONCE alone.
LEMMA ConvPure ==
    ASSUME N % EPS = 0, NEW t \in Tables, NEW e \in Ents PROVE gptbootconv(t)[e] # {"once"}
  <1>1. ConvEnd = N
      BY GptAssumption DEF ConvEnd
  <1>2. e < ConvEnd
      BY <1>1, GptAssumption DEF Ents
  <1>3. t[e] = {"once"} => e \in Converted(t)
      BY <1>2 DEF Converted
  <1>4. {"failed"} # {"once"}
      OBVIOUS
  <1> QED BY <1>3, <1>4 DEF gptbootconv

\* Undisturbed copies are equal whenever nothing is pending.
LEMMA TwinsAgree ==
    ASSUME IndInv, OnceInv, faults = 0, hit = {}, Idle PROVE disk["primary"] = disk["backup"]
  <1>1. CASE pc = "off"
      BY <1>1 DEF OnceInv, Twins
  <1>2. CASE pc # "off"
    <2>1. mem["primary"] = mem["backup"] /\ \A c \in Copies : lba[c]
        BY <1>2 DEF OnceInv, Twins
    <2>2. disk \in [Copies -> [table : Tables, crc : Tables]] /\ mem \in [Copies -> Tables]
        BY DEF IndInv, TypeOK
    <2>3. ASSUME NEW c \in Copies PROVE disk[c] = [table |-> mem[c], crc |-> mem[c]]
      <3>1. disk[c].crc = mem[c] /\ \A e \in Ents : disk[c].table[e] = mem[c][e]
          BY <2>1 DEF OnceInv, Settled, Idle
      <3>2. disk[c] \in [table : Tables, crc : Tables] /\ disk[c].table \in Tables /\ mem[c] \in Tables
          BY <2>2
      <3>3. disk[c].table = mem[c]
          BY <3>1, <3>2 DEF Tables
      <3> QED BY <3>1, <3>2, <3>3
    <2> QED BY <2>1, <2>3 DEF Copies
  <1> QED BY <1>1, <1>2

\* Without a failed read, gptread uses exactly the copies that check.
LEMMA ReadOnce ==
    ASSUME N % EPS = 0, IndInv, OnceInv, Idle, NEW who \in {"main", "config", "prompt"}, gptread(who),
           disk' = disk, hit' = hit, tried' = tried
    PROVE  OnceInv'
  <1> SUFFICES ASSUME faults' = 0
               PROVE  (Settled /\ Unused /\ TriedUnarmed /\ StartUnarmed /\ PureOnce /\ AtRest /\ Twins)'
      BY DEF OnceInv
  <1>1. faults = 0 /\ \A c \in Copies : lba'[c] <=> Valid(c)
    <2>1. PICK bad \in SUBSET Copies : /\ faults' = faults + Cardinality(bad)
                                       /\ lba' = [c \in Copies |-> c \notin bad /\ Valid(c)]
        BY DEF gptread
    <2>2. IsFiniteSet(bad) /\ Cardinality(bad) \in Nat /\ faults \in Nat
        BY CopiesFinite, FS_Subset, BadCount DEF IndInv, TypeOK
    <2>3. faults = 0 /\ Cardinality(bad) = 0
        BY <2>1, <2>2
    <2>4. bad = {}
        BY <2>2, <2>3, FS_EmptySet
    <2> QED BY <2>1, <2>3, <2>4
  <1>2. disk \in [Copies -> [table : Tables, crc : Tables]] /\ \A c \in Copies : disk[c].table \in Tables
      BY DEF IndInv, TypeOK
  <1>3. \A c \in Copies : lba'[c] => /\ mem'[c] = gptbootconv(disk[c].table)
                                     /\ todo'[c] = ConvWrites(disk[c].table)
      BY DEF gptread
  <1>4. \A c \in Copies : ~lba'[c] => todo'[c] = {}
      BY DEF gptread
  <1>5. tried \subseteq Ents
      BY GptAssumption DEF IndInv, TypeOK, Ents
  <1>6. Settled'
    <2> SUFFICES ASSUME NEW c \in Copies, lba'[c]
                 PROVE  /\ todo'[c] # {} => Hdr \in todo'[c]
                        /\ Hdr \notin todo'[c] => disk[c].crc = mem'[c]
                        /\ \A e \in Ents : Sector(e) \notin todo'[c] => disk[c].table[e] = mem'[c][e]
        BY DEF Settled
    <2>1. disk[c].crc = disk[c].table
        BY <1>1 DEF Valid
    <2> QED BY <2>1, <1>2, <1>3, ConvHeader, ConvSame
  <1>7. Unused'
      BY <1>1, <1>4 DEF Unused, Valid
  <1>8. TriedUnarmed'
    <2> SUFFICES ASSUME NEW e \in tried, NEW c \in Copies, Valid(c)
                 PROVE  Unarmed(disk[c].table[e]) /\ (lba'[c] => Unarmed(mem'[c][e]))
        BY <1>1 DEF TriedUnarmed, Valid
    <2>1. Unarmed(disk[c].table[e])
        BY <1>1 DEF OnceInv, TriedUnarmed
    <2> QED BY <2>1, <1>2, <1>3, <1>5, ConvUnarmed
  <1>9. StartUnarmed'
      BY DEF StartUnarmed, gptread
  <1>10. PureOnce'
      BY <1>2, <1>3, ConvPure DEF PureOnce
  <1>11. pc' \in {"find", "halt", "prompt"}
      BY DEF gptread, AfterFailure
  <1>12. AtRest'
      BY <1>11 DEF AtRest
  <1>13. Twins'
    <2> SUFFICES ASSUME hit = {} PROVE mem'["primary"] = mem'["backup"] /\ \A c \in Copies : lba'[c]
        BY <1>11 DEF Twins
    <2>1. disk["primary"] = disk["backup"]
        BY <1>1, TwinsAgree
    <2>2. \A c \in Copies : lba'[c]
        BY <1>1 DEF IndInv, TableSurvives, Idle
    <2> QED BY <1>3, <2>1, <2>2 DEF Copies
  <1> QED BY <1>6, <1>7, <1>8, <1>9, <1>10, <1>12, <1>13

\* gptfind and gptbootfailed change one entry in the copies in use and queue its sector.
LEMMA MarkOnce ==
    ASSUME IndInv, OnceInv, faults = 0, Idle, pc # "off", pc' # "off",
           NEW e \in Ents, NEW oneshot \in BOOLEAN,
           \A c \in Copies : /\ ~(oneshot /\ lba[c]) => mem'[c] = mem[c]
                             /\ \A x \in Ents \ {e} : mem'[c][x] = mem[c][x],
           todo' = [c \in Copies |-> IF oneshot /\ lba[c] THEN {Sector(e), Hdr} ELSE {}],
           lba' = lba, disk' = disk
    PROVE  Settled' /\ Unused'
  <1>1. \A c \in Copies : lba[c] => /\ disk[c].crc = mem[c]
                                    /\ \A x \in Ents : disk[c].table[x] = mem[c][x]
      BY DEF OnceInv, Settled, Idle
  <1>2. ASSUME NEW c \in Copies, lba[c]
        PROVE  /\ todo'[c] # {} => Hdr \in todo'[c]
               /\ Hdr \notin todo'[c] => disk[c].crc = mem'[c]
               /\ \A x \in Ents : Sector(x) \notin todo'[c] => disk[c].table[x] = mem'[c][x]
    <2>1. CASE oneshot
      <3>1. todo'[c] = {Sector(e), Hdr}
          BY <2>1, <1>2
      <3>2. \A x \in Ents : Sector(x) \notin todo'[c] => x # e
          BY <3>1
      <3> QED BY <3>1, <3>2, <1>1, <1>2
    <2>2. CASE ~oneshot
        BY <2>2, <1>1, <1>2
    <2> QED BY <2>1, <2>2
  <1>3. Settled'
      BY <1>2 DEF Settled
  <1>4. Unused'
      BY DEF OnceInv, Unused, Valid
  <1> QED BY <1>3, <1>4

LEMMA FoundOnce ==
    ASSUME IndInv, OnceInv, Idle, pc = "find", NEW e \in UFS, Found(e), FindFrame,
           \E c \in Copies : lba[c]
    PROVE  OnceInv'
  <1> SUFFICES ASSUME faults = 0
               PROVE  (Settled /\ Unused /\ TriedUnarmed /\ StartUnarmed /\ PureOnce /\ AtRest /\ Twins)'
      BY DEF OnceInv, FindFrame
  <1> USE DEF FindFrame
  <1> DEFINE oneshot == "once" \in gpttable[e]
  <1>1. e \in Ents /\ e # -1
      BY GptAssumption DEF Ents
  <1>2. mem \in [Copies -> Tables] /\ lba \in [Copies -> BOOLEAN]
      BY DEF IndInv, TypeOK
  <1>3. \A c \in Copies : /\ ~(oneshot /\ lba[c]) => mem'[c] = mem[c]
                          /\ \A x \in Ents \ {e} : mem'[c][x] = mem[c][x]
                          /\ mem'[c][e] = IF oneshot /\ lba[c] THEN mem[c][e] \ {"me"} ELSE mem[c][e]
      BY <1>1, <1>2 DEF Found, Tables
  <1>4. todo' = [c \in Copies |-> IF oneshot /\ lba[c] THEN {Sector(e), Hdr} ELSE {}]
      BY DEF Found
  <1>5. oneshot \in BOOLEAN
      OBVIOUS
  <1>6. pc' \in {"config", "boot", "load"} /\ start' = e
      BY DEF Found, IndInv, TypeOK, AfterFound
  <1>7. "once" \in gpttable'[e] <=> oneshot
      BY <1>3 DEF gpttable, Copies
  <1>8. \A c \in Copies : lba[c] => (mem'[c][e] = {"once"} => oneshot)
      BY <1>1, <1>3 DEF OnceInv, PureOnce
  <1>9. Twins'
    <2> SUFFICES ASSUME hit = {} PROVE mem'["primary"] = mem'["backup"] /\ \A c \in Copies : lba[c]
        BY <1>6 DEF Twins
    <2>1. mem["primary"] = mem["backup"] /\ \A c \in Copies : lba[c]
        BY DEF OnceInv, Twins
    <2> QED BY <2>1 DEF Found, Copies
  <1> HIDE DEF oneshot
  <1>10. Settled' /\ Unused'
      BY <1>1, <1>3, <1>4, <1>5, <1>6, MarkOnce
  <1>11. TriedUnarmed'
    <2> SUFFICES ASSUME NEW x \in tried, NEW c \in Copies
                 PROVE  /\ lba[c] => Unarmed(disk[c].table[x]) /\ Unarmed(mem'[c][x])
                        /\ Valid(c) => Unarmed(disk[c].table[x])
        BY DEF TriedUnarmed, Valid
    <2>1. /\ lba[c] => Unarmed(disk[c].table[x]) /\ Unarmed(mem[c][x])
          /\ Valid(c) => Unarmed(disk[c].table[x])
        BY DEF OnceInv, TriedUnarmed
    <2>2. Unarmed(mem[c][x]) => Unarmed(mem'[c][x])
        BY <1>3, GptAssumption DEF Unarmed, IndInv, TypeOK, Ents
    <2> QED BY <2>1, <2>2
  <1>12. StartUnarmed'
      BY <1>3, <1>6, <1>7 DEF StartUnarmed
  <1>13. PureOnce'
    <2> SUFFICES ASSUME NEW c \in Copies, NEW x \in Ents, lba[c], mem'[c][x] = {"once"}
                 PROVE  x = e /\ oneshot
        BY <1>6, <1>7 DEF PureOnce
    <2>1. x = e
        BY <1>3 DEF OnceInv, PureOnce
    <2> QED BY <2>1, <1>8
  <1>14. AtRest'
      BY <1>6 DEF AtRest
  <1> QED BY <1>9, <1>10, <1>11, <1>12, <1>13, <1>14

\* The search: gptfind runs on a table that was read, and finds an entry or gives up.
LEMMA FindCases ==
    ASSUME IndInv, gptfind
    PROVE  /\ pc = "find" /\ Idle /\ FindFrame
           /\ \/ \E e \in UFS : Found(e)
              \/ NotFound
  BY DEF gptfind, FindFrame, FindPart, FindNext, OnceEnts, BootEnts

\* gptfind only runs when some copy was accepted.
Searching == pc \in {"find", "config", "boot"} => \E c \in Copies : lba[c]

LEMMA SearchingStep == ASSUME IndInv, Searching, [Next]_vars PROVE Searching'
  <1>1. CASE \E who \in {"main", "config", "prompt"} : gptread(who)
      BY <1>1 DEF Searching, gptread, AfterFailure
  <1>2. CASE lba' = lba /\ (pc' \in {"find", "config", "boot"} => pc \in {"find", "config", "boot"})
      BY <1>2 DEF Searching
  <1>3. CASE PowerOff
      BY <1>3 DEF Searching, PowerOff
  <1>4. CASE gptfind
      BY <1>2, <1>4 DEF gptfind
  <1>5. CASE BootExec \/ BootFails \/ KeyHit \/ PromptLoad
      BY <1>2, <1>5 DEF BootExec, BootFails, KeyHit, PromptLoad, Exec
  <1>6. CASE \E c \in Copies : \E w \in todo[c] : drvwrite(c, w) \/ drvwriteFails(c, w)
      BY <1>2, <1>6 DEF drvwrite, drvwriteFails
  <1>7. CASE Config \/ Prompt
      BY <1>1, <1>2, <1>7 DEF Config, Prompt, NamePart, BadCommand
  <1>8. CASE PowerOn
      BY <1>1, <1>8 DEF PowerOn
  <1>9. CASE UNCHANGED vars
      BY <1>2, <1>9 DEF vars, progVars
  <1> QED BY <1>3, <1>4, <1>5, <1>6, <1>7, <1>8, <1>9 DEF Next, Step

\* Steps that keep the disk, the tables and the pending writes keep all of OnceInv.
LEMMA QuietOnce ==
    ASSUME OnceInv, UNCHANGED <<disk, mem, lba, todo, start, hit, faults, tried>>,
           pc # "off", pc' # "off", pc' # "os", pc' # "find"
    PROVE  OnceInv'
  BY DEF OnceInv, Settled, Unused, Valid, TriedUnarmed, StartUnarmed, gpttable, PureOnce, AtRest,
         Twins, Idle

\* __exec() of a one-shot entry: it has lost BOOTME, in memory and on every copy that checks.
LEMMA ExecOnce == ASSUME IndInv, OnceInv, Idle, pc # "off", Exec PROVE OnceInv'
  <1> SUFFICES ASSUME faults = 0
               PROVE  (Settled /\ Unused /\ TriedUnarmed /\ StartUnarmed /\ PureOnce /\ AtRest /\ Twins)'
      BY DEF OnceInv, Exec
  <1> USE DEF Exec
  <1>1. start \in Ents /\ start # -1
      BY GptAssumption DEF Ents
  <1>2. Settled' /\ Unused' /\ StartUnarmed' /\ PureOnce' /\ Twins'
      BY DEF OnceInv, Settled, Unused, Valid, StartUnarmed, gpttable, PureOnce, Twins
  <1>3. AtRest'
      BY <1>1 DEF AtRest, Idle
  <1>4. TriedUnarmed'
    <2> SUFFICES ASSUME NEW e \in tried', NEW c \in Copies
                 PROVE  /\ lba[c] => Unarmed(disk[c].table[e]) /\ Unarmed(mem[c][e])
                        /\ Valid(c) => Unarmed(disk[c].table[e])
        BY DEF TriedUnarmed, Valid
    <2>1. CASE e \in tried
        BY <2>1 DEF OnceInv, TriedUnarmed
    <2>2. CASE e \notin tried
      <3>1. e = start /\ "once" \in gpttable[start]
          BY <2>2
      <3>2. lba[c] => "me" \notin mem[c][e] /\ disk[c].table[e] = mem[c][e]
          BY <3>1, <1>1 DEF OnceInv, StartUnarmed, Settled, Idle
      <3>3. Valid(c) => lba[c]
          BY DEF OnceInv, Unused
      <3> QED BY <3>2, <3>3 DEF Unarmed
    <2> QED BY <2>1, <2>2
  <1> QED BY <1>2, <1>3, <1>4

\* gptbootfailed: the entry that failed is no longer marked as running.
LEMMA FailOnce == ASSUME IndInv, OnceInv, BootFails PROVE OnceInv'
  <1> SUFFICES ASSUME faults = 0
               PROVE  (Settled /\ Unused /\ TriedUnarmed /\ StartUnarmed /\ PureOnce /\ AtRest /\ Twins)'
      BY DEF OnceInv, BootFails
  <1> DEFINE oneshot == "once" \in gpttable[curent]
  <1>1. curent \in Ents /\ curent = start /\ start # -1
    <2>1. curent \in UFS /\ start = curent
        BY DEF IndInv, CurentInTable, BootFails
    <2> QED BY <2>1, GptAssumption DEF Ents
  <1>2. mem \in [Copies -> Tables] /\ lba \in [Copies -> BOOLEAN]
      BY DEF IndInv, TypeOK
  <1>3. \A c \in Copies :
          /\ ~(oneshot /\ lba[c]) => mem'[c] = mem[c]
          /\ \A x \in Ents \ {curent} : mem'[c][x] = mem[c][x]
          /\ mem'[c][curent] = IF oneshot /\ lba[c] THEN (mem[c][curent] \ {"once"}) \union {"failed"}
                               ELSE mem[c][curent]
      BY <1>1, <1>2 DEF BootFails, gptbootfailed, Tables
  <1>4. todo' = [c \in Copies |-> IF oneshot /\ lba[c] THEN {Sector(curent), Hdr} ELSE {}]
      BY DEF BootFails, gptbootfailed
  <1>5. oneshot \in BOOLEAN
      OBVIOUS
  <1>6. /\ lba' = lba /\ disk' = disk /\ tried' = tried /\ start' = start /\ hit' = hit
        /\ pc = "boot" /\ pc' = "find" /\ Idle
      BY DEF BootFails
  <1>7. \E c \in Copies : lba[c]
      BY <1>1 DEF OnceInv, StartUnarmed
  <1>8. "once" \notin gpttable'[curent]
      BY <1>3, <1>6, <1>7 DEF gpttable, Copies
  <1>9. PureOnce'
    <2> SUFFICES ASSUME NEW c \in Copies, NEW x \in Ents, lba[c], mem'[c][x] = {"once"}
                 PROVE  FALSE
        BY <1>6 DEF PureOnce
    <2>1. x = curent
        BY <1>1, <1>3 DEF OnceInv, PureOnce
    <2>2. CASE oneshot
        BY <2>1, <2>2, <1>3
    <2>3. CASE ~oneshot
        BY <2>1, <2>3, <1>3 DEF OnceInv, PureOnce
    <2> QED BY <2>2, <2>3
  <1>10. Twins'
    <2> SUFFICES ASSUME hit = {} PROVE mem'["primary"] = mem'["backup"] /\ \A c \in Copies : lba[c]
        BY <1>6 DEF Twins
    <2>1. mem["primary"] = mem["backup"] /\ \A c \in Copies : lba[c]
        BY <1>6 DEF OnceInv, Twins
    <2> QED BY <2>1 DEF BootFails, gptbootfailed, Copies
  <1> HIDE DEF oneshot
  <1>11. Settled' /\ Unused'
      BY <1>1, <1>3, <1>4, <1>5, <1>6, MarkOnce
  <1>12. TriedUnarmed'
    <2> SUFFICES ASSUME NEW x \in tried, NEW c \in Copies
                 PROVE  /\ lba[c] => Unarmed(disk[c].table[x]) /\ Unarmed(mem'[c][x])
                        /\ Valid(c) => Unarmed(disk[c].table[x])
        BY <1>6 DEF TriedUnarmed, Valid
    <2>1. /\ lba[c] => Unarmed(disk[c].table[x]) /\ Unarmed(mem[c][x])
          /\ Valid(c) => Unarmed(disk[c].table[x])
        BY DEF OnceInv, TriedUnarmed
    <2>2. Unarmed(mem[c][x]) => Unarmed(mem'[c][x])
        BY <1>3, GptAssumption DEF Unarmed, IndInv, TypeOK, Ents
    <2> QED BY <2>1, <2>2
  <1>13. StartUnarmed'
      BY <1>1, <1>6, <1>7, <1>8 DEF StartUnarmed
  <1>14. AtRest'
      BY <1>6 DEF AtRest
  <1> QED BY <1>9, <1>10, <1>11, <1>12, <1>13, <1>14

\* drvwrite: a sector of the table, or the header once the sectors are done.
LEMMA WriteOnce ==
    ASSUME IndInv, OnceInv, NEW c \in Copies, NEW w \in todo[c], drvwrite(c, w) PROVE OnceInv'
  <1> SUFFICES ASSUME faults = 0
               PROVE  (Settled /\ Unused /\ TriedUnarmed /\ StartUnarmed /\ PureOnce /\ AtRest /\ Twins)'
      BY DEF OnceInv, drvwrite, histVars
  <1> USE DEF drvwrite, histVars
  <1>1. /\ disk \in [Copies -> [table : Tables, crc : Tables]] /\ mem \in [Copies -> Tables]
        /\ todo \in [Copies -> SUBSET Writes]
      BY DEF IndInv, TypeOK
  <1>2. \A d \in Copies \ {c} : disk'[d] = disk[d] /\ todo'[d] = todo[d]
      BY <1>1
  <1>3. disk'[c] = Written(c, w) /\ todo'[c] = todo[c] \ {w}
      BY <1>1
  <1>4. lba[c] /\ Hdr \in todo[c] /\ pc \notin {"off", "os"}
      BY DEF OnceInv, Unused, Settled, AtRest, Idle
  <1>5. w = Hdr => todo'[c] = {}
    <2>1. w \in Nat /\ Hdr \in Nat /\ \A x \in todo[c] : x \in Nat /\ x <= Hdr /\ w <= x
        BY <1>1, GptAssumption, SectorRange DEF Writes, Least, Ents
    <2> QED BY <2>1, <1>3
  <1>6. /\ \A e \in Ents : disk'[c].table[e] = IF w # Hdr /\ Sector(e) = w THEN mem[c][e]
                                              ELSE disk[c].table[e]
        /\ w = Hdr => disk'[c].crc = mem[c]
    <2>1. CASE w = Hdr
        BY <2>1, <1>1, <1>3 DEF Written
    <2>2. CASE w # Hdr
        BY <2>2, <1>1, <1>3 DEF Written
    <2> QED BY <2>1, <2>2
  <1>7. Settled'
    <2> SUFFICES ASSUME NEW d \in Copies, lba[d]
                 PROVE  /\ todo'[d] # {} => Hdr \in todo'[d]
                        /\ Hdr \notin todo'[d] => disk'[d].crc = mem[d]
                        /\ \A e \in Ents : Sector(e) \notin todo'[d] => disk'[d].table[e] = mem[d][e]
        BY DEF Settled
    <2>1. CASE d # c
        BY <2>1, <1>2 DEF OnceInv, Settled
    <2>2. CASE d = c
      <3>1. todo'[c] # {} => Hdr \in todo'[c]
          BY <1>3, <1>4, <1>5
      <3>2. Hdr \notin todo'[c] => disk'[c].crc = mem[c]
          BY <1>3, <1>4, <1>6
      <3>3. ASSUME NEW e \in Ents, Sector(e) \notin todo'[c] PROVE disk'[c].table[e] = mem[c][e]
        <4>1. CASE Sector(e) = w
            BY <4>1, <1>6, SectorWrite
        <4>2. CASE Sector(e) # w
          <5>1. Sector(e) \notin todo[c]
              BY <4>2, <3>3, <1>3
          <5> QED BY <5>1, <4>2, <1>4, <1>6 DEF OnceInv, Settled
        <4> QED BY <4>1, <4>2
      <3> QED BY <2>2, <3>1, <3>2, <3>3
    <2> QED BY <2>1, <2>2
  <1>8. Unused'
      BY <1>2, <1>4 DEF OnceInv, Unused, Valid
  <1>9. TriedUnarmed'
    <2> SUFFICES ASSUME NEW e \in tried, NEW d \in Copies
                 PROVE  /\ lba[d] => Unarmed(disk'[d].table[e]) /\ Unarmed(mem[d][e])
                        /\ (disk'[d].table = disk'[d].crc) => Unarmed(disk'[d].table[e])
        BY DEF TriedUnarmed, Valid
    <2>1. e \in Ents
        BY GptAssumption DEF IndInv, TypeOK, Ents
    <2>2. CASE d # c
        BY <2>2, <1>2 DEF OnceInv, TriedUnarmed, Valid
    <2>3. CASE d = c
        BY <2>1, <2>3, <1>4, <1>6 DEF OnceInv, TriedUnarmed
    <2> QED BY <2>2, <2>3
  <1>10. StartUnarmed' /\ PureOnce' /\ AtRest' /\ Twins'
      BY <1>4 DEF OnceInv, StartUnarmed, gpttable, PureOnce, AtRest, Twins
  <1> QED BY <1>7, <1>8, <1>9, <1>10

LEMMA OffOnce == ASSUME IndInv, OnceInv, PowerOff PROVE OnceInv'
  <1> SUFFICES ASSUME faults = 0
               PROVE  (Settled /\ Unused /\ TriedUnarmed /\ StartUnarmed /\ PureOnce /\ AtRest /\ Twins)'
      BY DEF OnceInv, PowerOff
  <1> USE DEF PowerOff
  <1>1. Settled' /\ Unused' /\ StartUnarmed' /\ PureOnce' /\ AtRest'
      BY DEF Settled, Unused, StartUnarmed, PureOnce, AtRest, Idle
  <1>2. TriedUnarmed'
      BY DEF OnceInv, TriedUnarmed, Valid
  <1>3. Twins'
      BY TwinsAgree DEF Twins
  <1> QED BY <1>1, <1>2, <1>3

LEMMA NextOnce ==
    ASSUME N % EPS = 0, IndInv, Searching, OnceInv, [Next]_vars PROVE OnceInv'
  <1>1. CASE PowerOn
      BY <1>1, ReadOnce DEF PowerOn, IndInv
  <1>2. CASE PowerOff
      BY <1>2, OffOnce
  <1>3. CASE gptfind
    <2>1. CASE \E e \in UFS : Found(e)
        BY <1>3, <2>1, FindCases, FoundOnce DEF Searching
    <2>2. CASE NotFound
      <3>1. pc' \in {"halt", "prompt"} /\ pc # "off"
          BY <1>3, <2>2 DEF NotFound, AfterFailure, gptfind
      <3> QED BY <1>3, <2>2, <3>1, QuietOnce DEF NotFound, gptfind
    <2> QED BY <1>3, <2>1, <2>2, FindCases
  <1>4. CASE Config \/ Prompt
    <2>1. ASSUME NEW who \in {"config", "prompt"}, NamePart(who) PROVE OnceInv'
        BY <1>4, <2>1, ReadOnce DEF NamePart, Config, Prompt
    <2>2. CASE BadCommand
        BY <1>4, <2>2, QuietOnce DEF BadCommand, histVars, Config, Prompt
    <2>3. CASE pc' \in {"boot", "load"} /\ UNCHANGED <<disk, mem, lba, curent, bootonce, part, start,
                    autoboot, todo, updating, caller, histVars>>
        BY <1>4, <2>3, QuietOnce DEF histVars, Config, Prompt
    <2> QED BY <1>4, <2>1, <2>2, <2>3 DEF Config, Prompt
  <1>5. CASE BootExec
      BY <1>5, ExecOnce DEF BootExec
  <1>6. CASE BootFails
      BY <1>6, FailOnce
  <1>7. CASE \E c \in Copies : \E w \in todo[c] : drvwrite(c, w)
      BY <1>7, WriteOnce
  <1>8. CASE \E c \in Copies : \E w \in todo[c] : drvwriteFails(c, w)
    <2>1. faults' # 0
        BY <1>8 DEF drvwriteFails, IndInv, TypeOK
    <2> QED BY <2>1 DEF OnceInv
  <1>9. CASE KeyHit
      BY <1>9, QuietOnce DEF KeyHit, histVars
  <1>10. CASE PromptLoad
    <2>1. CASE Exec
        BY <1>10, <2>1, ExecOnce DEF PromptLoad
    <2> QED BY <1>10, <2>1, QuietOnce DEF PromptLoad, histVars
  <1>11. CASE UNCHANGED vars
      BY <1>11 DEF vars, progVars, histVars, OnceInv, Settled, Unused, Valid, TriedUnarmed,
                   StartUnarmed, gpttable, PureOnce, AtRest, Twins, Idle
  <1> QED BY <1>1, <1>2, <1>3, <1>4, <1>5, <1>6, <1>7, <1>8, <1>9, <1>10, <1>11 DEF Next, Step

LEMMA InitOnce == Init => OnceInv /\ Searching
  BY DEF Init, OnceInv, Searching, Settled, Unused, TriedUnarmed, StartUnarmed, PureOnce, AtRest,
         Idle, Twins, Copies

\* What OnceInv says of a system that runs: BOOTONCE alone is the entry it came from.
LEMMA OnceGives == ASSUME IndInv, OnceInv PROVE OneShot
  <1> SUFFICES ASSUME faults = 0 PROVE OneShot
      BY DEF OneShot, OnceOnly, OnceMeansBooted, CopiesAgree
  <1>1. OnceOnly
      BY DEF OnceInv, TriedUnarmed, Unarmed, OnceOnly
  <1>2. OnceMeansBooted
    <2> SUFFICES ASSUME pc = "os", NEW e \in Ents, View[e] = {"once"} PROVE e = start
        BY DEF OnceMeansBooted
    <2>1. \A c \in Copies : lba[c] <=> Valid(c)
      <3>1. \A c \in Copies : Valid(c) => lba[c]
          BY DEF OnceInv, Unused
      <3>2. ASSUME NEW c \in Copies, lba[c] PROVE Valid(c)
        <4>1. disk[c].crc = mem[c] /\ \A x \in Ents : disk[c].table[x] = mem[c][x]
            BY <3>2 DEF OnceInv, Settled, AtRest, Idle
        <4>2. disk[c].table \in Tables /\ mem[c] \in Tables
            BY DEF IndInv, TypeOK
        <4>3. disk[c].table = mem[c]
            BY <4>1, <4>2 DEF Tables
        <4> QED BY <4>1, <4>3 DEF Valid
      <3> QED BY <3>1, <3>2
    <2>2. PICK c \in Copies : lba[c] /\ View = disk[c].table
        BY <2>1 DEF OnceInv, StartUnarmed, AtRest, View, Copies
    <2>3. mem[c][e] = {"once"}
        BY <2>2 DEF OnceInv, Settled, AtRest, Idle
    <2> QED BY <2>2, <2>3 DEF OnceInv, PureOnce
  <1>3. CopiesAgree
      BY TwinsAgree DEF CopiesAgree
  <1> QED BY <1>1, <1>2, <1>3 DEF OneShot

\* A one-shot boot happens at most once, whatever is interrupted; the system it starts
\* finds BOOTONCE alone on its own entry only; and both copies of the table record it.
\* gptbootconv() skips a last sector that the table does not fill, hence the hypothesis,
\* which the usual 128 entries in sectors of 4 satisfy.
THEOREM OneShotOnce == ASSUME N % EPS = 0 PROVE Spec => []OneShot
  <1>1. Init => IndInv /\ Searching /\ OnceInv
      BY InitInv, InitOnce
  <1>2. IndInv /\ Searching /\ OnceInv /\ [Next]_vars => (IndInv /\ Searching /\ OnceInv)'
      BY NextStep, SearchingStep, NextOnce
  <1>3. IndInv /\ OnceInv => OneShot
      BY OnceGives
  <1> QED BY <1>1, <1>2, <1>3, PTL DEF Spec

-----------------------------------------------------------------------------
(***************************************************************************)
(* The automatic search.  gptfind walks the table twice, first for the     *)
(* one-shot entries, then for the others, while gptbootfailed changes it.  *)
(***************************************************************************)
OnceMe(e) == {"me", "once"} \subseteq flags0[e]
PlainMe(e) == "me" \in flags0[e] /\ "once" \notin flags0[e]

\* The entries below curent that the first pass (bootonce), or both passes, looked for
\* have been attempted.
Behind ==
    /\ \A e \in UFS : OnceMe(e) /\ (e < curent \/ ~bootonce) => e \in attempted
    /\ ~bootonce => \A e \in UFS : PlainMe(e) /\ e < curent => e \in attempted

\* The entries still ahead of the search keep the flags gptread found.
Ahead ==
    /\ bootonce => \A e \in UFS : OnceMe(e) /\ e > curent => {"me", "once"} \subseteq gpttable[e]
    /\ \A e \in UFS : PlainMe(e) => "me" \in gpttable[e] /\ "once" \notin gpttable[e]

\* The first pass only stops at entries it has picked, which lose BOOTME.
FirstPass ==
    /\ curent = -1 => bootonce /\ attempted = {}
    /\ bootonce /\ curent \in Ents => curent \in picked /\ "me" \notin gpttable[curent]
    /\ bootonce /\ curent = N => N - 1 \in picked

\* An attempted entry is behind the search, or is no longer a candidate.
Spent ==
    \A e \in attempted : /\ e <= curent \/ "me" \notin gpttable[e]
                         /\ bootonce => e <= curent /\ "me" \notin gpttable[e]

\* Where gptfind starts.
FindFrom ==
    pc = "find" => /\ caller \in {"main", "retry"} /\ (caller = "main" => part = -1)
                   /\ curent # N /\ (curent # -1 => curent \in attempted)

SearchInv ==
    ~explicit /\ pc \in {"find", "config", "boot", "prompt", "load"} =>
        Behind /\ Ahead /\ FirstPass /\ Spent /\ FindFrom

\* gptread with BOOTONCE converted: the flags the search looks for are those on disk.
LEMMA ReadSearch ==
    ASSUME IndInv, PowerOn PROVE SearchInv'
  <1> SUFFICES ASSUME pc' = "find" PROVE SearchInv'
      BY DEF SearchInv, PowerOn, gptread, AfterFailure
  <1>1. PICK c \in Copies : /\ flags0' = disk[c].table
                            /\ gpttable' = gptbootconv(disk[c].table)
    <2>1. \E c \in Copies : lba'[c]
        BY DEF PowerOn, gptread, AfterFailure
    <2>2. CASE lba'["primary"]
        BY <2>2 DEF PowerOn, gptread, gpttable, Copies
    <2>3. CASE ~lba'["primary"]
        BY <2>1, <2>3 DEF PowerOn, gptread, gpttable, Copies
    <2> QED BY <2>2, <2>3
  <1>2. \A e \in Ents : "me" \in flags0'[e] => gpttable'[e] = flags0'[e]
      BY <1>1 DEF gptbootconv, Converted
  <1>3. curent' = -1 /\ bootonce' = TRUE /\ attempted' = {} /\ caller' = "main" /\ part' = -1
      BY DEF PowerOn, gptread
  <1>4. UFS \subseteq Ents /\ N # -1 /\ -1 \notin Ents /\ \A e \in UFS : ~(e < -1)
      BY GptAssumption DEF Ents
  <1>5. Behind' /\ FirstPass' /\ Spent' /\ FindFrom'
      BY <1>3, <1>4 DEF Behind, FirstPass, Spent, FindFrom
  <1>6. Ahead'
      BY <1>2, <1>4 DEF Ahead, OnceMe, PlainMe
  <1> QED BY <1>5, <1>6 DEF SearchInv

\* The table in use is one of the copies gptread accepted, so `found:' changes it.
LEMMA FoundTable ==
    ASSUME IndInv, NEW e \in UFS, Found(e), FindFrame, \E c \in Copies : lba[c]
    PROVE  /\ \A x \in Ents \ {e} : gpttable'[x] = gpttable[x]
           /\ gpttable'[e] = IF "once" \in gpttable[e] THEN gpttable[e] \ {"me"} ELSE gpttable[e]
  <1>1. e \in Ents /\ mem \in [Copies -> Tables]
      BY GptAssumption DEF Ents, IndInv, TypeOK
  <1>2. lba' = lba /\ \A c \in Copies :
          /\ \A x \in Ents \ {e} : mem'[c][x] = mem[c][x]
          /\ mem'[c][e] = IF "once" \in gpttable[e] /\ lba[c] THEN mem[c][e] \ {"me"} ELSE mem[c][e]
      BY <1>1 DEF Found, FindFrame, Tables
  <1> QED BY <1>2 DEF gpttable, Copies

\* What one of the passes of gptfind finds has not been attempted, and is recorded.
LEMMA FoundSearch ==
    ASSUME IndInv, Searching, SearchInv, ~explicit, pc = "find", NEW e \in UFS, Found(e), FindFrame,
           \/ bootonce /\ bootonce' /\ e \in OnceEnts(curent + 1) /\ Least(e, OnceEnts(curent + 1))
           \/ bootonce /\ ~bootonce' /\ OnceEnts(curent + 1) = {} /\ e \in BootEnts(0) /\ Least(e, BootEnts(0))
           \/ ~bootonce /\ ~bootonce' /\ e \in BootEnts(curent + 1) /\ Least(e, BootEnts(curent + 1))
           \/ curent = -1 /\ ~bootonce' /\ OnceEnts(0) = {} /\ BootEnts(0) = {}
    PROVE  SearchInv' /\ e \notin attempted
  <1> USE DEF FindFrame
  <1>0. bootonce \in BOOLEAN /\ attempted \subseteq UFS /\ N \in Nat /\ UFS \subseteq Ents /\ Ents \subseteq Nat
      BY GptAssumption DEF IndInv, TypeOK, Ents
  <1>1. curent \in Int /\ \A x \in UFS : x \in Int /\ 0 <= x /\ x < N /\ x # -1 /\ x # N
      BY GptAssumption DEF IndInv, TypeOK, Ents
  <1>2. /\ \A x \in Ents \ {e} : gpttable'[x] = gpttable[x]
        /\ gpttable'[e] = IF "once" \in gpttable[e] THEN gpttable[e] \ {"me"} ELSE gpttable[e]
      BY FoundTable DEF Searching
  <1>3. /\ curent' = e /\ attempted' = attempted /\ flags0' = flags0 /\ explicit' = explicit
        /\ picked' = IF "once" \in gpttable[e] THEN picked \union {e} ELSE picked
      BY DEF Found
  <1>4. Behind /\ Ahead /\ FirstPass /\ Spent /\ FindFrom
      BY DEF SearchInv
  <1>5. pc' = "config"
      BY <1>4 DEF Found, AfterFound, FindFrom
  <1>6. e \notin attempted
    <2>1. e \in OnceEnts(curent + 1) \/ e \in BootEnts(curent + 1) => ~(e <= curent)
        BY <1>1 DEF OnceEnts, BootEnts
    <2>2. \A from : e \in BootEnts(from) \/ e \in OnceEnts(from) => "me" \in gpttable[e]
        BY DEF OnceEnts, BootEnts
    <2> QED BY <2>1, <2>2, <1>4 DEF Spent, FirstPass
  \* Every one-shot entry but e itself, up to the new curent, was attempted.
  <1>7. ASSUME NEW x \in UFS, OnceMe(x), x < e \/ ~bootonce' PROVE x \in attempted
    <2>1. CASE x <= curent \/ ~bootonce
        BY <2>1, <1>1, <1>4, <1>7 DEF Behind, FindFrom
    <2>2. CASE bootonce /\ ~(x <= curent)
      <3>1. x >= curent + 1 /\ {"me", "once"} \subseteq gpttable[x]
          BY <2>2, <1>1, <1>4, <1>7 DEF Ahead
      <3>2. x \in OnceEnts(curent + 1)
          BY <3>1 DEF OnceEnts
      <3>3. bootonce' /\ Least(e, OnceEnts(curent + 1))
        <4>1. CASE curent = -1
          <5>1. curent + 1 = 0
              BY <4>1
          <5> QED BY <5>1, <2>2, <3>2
        <4>2. CASE curent # -1
            BY <4>2, <2>2, <3>2
        <4> QED BY <4>1, <4>2
      <3>4. e <= x
          BY <3>2, <3>3 DEF Least
      <3> QED BY <3>3, <3>4, <1>1, <1>7
    <2> QED BY <2>1, <2>2, <1>0
  <1>8. ASSUME NEW x \in UFS, PlainMe(x), x < e, ~bootonce' PROVE x \in attempted
    <2>1. "me" \in gpttable[x] /\ "once" \notin gpttable[x]
        BY <1>4, <1>8 DEF Ahead
    <2>2. x \in BootEnts(0) /\ ~(e <= x)
        BY <2>1, <1>1, <1>8 DEF BootEnts
    <2>3. CASE ~bootonce
      <3>1. CASE x >= curent + 1
        <4>1. x \in BootEnts(curent + 1)
            BY <3>1, <2>1 DEF BootEnts
        <4>2. curent # -1
            BY <2>3, <1>4 DEF FirstPass
        <4> QED BY <4>1, <4>2, <2>2, <2>3, <1>8 DEF Least
      <3>2. CASE ~(x >= curent + 1)
          BY <3>2, <2>3, <1>1, <1>4, <1>8 DEF Behind, FindFrom
      <3> QED BY <3>1, <3>2
    <2>4. CASE bootonce
        BY <2>2, <2>4, <1>8 DEF Least
    <2> QED BY <2>3, <2>4, <1>0
  <1>9. Behind'
      BY <1>3, <1>7, <1>8 DEF Behind, OnceMe, PlainMe
  <1>10. Ahead'
    <2>1. ASSUME bootonce', NEW x \in UFS, OnceMe(x), x > e PROVE {"me", "once"} \subseteq gpttable'[x]
      <3>1. bootonce /\ e >= curent + 1
          BY <2>1 DEF OnceEnts
      <3>2. x > curent /\ x # e
          BY <3>1, <2>1, <1>1
      <3> QED BY <3>1, <3>2, <2>1, <1>0, <1>2, <1>4 DEF Ahead
    <2>2. ASSUME NEW x \in UFS, PlainMe(x) PROVE "me" \in gpttable'[x] /\ "once" \notin gpttable'[x]
        BY <2>2, <1>0, <1>2, <1>4 DEF Ahead
    <2> QED BY <2>1, <2>2, <1>3 DEF Ahead, OnceMe, PlainMe
  <1>11. FirstPass'
    <2>1. bootonce' => "once" \in gpttable[e]
        BY DEF OnceEnts
    <2> QED BY <2>1, <1>1, <1>2, <1>3 DEF FirstPass
  <1>12. Spent'
    <2> SUFFICES ASSUME NEW x \in attempted
                 PROVE  /\ x <= e \/ "me" \notin gpttable'[x]
                        /\ bootonce' => x <= e /\ "me" \notin gpttable'[x]
        BY <1>3 DEF Spent
    <2>1. x # e /\ gpttable'[x] = gpttable[x]
        BY <1>0, <1>2, <1>6
    <2>2. CASE bootonce'
      <3>1. bootonce /\ e >= curent + 1
          BY <2>2 DEF OnceEnts
      <3> QED BY <3>1, <2>1, <1>0, <1>1, <1>4 DEF Spent
    <2>3. CASE ~bootonce' /\ bootonce
        BY <2>1, <2>3, <1>4 DEF Spent
    <2>4. CASE ~bootonce' /\ ~bootonce
      <3>1. e >= curent + 1
          BY <2>4, <1>4 DEF BootEnts, FirstPass
      <3> QED BY <3>1, <2>1, <2>4, <1>0, <1>1, <1>4 DEF Spent
    <2> QED BY <2>2, <2>3, <2>4, <1>0
  <1>13. FindFrom'
      BY <1>5 DEF FindFrom
  <1> QED BY <1>6, <1>9, <1>10, <1>11, <1>12, <1>13 DEF SearchInv

\* gptfind gives up only after both passes, or after a one-shot entry that is the last one.
LEMMA GiveUpSearch ==
    ASSUME IndInv, SearchInv, ~explicit, pc = "find", NotFound, FindFrame, curent' = N,
           \/ curent + 1 >= N /\ bootonce' = bootonce
           \/ /\ ~bootonce' /\ (bootonce => OnceEnts(curent + 1) = {})
              /\ BootEnts(IF bootonce THEN 0 ELSE curent + 1) = {}
    PROVE  SearchInv'
  <1> USE DEF FindFrame, NotFound
  <1>0. bootonce \in BOOLEAN /\ attempted \subseteq UFS /\ N \in Nat /\ UFS \subseteq Ents /\ Ents \subseteq Nat
      BY GptAssumption DEF IndInv, TypeOK, Ents
  <1>1. curent \in Int /\ \A x \in UFS : x \in Int /\ 0 <= x /\ x < N
      BY GptAssumption DEF IndInv, TypeOK, Ents
  <1>2. gpttable' = gpttable
      BY DEF gpttable
  <1>3. Behind /\ Ahead /\ FirstPass /\ Spent /\ FindFrom
      BY DEF SearchInv
  <1>4. curent \in -1 .. N - 1 /\ N - 1 \in Ents /\ N # -1 /\ N \notin Ents
      BY <1>3, GptAssumption DEF IndInv, TypeOK, FindFrom, Ents
  <1>5. curent + 1 >= N => curent = N - 1
      BY <1>0, <1>4
  <1>6. ASSUME NEW x \in UFS, OnceMe(x) PROVE x \in attempted
    <2>1. CASE x <= curent \/ ~bootonce
        BY <2>1, <1>1, <1>3, <1>6 DEF Behind, FindFrom
    <2>2. CASE bootonce /\ ~(x <= curent)
      <3>1. x \in OnceEnts(curent + 1)
          BY <2>2, <1>1, <1>3, <1>6 DEF Ahead, OnceEnts
      <3>2. ~(curent + 1 >= N)
          BY <2>2, <1>0, <1>1, <1>5
      <3> QED BY <2>2, <3>1, <3>2
    <2> QED BY <2>1, <2>2, <1>0
  <1>7. ASSUME NEW x \in UFS, PlainMe(x), ~bootonce' PROVE x \in attempted
    <2>1. "me" \in gpttable[x] /\ "once" \notin gpttable[x]
        BY <1>3, <1>7 DEF Ahead
    <2>2. CASE x <= curent /\ ~bootonce
        BY <2>2, <1>1, <1>3, <1>7 DEF Behind, FindFrom
    <2>3. CASE ~(x <= curent) /\ ~bootonce
      <3>1. x \in BootEnts(curent + 1) /\ ~(curent + 1 >= N)
          BY <2>1, <2>3, <1>0, <1>1, <1>5 DEF BootEnts
      <3> QED BY <2>3, <3>1
    <2>4. CASE bootonce
      <3>1. x \in BootEnts(0)
          BY <2>1, <1>1 DEF BootEnts
      <3> QED BY <2>4, <3>1, <1>7
    <2> QED BY <2>2, <2>3, <2>4, <1>0
  <1>8. Behind'
      BY <1>6, <1>7 DEF Behind, OnceMe, PlainMe
  <1>9. Ahead'
    <2>1. \A x \in UFS : ~(x > N)
        BY <1>1, <1>0
    <2> QED BY <2>1, <1>2, <1>3 DEF Ahead, OnceMe, PlainMe
  <1>10. FirstPass'
    <2>1. bootonce' => bootonce /\ curent = N - 1
        BY <1>0, <1>5
    <2> QED BY <2>1, <1>3, <1>4 DEF FirstPass
  <1>11. Spent'
    <2>1. \A x \in attempted : x <= N
        BY <1>0, <1>1
    <2>2. bootonce' => bootonce
        BY <1>0
    <2> QED BY <2>1, <2>2, <1>2, <1>3 DEF Spent
  <1>12. FindFrom'
      BY DEF FindFrom, AfterFailure
  <1> QED BY <1>8, <1>9, <1>10, <1>11, <1>12 DEF SearchInv

LEMMA FindSearch ==
    ASSUME IndInv, Searching, SearchInv, gptfind
    PROVE  SearchInv' /\ (~explicit /\ pc' = "config" => curent' \notin attempted)
  <1> SUFFICES ASSUME ~explicit PROVE SearchInv' /\ (pc' = "config" => curent' \notin attempted)
      BY DEF gptfind, SearchInv
  <1>1. pc = "find" /\ FindFrame /\ Idle
      BY DEF gptfind, FindFrame
  <1>2. FindNext
    <2>1. FindFrom
        BY <1>1 DEF SearchInv
    <2> QED BY <1>1, <2>1 DEF gptfind, FindFrom
  <1>3. bootonce \in BOOLEAN /\ (curent = -1 => curent + 1 = 0 /\ bootonce)
      BY <1>1 DEF IndInv, TypeOK, SearchInv, FirstPass
  <1>4. CASE NotFound
    <2>1. pc' # "config"
        BY <1>4 DEF NotFound, AfterFailure
    <2>2. curent' = N
        BY <1>2, <1>4, <2>1, <1>1, FindCases DEF FindNext, Found, AfterFound, SearchInv, FindFrom
    <2>3. \/ curent + 1 >= N /\ bootonce' = bootonce
          \/ /\ ~bootonce' /\ (bootonce => OnceEnts(curent + 1) = {})
             /\ BootEnts(IF bootonce THEN 0 ELSE curent + 1) = {}
        BY <1>2, <1>4, <2>1, <1>1 DEF FindNext, Found, AfterFound, SearchInv, FindFrom
    <2> QED BY <1>1, <1>4, <2>1, <2>2, <2>3, GiveUpSearch
  <1>5. CASE ~NotFound
    <2>1. PICK e \in UFS :
             /\ Found(e)
             /\ \/ bootonce /\ bootonce' /\ e \in OnceEnts(curent + 1) /\ Least(e, OnceEnts(curent + 1))
                \/ bootonce /\ ~bootonce' /\ OnceEnts(curent + 1) = {} /\ e \in BootEnts(0) /\ Least(e, BootEnts(0))
                \/ ~bootonce /\ ~bootonce' /\ e \in BootEnts(curent + 1) /\ Least(e, BootEnts(curent + 1))
                \/ curent = -1 /\ ~bootonce' /\ OnceEnts(0) = {} /\ BootEnts(0) = {}
      <3>1. OnceEnts(curent + 1) \subseteq UFS /\ BootEnts(curent + 1) \subseteq UFS /\ BootEnts(0) \subseteq UFS
          BY DEF OnceEnts, BootEnts
      <3>2. CASE bootonce
          BY <1>2, <1>3, <1>5, <3>1, <3>2 DEF FindNext
      <3>3. CASE ~bootonce
          BY <1>2, <1>3, <1>5, <3>1, <3>3 DEF FindNext
      <3> QED BY <3>2, <3>3
    <2>2. SearchInv' /\ e \notin attempted
        BY <1>1, <2>1, FoundSearch
    <2>3. curent' = e
        BY <2>1 DEF Found
    <2> QED BY <2>2, <2>3
  <1> QED BY <1>4, <1>5

\* load() failed: the entry counts as attempted, and a one-shot entry is no longer one.
LEMMA FailSearch == ASSUME IndInv, Searching, SearchInv, BootFails PROVE SearchInv'
  <1> SUFFICES ASSUME ~explicit PROVE SearchInv'
      BY DEF SearchInv, BootFails
  <1>1. curent \in UFS /\ curent \in Ents /\ curent # -1 /\ curent # N /\ UFS \subseteq Ents
    <2>1. curent \in UFS
        BY DEF IndInv, CurentInTable, BootFails
    <2> QED BY <2>1, GptAssumption DEF Ents
  <1>2. /\ pc = "boot" /\ pc' = "find" /\ caller' = "retry" /\ attempted' = attempted \union {curent}
        /\ UNCHANGED <<curent, bootonce, flags0, picked, explicit, lba>>
      BY DEF BootFails
  <1>3. Behind /\ Ahead /\ FirstPass /\ Spent
      BY <1>2 DEF SearchInv
  <1>4. mem \in [Copies -> Tables]
      BY DEF IndInv, TypeOK
  <1>5. /\ \A x \in Ents \ {curent} : gpttable'[x] = gpttable[x]
        /\ gpttable'[curent] = gpttable[curent]
              \/ ("once" \in gpttable[curent] /\ gpttable'[curent] = (gpttable[curent] \ {"once"}) \union {"failed"})
    <2>1. \A c \in Copies :
            /\ \A x \in Ents \ {curent} : mem'[c][x] = mem[c][x]
            /\ mem'[c][curent] = IF "once" \in gpttable[curent] /\ lba[c]
                                 THEN (mem[c][curent] \ {"once"}) \union {"failed"} ELSE mem[c][curent]
        BY <1>1, <1>4 DEF BootFails, gptbootfailed, Tables
    <2> QED BY <2>1, <1>2 DEF gpttable, Copies
  <1>6. curent \in Int /\ \A x \in UFS : x \in Int
      BY <1>1, GptAssumption
  <1>7. Behind' /\ FindFrom'
      BY <1>1, <1>2, <1>3 DEF Behind, FindFrom, OnceMe, PlainMe
  <1>8. Ahead'
    <2>1. \A x \in UFS : x > curent => x # curent
        BY <1>6
    <2>2. ASSUME NEW x \in UFS, PlainMe(x) PROVE gpttable'[x] = gpttable[x]
        BY <2>2, <1>1, <1>3, <1>5 DEF Ahead
    <2> QED BY <2>1, <2>2, <1>1, <1>2, <1>3, <1>5 DEF Ahead, OnceMe, PlainMe
  <1>9. \A x \in Ents : "me" \notin gpttable[x] => "me" \notin gpttable'[x]
      BY <1>5
  <1>10. FirstPass'
      BY <1>1, <1>2, <1>3, <1>9 DEF FirstPass
  <1>11. Spent'
    <2>1. attempted \subseteq Ents
        BY <1>1 DEF IndInv, TypeOK
    <2> QED BY <2>1, <1>1, <1>2, <1>3, <1>6, <1>9 DEF Spent, FirstPass
  <1> QED BY <1>7, <1>8, <1>10, <1>11 DEF SearchInv

LEMMA QuietSearch ==
    ASSUME SearchInv, UNCHANGED <<mem, lba, curent, bootonce, flags0, attempted, picked, explicit>>,
           \/ pc \in {"config", "boot", "prompt", "load"} /\ pc' # "find"
           \/ pc' = pc /\ UNCHANGED <<caller, part>>
    PROVE  SearchInv'
  BY DEF SearchInv, Behind, Ahead, FirstPass, Spent, FindFrom, OnceMe, PlainMe, gpttable

LEMMA NextSearch == ASSUME IndInv, Searching, SearchInv, [Next]_vars PROVE SearchInv'
  <1>1. CASE PowerOn
      BY <1>1, ReadSearch
  <1>2. CASE PowerOff
      BY <1>2 DEF PowerOff, SearchInv
  <1>3. CASE gptfind
      BY <1>3, FindSearch
  <1>4. CASE Config \/ Prompt
    <2>1. ASSUME NEW who, NamePart(who) PROVE SearchInv'
        BY <2>1 DEF NamePart, SearchInv
    <2>2. CASE BadCommand
        BY <1>4, <2>2, QuietSearch DEF BadCommand, histVars, Config, Prompt
    <2>3. CASE pc' \in {"boot", "load"} /\ UNCHANGED <<disk, mem, lba, curent, bootonce, part, start,
                    autoboot, todo, updating, caller, histVars>>
        BY <1>4, <2>3, QuietSearch DEF histVars, Config, Prompt
    <2> QED BY <1>4, <2>1, <2>2, <2>3 DEF Config, Prompt
  <1>5. CASE BootExec
      BY <1>5, QuietSearch DEF BootExec, Exec
  <1>6. CASE BootFails
      BY <1>6, FailSearch
  <1>7. CASE \E c \in Copies : \E w \in todo[c] : drvwrite(c, w) \/ drvwriteFails(c, w)
      BY <1>7, QuietSearch DEF drvwrite, drvwriteFails, histVars
  <1>8. CASE KeyHit
      BY <1>8, QuietSearch DEF KeyHit, histVars
  <1>9. CASE PromptLoad
      BY <1>9, QuietSearch DEF PromptLoad, Exec, histVars
  <1>10. CASE UNCHANGED vars
      BY <1>10, QuietSearch DEF vars, progVars, histVars
  <1> QED BY <1>1, <1>2, <1>3, <1>4, <1>5, <1>6, <1>7, <1>8, <1>9, <1>10 DEF Next, Step

LEMMA InitSearch == Init => SearchInv
  BY DEF Init, SearchInv

LEMMA SearchInductive == Spec => [](IndInv /\ Searching /\ SearchInv)
  <1>1. Init => IndInv /\ Searching /\ SearchInv
      BY InitInv, InitOnce, InitSearch
  <1>2. IndInv /\ Searching /\ SearchInv /\ [Next]_vars => (IndInv /\ Searching /\ SearchInv)'
      BY NextStep, SearchingStep, NextSearch
  <1> QED BY <1>1, <1>2, PTL DEF Spec

\* When main() falls back to the prompt after its own search, it has tried every entry
\* that gptread() found marked BOOTME, unless the one-shot entry was the last of the table.
THEOREM TriesEveryEntry == Spec => []FallbackComplete
  <1>1. IndInv /\ SearchInv => FallbackComplete
    <2> SUFFICES ASSUME IndInv, SearchInv, pc = "prompt", curent = N, ~explicit, N - 1 \notin picked,
                        NEW e \in UFS, "me" \in flags0[e]
                 PROVE  e \in attempted
        BY DEF FallbackComplete
    <2>1. Behind /\ FirstPass
        BY DEF SearchInv
    <2>2. ~bootonce /\ e < N
        BY <2>1, GptAssumption DEF FirstPass
    <2> QED BY <2>1, <2>2 DEF Behind, OnceMe, PlainMe
  <1> QED BY <1>1, SearchInductive, PTL

\* gptfind() never returns to a partition whose load() failed, unless a command named one.
THEOREM NeverRetries == Spec => NoRetry
  <1>1. IndInv /\ Searching /\ SearchInv /\ [Next]_vars =>
           [pc = "find" /\ pc' = "config" /\ ~explicit => curent' \notin attempted]_vars
    <2> SUFFICES ASSUME IndInv, Searching, SearchInv, Next, pc = "find", pc' = "config", ~explicit
                 PROVE  curent' \notin attempted
        OBVIOUS
    <2>1. gptfind
        BY DEF Next, Step, PowerOn, PowerOff, Config, BootExec, BootFails, KeyHit, Prompt, PromptLoad,
               drvwrite, drvwriteFails
    <2> QED BY <2>1, FindSearch
  <1> QED BY <1>1, SearchInductive, PTL DEF Spec, NoRetry
=============================================================================
