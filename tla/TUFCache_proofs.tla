--------------------------- MODULE TUFCache_proofs ---------------------------
(* Theorems about TUFCache, for any number of processes that share the cache, *)
(* of calls they make and of versions that are published.                  *)
EXTENDS TUFCache, TLAPS

(* Nobody runs beside a process that is alone, until the next one starts.  *)
AloneRuns ==
  \A p, q \in Processes : alone[p] /\ q # p => ~ Running(q)

(* What a process that is alone can rely on, at each of its steps.         *)
Path(p) ==
  /\ At(p, "mkTargets") => "targets" \notin dirs
  /\ stage[p] \in {"rootCheck", "openRoot", "writeRoot", "openSeed"} => "targets" \in dirs
  /\ stage[p] \in {"openSeed", "writeSeed"} => rootFile = Intact
  /\ At(p, "construct") => rootFile = Intact \/ (rootFile = Damaged /\ ~ call[p].forceInit)
  /\ stage[p] \in {"ready", "find", "download", "copy", "read"} =>
       info[p] \in Versions /\ (call[p].forceCache \/ info[p] >= since[p])
  /\ At(p, "read") => target = info[p]

\* AloneSucceeds, of one process.
Excused(p) ==
  \/ error[p] \in {"TUF_REFRESH_METADATA_ERROR", "REFRESH", "TUF_DOWNLOAD_TARGET_ERROR",
                  "TUF_READ_TARGET_ERROR", "DISK"}
  \/ error[p] = "TUF_FIND_TARGET_ERROR" /\ ~ call[p].listed
  \/ error[p] = "TUF_INIT_CACHE_ERROR" /\ ~ call[p].seeded /\ ~ call[p].rootPath
  \/ error[p] = "ROOT" /\ rootFile = Damaged /\ ~ call[p].forceInit

CacheInv ==
  /\ CacheTypeOK /\ DamageIsByWriter /\ AloneIsCurrent /\ AloneRuns
  /\ \A p \in Processes :
       /\ since[p] <= published
       /\ alone[p] => Path(p) /\ (stage[p] = "rejected" => Excused(p))

LEMMA Distinct ==
  /\ Missing # Damaged /\ Intact # Damaged /\ Intact # Missing
  /\ \A v \in Versions : v \in Int /\ v # Missing /\ v # Damaged
  BY DEF Missing, Damaged, Intact, Versions

LEMMA SeedIsVersion == SeedVersion \in Versions
  BY VersionsAssumption DEF Versions

LEMMA CacheInitInv == Init => CacheInv
<1> SUFFICES ASSUME Init PROVE CacheInv
  OBVIOUS
<1>0. published = SeedVersion /\ published \in Versions /\ published > 0
  <2>1. published = SeedVersion
    BY DEF Init
  <2>2. SeedVersion \in 1 .. MaxVersion /\ SeedVersion > 0
    BY VersionsAssumption
  <2> QED BY <2>1, <2>2 DEF Versions
<1>1. CacheTypeOK
  <2>1. starts \in 0 .. MaxStarts
    <3>1. starts = 0
      BY DEF Init
    <3> QED BY <3>1, VersionsAssumption
  <2> QED BY <1>0, <2>1 DEF Init, CacheTypeOK, Over, Files
<1>2. DamageIsByWriter
  BY Distinct DEF Init, DamageIsByWriter
<1>3. AloneIsCurrent /\ AloneRuns
  BY DEF Init, AloneIsCurrent, AloneRuns
<1>4. \A p \in Processes : since[p] <= published /\ ~ alone[p]
  <2>1. \A p \in Processes : since[p] = 0 /\ ~ alone[p]
    BY DEF Init
  <2>2. 0 <= published
    BY <1>0, VersionsAssumption
  <2> QED BY <2>1, <2>2
<1> QED BY <1>1, <1>2, <1>3, <1>4 DEF CacheInv

(* The records of the calls.                                               *)
LEMMA CallFields ==
  ASSUME CacheInv, NEW p \in Processes
  PROVE  /\ call[p].rootPath \in BOOLEAN /\ call[p].seeded \in BOOLEAN /\ call[p].listed \in BOOLEAN
         /\ call[p].forceInit \in BOOLEAN /\ call[p].forceCache \in BOOLEAN
         /\ call[p].entry \in {"getTrustedRoot", "initTUF"}
<1>1. call[p] \in Calls \cup {NoCall}
  BY DEF CacheInv, CacheTypeOK
<1>2. CASE call[p] \in Calls
  BY <1>2, CallsAssumption
<1>3. CASE call[p] = NoCall
  BY <1>3 DEF NoCall
<1> QED BY <1>1, <1>2, <1>3

(* The rest of the invariant needs to be shown only of the process that takes *)
(* a step: while it runs, no other is alone.                               *)
LEMMA StepOfOne ==
  ASSUME CacheInv, NEW p \in Processes, Running(p), UNCHANGED <<published, alone, since>>,
         \A q \in Processes \ {p} : stage'[q] = stage[q],
         CacheTypeOK', DamageIsByWriter',
         alone[p] => /\ Path(p)' /\ (stage'[p] = "rejected" => Excused(p)')
                     /\ stage'[p] = "resolved" =>
                          got'[p] = info'[p] /\ (call'[p].forceCache \/ got'[p] >= since'[p])
  PROVE  CacheInv'
<1>1. \A q \in Processes : alone[q] => q = p
  BY DEF CacheInv, AloneRuns
<1>2. AloneRuns'
  BY <1>1 DEF CacheInv, AloneRuns, Running
<1>3. AloneIsCurrent'
  BY <1>1 DEF AloneIsCurrent
<1>4. \A q \in Processes : since'[q] <= published' /\ (alone'[q] => Path(q)' /\ (stage'[q] = "rejected" => Excused(q)'))
  BY <1>1 DEF CacheInv
<1> QED BY <1>2, <1>3, <1>4 DEF CacheInv

LEMMA CacheDirInv == ASSUME CacheInv, NEW p \in Processes, CacheDir(p) PROVE CacheInv'
<1> USE DEF CacheDir, At, Go, Reject, Turn, disk, ghosts
<1>1. CacheTypeOK'
  BY VersionsAssumption, CallFields DEF CacheInv, CacheTypeOK, Stages, Over, Codes, Uncoded, Files, Versions
<1>2. DamageIsByWriter'
  BY Distinct DEF CacheInv, CacheTypeOK, DamageIsByWriter
<1>3. Running(p) /\ \A q \in Processes \ {p} : stage'[q] = stage[q]
  BY DEF CacheInv, CacheTypeOK, Running, Over
<1>4. UNCHANGED <<published, alone, since, call>>
  OBVIOUS
<1>5. ASSUME alone[p] PROVE Path(p)'
  BY <1>5, CallFields, Distinct, VersionsAssumption DEF CacheInv, CacheTypeOK, Path
<1>6. ASSUME alone[p], stage'[p] = "rejected" PROVE Excused(p)'
  BY <1>6, CallFields, Distinct DEF CacheInv, CacheTypeOK, Path, Excused
<1>7. ASSUME alone[p], stage'[p] = "resolved"
      PROVE  got'[p] = info'[p] /\ (call'[p].forceCache \/ got'[p] >= since'[p])
  BY <1>7, Distinct DEF CacheInv, CacheTypeOK, Path
<1> QED BY <1>1, <1>2, <1>3, <1>4, <1>5, <1>6, <1>7, StepOfOne

LEMMA MkCacheInv == ASSUME CacheInv, NEW p \in Processes, MkCache(p) PROVE CacheInv'
<1> USE DEF MkCache, At, Go, Reject, Turn, disk, ghosts
<1>1. CacheTypeOK'
  BY VersionsAssumption, CallFields DEF CacheInv, CacheTypeOK, Stages, Over, Codes, Uncoded, Files, Versions
<1>2. DamageIsByWriter'
  BY Distinct DEF CacheInv, CacheTypeOK, DamageIsByWriter
<1>3. Running(p) /\ \A q \in Processes \ {p} : stage'[q] = stage[q]
  BY DEF CacheInv, CacheTypeOK, Running, Over
<1>4. UNCHANGED <<published, alone, since, call>>
  OBVIOUS
<1>5. ASSUME alone[p] PROVE Path(p)'
  BY <1>5, CallFields, Distinct, VersionsAssumption DEF CacheInv, CacheTypeOK, Path
<1>6. ASSUME alone[p], stage'[p] = "rejected" PROVE Excused(p)'
  BY <1>6, CallFields, Distinct DEF CacheInv, CacheTypeOK, Path, Excused
<1>7. ASSUME alone[p], stage'[p] = "resolved"
      PROVE  got'[p] = info'[p] /\ (call'[p].forceCache \/ got'[p] >= since'[p])
  BY <1>7, Distinct DEF CacheInv, CacheTypeOK, Path
<1> QED BY <1>1, <1>2, <1>3, <1>4, <1>5, <1>6, <1>7, StepOfOne

LEMMA TargetsDirInv == ASSUME CacheInv, NEW p \in Processes, TargetsDir(p) PROVE CacheInv'
<1> USE DEF TargetsDir, At, Go, Reject, Turn, disk, ghosts
<1>1. CacheTypeOK'
  BY VersionsAssumption, CallFields DEF CacheInv, CacheTypeOK, Stages, Over, Codes, Uncoded, Files, Versions
<1>2. DamageIsByWriter'
  BY Distinct DEF CacheInv, CacheTypeOK, DamageIsByWriter
<1>3. Running(p) /\ \A q \in Processes \ {p} : stage'[q] = stage[q]
  BY DEF CacheInv, CacheTypeOK, Running, Over
<1>4. UNCHANGED <<published, alone, since, call>>
  OBVIOUS
<1>5. ASSUME alone[p] PROVE Path(p)'
  BY <1>5, CallFields, Distinct, VersionsAssumption DEF CacheInv, CacheTypeOK, Path
<1>6. ASSUME alone[p], stage'[p] = "rejected" PROVE Excused(p)'
  BY <1>6, CallFields, Distinct DEF CacheInv, CacheTypeOK, Path, Excused
<1>7. ASSUME alone[p], stage'[p] = "resolved"
      PROVE  got'[p] = info'[p] /\ (call'[p].forceCache \/ got'[p] >= since'[p])
  BY <1>7, Distinct DEF CacheInv, CacheTypeOK, Path
<1> QED BY <1>1, <1>2, <1>3, <1>4, <1>5, <1>6, <1>7, StepOfOne

LEMMA MkTargetsInv == ASSUME CacheInv, NEW p \in Processes, MkTargets(p) PROVE CacheInv'
<1> USE DEF MkTargets, At, Go, Reject, Turn, disk, ghosts
<1>1. CacheTypeOK'
  BY VersionsAssumption, CallFields, ZenonT(30) DEF CacheInv, CacheTypeOK, Stages, Over, Codes, Uncoded, Files, Versions
<1>2. DamageIsByWriter'
  BY Distinct DEF CacheInv, CacheTypeOK, DamageIsByWriter
<1>3. Running(p) /\ \A q \in Processes \ {p} : stage'[q] = stage[q]
  BY DEF CacheInv, CacheTypeOK, Running, Over
<1>4. UNCHANGED <<published, alone, since, call>>
  OBVIOUS
<1>5. ASSUME alone[p] PROVE Path(p)'
  BY <1>5, CallFields, Distinct, VersionsAssumption, ZenonT(30) DEF CacheInv, CacheTypeOK, Path
<1>6. ASSUME alone[p], stage'[p] = "rejected" PROVE Excused(p)'
  BY <1>6, CallFields, Distinct DEF CacheInv, CacheTypeOK, Path, Excused
<1>7. ASSUME alone[p], stage'[p] = "resolved"
      PROVE  got'[p] = info'[p] /\ (call'[p].forceCache \/ got'[p] >= since'[p])
  BY <1>7, Distinct DEF CacheInv, CacheTypeOK, Path
<1> QED BY <1>1, <1>2, <1>3, <1>4, <1>5, <1>6, <1>7, StepOfOne

LEMMA RootCheckInv == ASSUME CacheInv, NEW p \in Processes, RootCheck(p) PROVE CacheInv'
<1> USE DEF RootCheck, At, Go, Reject, Turn, disk, ghosts
<1>1. CacheTypeOK'
  <2>1. stage' \in [Processes -> Over \cup Stages]
    <3>1. PICK s \in {"construct", "openRoot", "rejected"} : stage' = [stage EXCEPT ![p] = s]
      OBVIOUS
    <3> QED BY <3>1 DEF CacheInv, CacheTypeOK, Stages, Over, Codes, Uncoded
  <2>2. error' \in [Processes -> {""} \cup Codes \cup Uncoded]
    BY DEF CacheInv, CacheTypeOK, Stages, Over, Codes, Uncoded
  <2> QED BY <2>1, <2>2 DEF CacheInv, CacheTypeOK
<1>2. DamageIsByWriter'
  BY Distinct DEF CacheInv, CacheTypeOK, DamageIsByWriter
<1>3. Running(p) /\ \A q \in Processes \ {p} : stage'[q] = stage[q]
  BY DEF CacheInv, CacheTypeOK, Running, Over
<1>4. UNCHANGED <<published, alone, since, call>>
  OBVIOUS
<1>5. ASSUME alone[p] PROVE Path(p)'
  BY <1>5, CallFields, Distinct, VersionsAssumption, ZenonT(30) DEF CacheInv, CacheTypeOK, Path
<1>6. ASSUME alone[p], stage'[p] = "rejected" PROVE Excused(p)'
  BY <1>6, CallFields, Distinct DEF CacheInv, CacheTypeOK, Path, Excused
<1>7. ASSUME alone[p], stage'[p] = "resolved"
      PROVE  got'[p] = info'[p] /\ (call'[p].forceCache \/ got'[p] >= since'[p])
  BY <1>7, Distinct DEF CacheInv, CacheTypeOK, Path
<1> QED BY <1>1, <1>2, <1>3, <1>4, <1>5, <1>6, <1>7, StepOfOne

LEMMA OpenRootInv == ASSUME CacheInv, NEW p \in Processes, OpenRoot(p) PROVE CacheInv'
<1> USE DEF OpenRoot, At, Go, Reject, Turn, disk, ghosts
<1>1. CacheTypeOK'
  BY VersionsAssumption, CallFields DEF CacheInv, CacheTypeOK, Stages, Over, Codes, Uncoded, Files, Versions
<1>2. DamageIsByWriter'
  BY Distinct DEF CacheInv, CacheTypeOK, DamageIsByWriter
<1>3. Running(p) /\ \A q \in Processes \ {p} : stage'[q] = stage[q]
  BY DEF CacheInv, CacheTypeOK, Running, Over
<1>4. UNCHANGED <<published, alone, since, call>>
  OBVIOUS
<1>5. ASSUME alone[p] PROVE Path(p)'
  BY <1>5, CallFields, Distinct, VersionsAssumption DEF CacheInv, CacheTypeOK, Path
<1>6. ASSUME alone[p], stage'[p] = "rejected" PROVE Excused(p)'
  BY <1>6, CallFields, Distinct DEF CacheInv, CacheTypeOK, Path, Excused
<1>7. ASSUME alone[p], stage'[p] = "resolved"
      PROVE  got'[p] = info'[p] /\ (call'[p].forceCache \/ got'[p] >= since'[p])
  BY <1>7, Distinct DEF CacheInv, CacheTypeOK, Path
<1> QED BY <1>1, <1>2, <1>3, <1>4, <1>5, <1>6, <1>7, StepOfOne

LEMMA WriteRootInv == ASSUME CacheInv, NEW p \in Processes, WriteRoot(p) PROVE CacheInv'
<1> USE DEF WriteRoot, At, Go, Reject, Turn, disk, ghosts
<1>1. CacheTypeOK'
  BY VersionsAssumption, CallFields DEF CacheInv, CacheTypeOK, Stages, Over, Codes, Uncoded, Files, Versions
<1>2. DamageIsByWriter'
  BY Distinct DEF CacheInv, CacheTypeOK, DamageIsByWriter
<1>3. Running(p) /\ \A q \in Processes \ {p} : stage'[q] = stage[q]
  BY DEF CacheInv, CacheTypeOK, Running, Over
<1>4. UNCHANGED <<published, alone, since, call>>
  OBVIOUS
<1>5. ASSUME alone[p] PROVE Path(p)'
  BY <1>5, CallFields, Distinct, VersionsAssumption DEF CacheInv, CacheTypeOK, Path
<1>6. ASSUME alone[p], stage'[p] = "rejected" PROVE Excused(p)'
  BY <1>6, CallFields, Distinct DEF CacheInv, CacheTypeOK, Path, Excused
<1>7. ASSUME alone[p], stage'[p] = "resolved"
      PROVE  got'[p] = info'[p] /\ (call'[p].forceCache \/ got'[p] >= since'[p])
  BY <1>7, Distinct DEF CacheInv, CacheTypeOK, Path
<1> QED BY <1>1, <1>2, <1>3, <1>4, <1>5, <1>6, <1>7, StepOfOne

LEMMA OpenSeedInv == ASSUME CacheInv, NEW p \in Processes, OpenSeed(p) PROVE CacheInv'
<1> USE DEF OpenSeed, At, Go, Reject, Turn, disk, ghosts
<1>1. CacheTypeOK'
  BY VersionsAssumption, CallFields, ZenonT(30) DEF CacheInv, CacheTypeOK, Stages, Over, Codes, Uncoded, Files, Versions
<1>2. DamageIsByWriter'
  BY Distinct DEF CacheInv, CacheTypeOK, DamageIsByWriter
<1>3. Running(p) /\ \A q \in Processes \ {p} : stage'[q] = stage[q]
  BY DEF CacheInv, CacheTypeOK, Running, Over
<1>4. UNCHANGED <<published, alone, since, call>>
  OBVIOUS
<1>5. ASSUME alone[p] PROVE Path(p)'
  BY <1>5, CallFields, Distinct, VersionsAssumption DEF CacheInv, CacheTypeOK, Path
<1>6. ASSUME alone[p], stage'[p] = "rejected" PROVE Excused(p)'
  BY <1>6, CallFields, Distinct DEF CacheInv, CacheTypeOK, Path, Excused
<1>7. ASSUME alone[p], stage'[p] = "resolved"
      PROVE  got'[p] = info'[p] /\ (call'[p].forceCache \/ got'[p] >= since'[p])
  BY <1>7, Distinct DEF CacheInv, CacheTypeOK, Path
<1> QED BY <1>1, <1>2, <1>3, <1>4, <1>5, <1>6, <1>7, StepOfOne

LEMMA WriteSeedInv == ASSUME CacheInv, NEW p \in Processes, WriteSeed(p) PROVE CacheInv'
<1> USE DEF WriteSeed, At, Go, Reject, Turn, disk, ghosts
<1>1. CacheTypeOK'
  <2>1. target' \in Files
    BY SeedIsVersion DEF CacheInv, CacheTypeOK, Files
  <2>2. stage' \in [Processes -> Over \cup Stages]
    <3>1. PICK s \in {"construct", "rejected"} : stage' = [stage EXCEPT ![p] = s]
      OBVIOUS
    <3> QED BY <3>1 DEF CacheInv, CacheTypeOK, Stages, Over
  <2>3. error' \in [Processes -> {""} \cup Codes \cup Uncoded]
    BY DEF CacheInv, CacheTypeOK, Codes, Uncoded
  <2> QED BY <2>1, <2>2, <2>3 DEF CacheInv, CacheTypeOK
<1>2. DamageIsByWriter'
  BY Distinct DEF CacheInv, CacheTypeOK, DamageIsByWriter
<1>3. Running(p) /\ \A q \in Processes \ {p} : stage'[q] = stage[q]
  BY DEF CacheInv, CacheTypeOK, Running, Over
<1>4. UNCHANGED <<published, alone, since, call>>
  OBVIOUS
<1>5. ASSUME alone[p] PROVE Path(p)'
  BY <1>5, CallFields, Distinct, VersionsAssumption DEF CacheInv, CacheTypeOK, Path
<1>6. ASSUME alone[p], stage'[p] = "rejected" PROVE Excused(p)'
  BY <1>6, CallFields, Distinct DEF CacheInv, CacheTypeOK, Path, Excused
<1>7. ASSUME alone[p], stage'[p] = "resolved"
      PROVE  got'[p] = info'[p] /\ (call'[p].forceCache \/ got'[p] >= since'[p])
  BY <1>7, Distinct DEF CacheInv, CacheTypeOK, Path
<1> QED BY <1>1, <1>2, <1>3, <1>4, <1>5, <1>6, <1>7, StepOfOne

LEMMA ConstructInv == ASSUME CacheInv, NEW p \in Processes, Construct(p) PROVE CacheInv'
<1> USE DEF Construct, At, Go, Reject, Turn, disk, ghosts
<1>1. CacheTypeOK'
  BY VersionsAssumption, CallFields, ZenonT(30) DEF CacheInv, CacheTypeOK, Stages, Over, Codes, Uncoded, Files, Versions
<1>2. DamageIsByWriter'
  BY Distinct DEF CacheInv, CacheTypeOK, DamageIsByWriter
<1>3. Running(p) /\ \A q \in Processes \ {p} : stage'[q] = stage[q]
  BY DEF CacheInv, CacheTypeOK, Running, Over
<1>4. UNCHANGED <<published, alone, since, call>>
  OBVIOUS
<1>5. ASSUME alone[p] PROVE Path(p)'
  <2>1. stage'[p] \in {"refresh", "rejected"}
    BY DEF CacheInv, CacheTypeOK
  <2> QED BY <2>1 DEF Path
<1>6. ASSUME alone[p], stage'[p] = "rejected" PROVE Excused(p)'
  BY <1>6, CallFields, Distinct DEF CacheInv, CacheTypeOK, Path, Excused
<1>7. ASSUME alone[p], stage'[p] = "resolved"
      PROVE  got'[p] = info'[p] /\ (call'[p].forceCache \/ got'[p] >= since'[p])
  BY <1>7, Distinct DEF CacheInv, CacheTypeOK, Path
<1> QED BY <1>1, <1>2, <1>3, <1>4, <1>5, <1>6, <1>7, StepOfOne

LEMMA RefreshInv == ASSUME CacheInv, NEW p \in Processes, Refresh(p) PROVE CacheInv'
<1> USE DEF Refresh, At, Go, Reject, Turn, disk, ghosts
<1>1. CacheTypeOK'
  <2>1. stage' \in [Processes -> Over \cup Stages]
    BY ZenonT(30) DEF CacheInv, CacheTypeOK, Stages, Over, Codes, Uncoded
  <2>2. error' \in [Processes -> {""} \cup Codes \cup Uncoded]
    BY DEF CacheInv, CacheTypeOK, Stages, Over, Codes, Uncoded
  <2>3. info' \in [Processes -> {Missing} \cup Versions] /\ metadata' \in {Missing} \cup Versions
    BY ZenonT(30) DEF CacheInv, CacheTypeOK
  <2> QED BY <2>1, <2>2, <2>3 DEF CacheInv, CacheTypeOK
<1>2. DamageIsByWriter'
  BY Distinct DEF CacheInv, CacheTypeOK, DamageIsByWriter
<1>3. Running(p) /\ \A q \in Processes \ {p} : stage'[q] = stage[q]
  BY DEF CacheInv, CacheTypeOK, Running, Over
<1>4. UNCHANGED <<published, alone, since, call>>
  OBVIOUS
<1>5. ASSUME alone[p] PROVE Path(p)'
  <2>1. CASE stage'[p] = "rejected"
    BY <2>1 DEF Path
  <2>2. CASE stage'[p] # "rejected"
    <3>1. stage'[p] \in {"ready", "find"}
      BY <2>2 DEF CacheInv, CacheTypeOK
    <3>2. info'[p] \in Versions /\ (call'[p].forceCache \/ info'[p] >= since'[p])
      <4>1. CASE info' = [info EXCEPT ![p] = published]
        <5>1. info'[p] = published /\ published \in Versions
          BY <4>1 DEF CacheInv, CacheTypeOK
        <5>2. published >= since[p]
          BY <5>1, Distinct DEF CacheInv, CacheTypeOK, Versions
        <5> QED BY <5>1, <5>2
      <4>2. CASE call[p].forceCache /\ metadata # Missing /\ info' = [info EXCEPT ![p] = metadata]
        BY <4>2 DEF CacheInv, CacheTypeOK
      <4> QED BY <2>2, <4>1, <4>2 DEF CacheInv, CacheTypeOK
    <3> QED BY <3>1, <3>2 DEF Path
  <2> QED BY <2>1, <2>2
<1>6. ASSUME alone[p], stage'[p] = "rejected" PROVE Excused(p)'
  <2>1. error'[p] \in {"REFRESH", "TUF_REFRESH_METADATA_ERROR"}
    BY <1>6, CallFields DEF CacheInv, CacheTypeOK
  <2> QED BY <2>1 DEF Excused
<1>7. ASSUME alone[p], stage'[p] = "resolved"
      PROVE  got'[p] = info'[p] /\ (call'[p].forceCache \/ got'[p] >= since'[p])
  BY <1>7, Distinct DEF CacheInv, CacheTypeOK, Path
<1> QED BY <1>1, <1>2, <1>3, <1>4, <1>5, <1>6, <1>7, StepOfOne

LEMMA GetTargetInv == ASSUME CacheInv, NEW p \in Processes, GetTarget(p) PROVE CacheInv'
<1> USE DEF GetTarget, At, Go, Reject, Turn, disk, ghosts
<1>1. CacheTypeOK'
  BY VersionsAssumption, CallFields DEF CacheInv, CacheTypeOK, Stages, Over, Codes, Uncoded, Files, Versions
<1>2. DamageIsByWriter'
  BY Distinct DEF CacheInv, CacheTypeOK, DamageIsByWriter
<1>3. Running(p) /\ \A q \in Processes \ {p} : stage'[q] = stage[q]
  BY DEF CacheInv, CacheTypeOK, Running, Over
<1>4. UNCHANGED <<published, alone, since, call>>
  OBVIOUS
<1>5. ASSUME alone[p] PROVE Path(p)'
  BY <1>5, CallFields, Distinct, VersionsAssumption DEF CacheInv, CacheTypeOK, Path
<1>6. ASSUME alone[p], stage'[p] = "rejected" PROVE Excused(p)'
  BY <1>6, CallFields, Distinct DEF CacheInv, CacheTypeOK, Path, Excused
<1>7. ASSUME alone[p], stage'[p] = "resolved"
      PROVE  got'[p] = info'[p] /\ (call'[p].forceCache \/ got'[p] >= since'[p])
  BY <1>7, Distinct DEF CacheInv, CacheTypeOK, Path
<1> QED BY <1>1, <1>2, <1>3, <1>4, <1>5, <1>6, <1>7, StepOfOne

LEMMA FindInv == ASSUME CacheInv, NEW p \in Processes, Find(p) PROVE CacheInv'
<1> USE DEF Find, At, Go, Reject, Turn, disk, ghosts
<1>1. CacheTypeOK'
  BY VersionsAssumption, CallFields, ZenonT(30) DEF CacheInv, CacheTypeOK, Stages, Over, Codes, Uncoded, Files, Versions
<1>2. DamageIsByWriter'
  BY Distinct DEF CacheInv, CacheTypeOK, DamageIsByWriter
<1>3. Running(p) /\ \A q \in Processes \ {p} : stage'[q] = stage[q]
  BY DEF CacheInv, CacheTypeOK, Running, Over
<1>4. UNCHANGED <<published, alone, since, call>>
  OBVIOUS
<1>5. ASSUME alone[p] PROVE Path(p)'
  BY <1>5, CallFields, Distinct, VersionsAssumption, ZenonT(30) DEF CacheInv, CacheTypeOK, Path
<1>6. ASSUME alone[p], stage'[p] = "rejected" PROVE Excused(p)'
  BY <1>6, CallFields, Distinct DEF CacheInv, CacheTypeOK, Path, Excused
<1>7. ASSUME alone[p], stage'[p] = "resolved"
      PROVE  got'[p] = info'[p] /\ (call'[p].forceCache \/ got'[p] >= since'[p])
  BY <1>7, Distinct DEF CacheInv, CacheTypeOK, Path
<1> QED BY <1>1, <1>2, <1>3, <1>4, <1>5, <1>6, <1>7, StepOfOne

LEMMA DownloadInv == ASSUME CacheInv, NEW p \in Processes, Download(p) PROVE CacheInv'
<1> USE DEF Download, At, Go, Reject, Turn, disk, ghosts
<1>1. CacheTypeOK'
  BY VersionsAssumption, CallFields, ZenonT(30) DEF CacheInv, CacheTypeOK, Stages, Over, Codes, Uncoded, Files, Versions
<1>2. DamageIsByWriter'
  BY Distinct DEF CacheInv, CacheTypeOK, DamageIsByWriter
<1>3. Running(p) /\ \A q \in Processes \ {p} : stage'[q] = stage[q]
  BY DEF CacheInv, CacheTypeOK, Running, Over
<1>4. UNCHANGED <<published, alone, since, call>>
  OBVIOUS
<1>5. ASSUME alone[p] PROVE Path(p)'
  <2>1. stage'[p] \in {"copy", "rejected"}
    BY DEF CacheInv, CacheTypeOK
  <2>2. info[p] \in Versions /\ (call[p].forceCache \/ info[p] >= since[p])
    BY <1>5 DEF CacheInv, Path
  <2> QED BY <2>1, <2>2 DEF Path
<1>6. ASSUME alone[p], stage'[p] = "rejected" PROVE Excused(p)'
  BY <1>6, CallFields, Distinct DEF CacheInv, CacheTypeOK, Path, Excused
<1>7. ASSUME alone[p], stage'[p] = "resolved"
      PROVE  got'[p] = info'[p] /\ (call'[p].forceCache \/ got'[p] >= since'[p])
  BY <1>7, Distinct DEF CacheInv, CacheTypeOK, Path
<1> QED BY <1>1, <1>2, <1>3, <1>4, <1>5, <1>6, <1>7, StepOfOne

LEMMA CopyInv == ASSUME CacheInv, NEW p \in Processes, Copy(p) PROVE CacheInv'
<1> USE DEF Copy, At, Go, Reject, Turn, disk, ghosts
<1>1. CacheTypeOK'
  <2>1. target' \in Files
    <3>1. target \in Files /\ info[p] \in {Missing} \cup Versions
      BY DEF CacheInv, CacheTypeOK
    <3>2. target' = info[p] \/ target' = target \/ target' = Missing
      OBVIOUS
    <3> QED BY <3>1, <3>2 DEF Files
  <2>2. stage' \in [Processes -> Over \cup Stages]
    <3>1. PICK s \in {"read", "rejected"} : stage' = [stage EXCEPT ![p] = s]
      OBVIOUS
    <3> QED BY <3>1 DEF CacheInv, CacheTypeOK, Stages, Over
  <2>3. error' \in [Processes -> {""} \cup Codes \cup Uncoded]
    BY DEF CacheInv, CacheTypeOK, Codes, Uncoded
  <2> QED BY <2>1, <2>2, <2>3 DEF CacheInv, CacheTypeOK
<1>2. DamageIsByWriter'
  BY Distinct DEF CacheInv, CacheTypeOK, DamageIsByWriter
<1>3. Running(p) /\ \A q \in Processes \ {p} : stage'[q] = stage[q]
  BY DEF CacheInv, CacheTypeOK, Running, Over
<1>4. UNCHANGED <<published, alone, since, call>>
  OBVIOUS
<1>5. ASSUME alone[p] PROVE Path(p)'
  BY <1>5, CallFields, Distinct, VersionsAssumption DEF CacheInv, CacheTypeOK, Path
<1>6. ASSUME alone[p], stage'[p] = "rejected" PROVE Excused(p)'
  BY <1>6, CallFields, Distinct DEF CacheInv, CacheTypeOK, Path, Excused
<1>7. ASSUME alone[p], stage'[p] = "resolved"
      PROVE  got'[p] = info'[p] /\ (call'[p].forceCache \/ got'[p] >= since'[p])
  BY <1>7, Distinct DEF CacheInv, CacheTypeOK, Path
<1> QED BY <1>1, <1>2, <1>3, <1>4, <1>5, <1>6, <1>7, StepOfOne

LEMMA ReadInv == ASSUME CacheInv, NEW p \in Processes, Read(p) PROVE CacheInv'
<1> USE DEF Read, At, Go, Reject, Turn, disk, ghosts
<1>1. CacheTypeOK'
  BY VersionsAssumption, CallFields, ZenonT(30) DEF CacheInv, CacheTypeOK, Stages, Over, Codes, Uncoded, Files, Versions
<1>2. DamageIsByWriter'
  BY Distinct DEF CacheInv, CacheTypeOK, DamageIsByWriter
<1>3. Running(p) /\ \A q \in Processes \ {p} : stage'[q] = stage[q]
  BY DEF CacheInv, CacheTypeOK, Running, Over
<1>4. UNCHANGED <<published, alone, since, call>>
  OBVIOUS
<1>5. ASSUME alone[p] PROVE Path(p)'
  BY <1>5, CallFields, Distinct, VersionsAssumption, ZenonT(30) DEF CacheInv, CacheTypeOK, Path
<1>6. ASSUME alone[p], stage'[p] = "rejected" PROVE Excused(p)'
  <2>1. target # Damaged
    BY <1>6, Distinct DEF CacheInv, Path
  <2>2. error' = [error EXCEPT ![p] = "TUF_READ_TARGET_ERROR"]
    BY <1>6, <2>1 DEF CacheInv, CacheTypeOK
  <2> QED BY <2>2 DEF CacheInv, CacheTypeOK, Excused
<1>7. ASSUME alone[p], stage'[p] = "resolved"
      PROVE  got'[p] = info'[p] /\ (call'[p].forceCache \/ got'[p] >= since'[p])
  BY <1>7, Distinct DEF CacheInv, CacheTypeOK, Path
<1> QED BY <1>1, <1>2, <1>3, <1>4, <1>5, <1>6, <1>7, StepOfOne

LEMMA Numbers ==
  CacheInv => /\ published \in Int /\ published \in 1 .. MaxVersion
              /\ starts \in Int /\ 0 <= starts /\ starts <= MaxStarts
              /\ \A p \in Processes : since[p] \in Int
<1> SUFFICES ASSUME CacheInv
             PROVE  /\ published \in Int /\ published \in 1 .. MaxVersion
                    /\ starts \in Int /\ 0 <= starts /\ starts <= MaxStarts
                    /\ \A p \in Processes : since[p] \in Int
  OBVIOUS
<1>1. /\ published \in 1 .. MaxVersion /\ starts \in 0 .. MaxStarts
      /\ \A p \in Processes : since[p] \in {0} \cup 1 .. MaxVersion
  BY DEF CacheInv, CacheTypeOK, Versions
<1> QED BY <1>1, VersionsAssumption

LEMMA StartInv == ASSUME CacheInv, NEW p \in Processes, Start(p) PROVE CacheInv'
<1> USE DEF Start, disk
<1>0. PICK c \in Calls : call' = [call EXCEPT ![p] = c] /\ stage' = [stage EXCEPT ![p] = "cacheDir"]
  OBVIOUS
<1>1. CacheTypeOK'
  <2>1. starts' \in 0 .. MaxStarts
    <3>1. starts < MaxStarts /\ starts' = starts + 1
      OBVIOUS
    <3> HIDE DEF Start
    <3> QED BY <3>1, Numbers, VersionsAssumption
  <2>2. alone' \in [Processes -> BOOLEAN] /\ since' \in [Processes -> {0} \cup Versions]
    BY DEF CacheInv, CacheTypeOK
  <2>3. /\ stage' \in [Processes -> Over \cup Stages] /\ call' \in [Processes -> Calls \cup {NoCall}]
        /\ error' \in [Processes -> {""} \cup Codes \cup Uncoded]
    BY <1>0 DEF CacheInv, CacheTypeOK, Stages
  <2>4. info' \in [Processes -> {Missing} \cup Versions] /\ got' \in [Processes -> Files]
    BY DEF CacheInv, CacheTypeOK, Files
  <2> QED BY <2>1, <2>2, <2>3, <2>4 DEF CacheInv, CacheTypeOK
<1>2. stage'[p] = "cacheDir" /\ \A q \in Processes \ {p} : stage'[q] = stage[q]
  BY <1>0 DEF CacheInv, CacheTypeOK
<1>3. DamageIsByWriter'
  BY <1>2 DEF CacheInv, DamageIsByWriter, Running, Over
<1>4. \A q \in Processes : alone'[q] => q = p /\ \A r \in Processes \ {p} : ~ Running(r)
  OBVIOUS
<1>5. AloneRuns'
  BY <1>2, <1>4 DEF AloneRuns, Running
<1>6. AloneIsCurrent'
  BY <1>2, <1>4 DEF AloneIsCurrent
<1>7. \A q \in Processes : alone'[q] => Path(q)' /\ (stage'[q] = "rejected" => Excused(q)')
  BY <1>2, <1>4 DEF Path, At
<1>8. \A q \in Processes : since'[q] <= published'
  <2>1. published' = published /\ \A q \in Processes : since'[q] = since[q] \/ since'[q] = published
    BY DEF CacheInv, CacheTypeOK
  <2>2. \A q \in Processes : since[q] <= published
    BY DEF CacheInv
  <2> HIDE DEF Start
  <2> QED BY <2>1, <2>2, Numbers
<1> QED BY <1>1, <1>3, <1>5, <1>6, <1>7, <1>8 DEF CacheInv

LEMMA DieInv == ASSUME CacheInv, NEW p \in Processes, Die(p) PROVE CacheInv'
<1> USE DEF Die, disk
<1>1. stage'[p] = "off" /\ \A q \in Processes \ {p} : stage'[q] = stage[q]
  BY DEF CacheInv, CacheTypeOK
<1>2. CacheTypeOK'
  BY DEF CacheInv, CacheTypeOK, Over, At
<1>3. DamageIsByWriter'
  BY <1>1 DEF CacheInv, DamageIsByWriter, At
<1>4. Path(p)'
  BY <1>1 DEF Path, At
<1> QED BY <1>1, <1>2, <1>3, <1>4, StepOfOne

LEMMA PublishInv == ASSUME CacheInv, Publish PROVE CacheInv'
<1> USE DEF Publish, disk, ghosts
<1>1. CacheTypeOK'
  <2>1. published' \in Versions
    <3>1. published < MaxVersion /\ published' = published + 1
      OBVIOUS
    <3> QED BY <3>1, Numbers, VersionsAssumption DEF Versions
  <2> QED BY <2>1 DEF CacheInv, CacheTypeOK
<1>2. DamageIsByWriter' /\ AloneIsCurrent' /\ AloneRuns'
  BY DEF CacheInv, DamageIsByWriter, AloneIsCurrent, AloneRuns, Running
<1>3. \A p \in Processes : alone'[p] => Path(p)' /\ (stage'[p] = "rejected" => Excused(p)')
  BY DEF CacheInv, Path, At, Excused
<1>4. \A p \in Processes : since'[p] <= published'
  <2>1. published' = published + 1 /\ UNCHANGED since /\ \A p \in Processes : since[p] <= published
    BY DEF CacheInv
  <2> QED BY <2>1, Numbers
<1> QED BY <1>1, <1>2, <1>3, <1>4 DEF CacheInv

-----------------------------------------------------------------------------
LEMMA CacheNextInv == CacheInv /\ [Next]_vars => CacheInv'
<1> SUFFICES ASSUME CacheInv, [Next]_vars PROVE CacheInv'
  OBVIOUS
<1>1. ASSUME NEW p \in Processes, Seed(p) PROVE CacheInv'
  BY <1>1, CacheDirInv, MkCacheInv, TargetsDirInv, MkTargetsInv, RootCheckInv, OpenRootInv, WriteRootInv,
     OpenSeedInv, WriteSeedInv DEF Seed
<1>2. ASSUME NEW p \in Processes, Update(p) PROVE CacheInv'
  BY <1>2, ConstructInv, RefreshInv, GetTargetInv, FindInv, DownloadInv, CopyInv, ReadInv DEF Update
<1>3. ASSUME NEW p \in Processes, Start(p) \/ Die(p) PROVE CacheInv'
  BY <1>3, StartInv, DieInv
<1>4. CASE Publish
  BY <1>4, PublishInv
<1>5. CASE UNCHANGED vars
  BY <1>5, ZenonT(30) DEF vars, disk, ghosts, CacheInv, CacheTypeOK, DamageIsByWriter, AloneIsCurrent, AloneRuns,
     Running, Path, At, Excused
<1> QED BY <1>1, <1>2, <1>3, <1>4, <1>5 DEF Next

(* The inductive invariant: what a process that has the cache for itself      *)
(* relies on from each of its steps to the next.                           *)
THEOREM CacheInvariant == Spec => []CacheInv
<1>1. Init => CacheInv
  BY CacheInitInv
<1>2. CacheInv /\ [Next]_vars => CacheInv'
  BY CacheNextInv
<1> QED BY <1>1, <1>2, PTL DEF Spec

(* Every variable of TUFCache keeps its type.                              *)
THEOREM CacheTypeCorrect == Spec => []CacheTypeOK
  BY CacheInvariant, PTL DEF CacheInv

(* However many processes seed, refresh, fail and die: a root.json that        *)
(* cannot be read is one that is being written, or whose writer died or failed *)
(* since it was last written (client.ts:123-140).                          *)
THEOREM DamageIsByWriterHolds == Spec => []DamageIsByWriter
  BY CacheInvariant, PTL DEF CacheInv

LEMMA ExcusedSucceeds == CacheInv => AloneSucceeds
<1> SUFFICES ASSUME CacheInv, NEW p \in Processes, stage[p] = "rejected", alone[p]
             PROVE  CASE error[p] \in {"TUF_REFRESH_METADATA_ERROR", "REFRESH", "TUF_DOWNLOAD_TARGET_ERROR",
                                       "TUF_READ_TARGET_ERROR", "DISK"} -> TRUE
                      [] error[p] = "TUF_FIND_TARGET_ERROR" -> ~ call[p].listed
                      [] error[p] = "TUF_INIT_CACHE_ERROR"  -> ~ call[p].seeded /\ ~ call[p].rootPath
                      [] error[p] = "ROOT" -> rootFile = Damaged /\ ~ call[p].forceInit
                      [] OTHER -> FALSE
  BY DEF AloneSucceeds
<1>1. Excused(p)
  BY DEF CacheInv
<1> QED BY <1>1 DEF Excused

(* Whatever others left in the cache, at whatever step they died: a process   *)
(* that has it for itself fails for a cause outside of it, but for a root     *)
(* that was damaged (client.ts:93-151, target.ts:47-83).                   *)
THEOREM AloneSucceedsHolds == Spec => []AloneSucceeds
<1>1. CacheInv => AloneSucceeds
  BY ExcusedSucceeds
<1> QED BY <1>1, CacheInvariant, PTL

(* What it reads is the whole target that its metadata speaks of, as new as   *)
(* the repository was when it started (target.ts:25-83).                   *)
THEOREM AloneIsCurrentHolds == Spec => []AloneIsCurrent
  BY CacheInvariant, PTL DEF CacheInv
==============================================================================
