------------------------------ MODULE TUFCache ------------------------------
(***************************************************************************)
(* The cache of the trusted root (packages/tuf/src): processes that each make *)
(* a TUFClient and read a target through it, in one directory that they       *)
(* share.  Every call of the file system is a step of its own, between which  *)
(* others run, that may fail, and after which a process may die.            *)
(*                                                                         *)
(* External: the repository, which publishes ever newer versions of the       *)
(* target, and the Updater of tuf-js, which has read root.json when it is     *)
(* made, refreshes the metadata, takes a cached target only if it is the one  *)
(* of the metadata, and copies a target there once it has been verified.  A   *)
(* copy of a file that fails may take away the copy (copyFileSync of Node).  *)
(***************************************************************************)
EXTENDS Integers, FiniteSets

CONSTANTS
  Processes,
  Calls,        \* the calls: [entry, seeded, rootPath, forceInit, forceCache, listed]
  SeedVersion,  \* the version of the target in seeds.json
  MaxVersion,   \* bound: versions that are published
  MaxStarts     \* bound: calls that are made in all

ASSUME VersionsAssumption ==
  /\ SeedVersion \in Nat \ {0} /\ MaxVersion \in Nat /\ SeedVersion <= MaxVersion
  /\ MaxStarts \in Nat
ASSUME CallsAssumption ==
  Calls \subseteq [entry : {"getTrustedRoot", "initTUF"}, seeded : BOOLEAN, rootPath : BOOLEAN,
                   forceInit : BOOLEAN, forceCache : BOOLEAN, listed : BOOLEAN]

Missing  == 0        \* no such file
Damaged  == -1       \* opened for writing, and not yet written to the end
Versions == 1 .. MaxVersion
Intact   == 1        \* a root.json that can be read

VARIABLES
  published,  \* the version of the target that the repository has
  dirs,       \* the directories there are: "cache", "targets"
  rootFile,   \* root.json
  target,     \* the target's file
  metadata,   \* the version the cached metadata speaks of
  stage,      \* stage[p]: what p does next
  call,       \* call[p]: what p was called with
  info,       \* info[p]: the version the metadata of p's Updater speaks of
  got,        \* got[p]: what p has read
  error,      \* error[p]: the code p's call was rejected with
  starts,     \* calls so far
  alone,      \* alone[p]: no other process has run since p started
  since,      \* since[p]: the version that was published when p started
  broken      \* whether one has died or failed writing root.json since it was last written

disk == <<dirs, rootFile, target, metadata>>
ghosts == <<starts, alone, since, broken>>
vars == <<published, disk, stage, call, info, got, error, ghosts>>

Stages == {"mkCache", "cacheDir", "mkTargets", "targetsDir", "rootCheck", "openRoot", "writeRoot", "openSeed",
           "writeSeed", "construct", "refresh", "ready", "find", "download", "copy", "read"}
Over     == {"off", "resolved", "rejected"}
Codes    == {"TUF_INIT_CACHE_ERROR", "TUF_FIND_TARGET_ERROR", "TUF_REFRESH_METADATA_ERROR",
             "TUF_DOWNLOAD_TARGET_ERROR", "TUF_READ_TARGET_ERROR"}
Uncoded  == {"EEXIST", "ENOENT", "DISK", "ROOT", "JSON", "REFRESH"}   \* thrown by what is called

Running(p) == stage[p] \notin Over
NoCall == [entry |-> "initTUF", seeded |-> FALSE, rootPath |-> FALSE, forceInit |-> FALSE,
           forceCache |-> FALSE, listed |-> FALSE]

-----------------------------------------------------------------------------
Init ==
  /\ published \in {SeedVersion} /\ starts = 0 /\ broken = FALSE
  /\ dirs = {} /\ rootFile = Missing /\ target = Missing /\ metadata = Missing
  /\ stage = [p \in Processes |-> "off"]
  /\ call  = [p \in Processes |-> NoCall]
  /\ info  = [p \in Processes |-> Missing]
  /\ got   = [p \in Processes |-> Missing]
  /\ error = [p \in Processes |-> ""]
  /\ alone = [p \in Processes |-> FALSE]
  /\ since = [p \in Processes |-> 0]

At(p, now) == stage[p] = now
Turn(p, next, code) ==
  /\ stage' = [stage EXCEPT ![p] = next] /\ error' = [error EXCEPT ![p] = code]
  /\ UNCHANGED <<call, starts, alone, since>>
Go(p, next)     == Turn(p, next, error[p]) /\ UNCHANGED broken
Reject(p, code) == Turn(p, "rejected", code) /\ UNCHANGED broken

(* createClient: a process is started, or the one that is there calls again. *)
Start(p) ==
  /\ ~ Running(p) /\ starts < MaxStarts
  /\ \E c \in Calls :
       /\ call'  = [call EXCEPT ![p] = c]
       /\ stage' = [stage EXCEPT ![p] = "cacheDir"]
  /\ starts' = starts + 1
  /\ alone' = [q \in Processes |-> q = p /\ \A r \in Processes \ {p} : ~ Running(r)]
  /\ since' = [since EXCEPT ![p] = published]
  /\ info'  = [info EXCEPT ![p] = Missing] /\ got' = [got EXCEPT ![p] = Missing]
  /\ error' = [error EXCEPT ![p] = ""]
  /\ UNCHANGED <<published, disk, broken>>

\* Mutant: a cache that is there is taken to be complete.
CacheDirComplete(p) ==
  /\ At(p, "cacheDir")
  /\ Go(p, IF "cache" \in dirs THEN "rootCheck" ELSE "mkCache")
  /\ UNCHANGED <<published, disk, info, got>>

(* initTufCache: the directories, each looked for and then made.           *)
CacheDir(p) ==
  /\ At(p, "cacheDir")
  /\ Go(p, IF "cache" \in dirs THEN "targetsDir" ELSE "mkCache")
  /\ UNCHANGED <<published, disk, info, got>>

\* mkdir with recursive does not mind that it is there.
MkCache(p) ==
  /\ At(p, "mkCache")
  /\ \/ Go(p, "targetsDir") /\ dirs' = dirs \cup {"cache"}
     \/ Reject(p, "DISK") /\ UNCHANGED dirs
  /\ UNCHANGED <<published, rootFile, target, metadata, info, got>>

TargetsDir(p) ==
  /\ At(p, "targetsDir")
  /\ Go(p, IF "targets" \in dirs THEN "rootCheck" ELSE "mkTargets")
  /\ UNCHANGED <<published, disk, info, got>>

MkTargets(p) ==
  /\ At(p, "mkTargets")
  /\ \/ "targets" \in dirs /\ Reject(p, "EEXIST") /\ UNCHANGED dirs
     \/ "targets" \notin dirs /\ Go(p, "rootCheck") /\ dirs' = dirs \cup {"targets"}
     \/ Reject(p, "DISK") /\ UNCHANGED dirs
  /\ UNCHANGED <<published, rootFile, target, metadata, info, got>>

-----------------------------------------------------------------------------
\* Mutant: the file is opened before it is known what to write.
RootCheckOpens(p) ==
  /\ At(p, "rootCheck")
  /\ IF rootFile # Missing /\ ~ call[p].forceInit
     THEN Go(p, "construct") /\ UNCHANGED rootFile
     ELSE /\ rootFile' = Damaged
          /\ IF call[p].rootPath \/ call[p].seeded THEN Go(p, "openRoot")
             ELSE Reject(p, "TUF_INIT_CACHE_ERROR")
  /\ UNCHANGED <<published, dirs, target, metadata, info, got>>

(* seedCache: a root.json that is there, in whatever state, is kept unless    *)
(* the call is to force it.                                                *)
RootCheck(p) ==
  /\ At(p, "rootCheck")
  /\ IF rootFile # Missing /\ ~ call[p].forceInit THEN Go(p, "construct")
     ELSE IF call[p].rootPath \/ call[p].seeded THEN Go(p, "openRoot")
     ELSE Reject(p, "TUF_INIT_CACHE_ERROR")
  /\ UNCHANGED <<published, disk, info, got>>

(* copyFileSync or writeFileSync: the file is emptied, and written.  There    *)
(* may be nothing to copy, or no way to open it.                           *)
OpenRoot(p) ==
  /\ At(p, "openRoot")
  /\ \/ Go(p, "writeRoot") /\ rootFile' = Damaged
     \/ Reject(p, "DISK") /\ UNCHANGED rootFile
  /\ UNCHANGED <<published, dirs, target, metadata, info, got>>

WriteRoot(p) ==
  /\ At(p, "writeRoot")
  /\ \/ /\ rootFile' = Intact /\ broken' = FALSE
        /\ Turn(p, IF call[p].rootPath THEN "construct" ELSE "openSeed", error[p])
     \/ /\ rootFile' \in {rootFile} \cup IF call[p].rootPath THEN {Missing} ELSE {}
        /\ broken' = TRUE
        /\ Turn(p, "rejected", "DISK")
  /\ UNCHANGED <<published, dirs, target, metadata, info, got>>

OpenSeed(p) ==
  /\ At(p, "openSeed")
  /\ \/ "targets" \in dirs /\ target' = Damaged /\ Go(p, "writeSeed")
     \/ "targets" \notin dirs /\ Reject(p, "ENOENT") /\ UNCHANGED target
     \/ Reject(p, "DISK") /\ UNCHANGED target
  /\ UNCHANGED <<published, dirs, rootFile, metadata, info, got>>

WriteSeed(p) ==
  /\ At(p, "writeSeed")
  /\ \/ Go(p, "construct") /\ target' = SeedVersion
     \/ Reject(p, "DISK") /\ UNCHANGED target
  /\ UNCHANGED <<published, dirs, rootFile, metadata, info, got>>

(* initClient: the constructor of the Updater reads root.json.             *)
Construct(p) ==
  /\ At(p, "construct")
  /\ \/ rootFile = Intact /\ Go(p, "refresh")
     \/ rootFile # Intact /\ Reject(p, "ROOT")
     \/ Reject(p, "DISK")
  /\ UNCHANGED <<published, disk, info, got>>

-----------------------------------------------------------------------------
(* refresh(), by initTUF, or by getTargetInfo of a client that was never      *)
(* refreshed: the metadata that the repository has now or, with forceCache,   *)
(* what is cached and has not expired; or the repository is out of reach.  *)
Refresh(p) ==
  /\ At(p, "refresh")
  /\ \/ /\ \/ info' = [info EXCEPT ![p] = published] /\ metadata' = published
           \/ /\ call[p].forceCache /\ metadata # Missing
              /\ info' = [info EXCEPT ![p] = metadata] /\ UNCHANGED metadata
        /\ Go(p, IF call[p].entry = "initTUF" THEN "ready" ELSE "find")
     \/ /\ Reject(p, IF call[p].entry = "initTUF" THEN "REFRESH" ELSE "TUF_REFRESH_METADATA_ERROR")
        /\ UNCHANGED <<info, metadata>>
  /\ UNCHANGED <<published, dirs, rootFile, target, got>>

(* initTUF has resolved; getTarget of its client may be called later.      *)
GetTarget(p) ==
  /\ At(p, "ready") /\ Go(p, "find")
  /\ UNCHANGED <<published, disk, info, got>>

\* Mutant: a target that is not listed is not told by its code.
FindUncoded(p) ==
  /\ At(p, "find")
  /\ IF ~ call[p].listed THEN Reject(p, "UNLISTED")
     ELSE Go(p, IF target = info[p] THEN "read" ELSE "download")
  /\ UNCHANGED <<published, disk, info, got>>

\* Mutant: a cached target is taken whatever the metadata says of it.
FindAny(p) ==
  /\ At(p, "find")
  /\ IF ~ call[p].listed THEN Reject(p, "TUF_FIND_TARGET_ERROR")
     ELSE Go(p, IF target # Missing THEN "read" ELSE "download")
  /\ UNCHANGED <<published, disk, info, got>>

(* getTargetPath: the cached target if it is the one of the metadata.      *)
Find(p) ==
  /\ At(p, "find")
  /\ IF ~ call[p].listed THEN Reject(p, "TUF_FIND_TARGET_ERROR")
     ELSE Go(p, IF target = info[p] THEN "read" ELSE "download")
  /\ UNCHANGED <<published, disk, info, got>>

(* downloadTarget: fetched and verified, and the file emptied for the copy;   *)
(* or the repository is out of reach.                                      *)
Download(p) ==
  /\ At(p, "download")
  /\ \/ /\ "targets" \in dirs /\ target' = Damaged /\ Go(p, "copy")
     \/ /\ Reject(p, "TUF_DOWNLOAD_TARGET_ERROR") /\ UNCHANGED target
  /\ UNCHANGED <<published, dirs, rootFile, metadata, info, got>>

Copy(p) ==
  /\ At(p, "copy")
  /\ \/ Go(p, "read") /\ target' = info[p]
     \/ Reject(p, "TUF_DOWNLOAD_TARGET_ERROR") /\ target' \in {target, Missing}
  /\ UNCHANGED <<published, dirs, rootFile, metadata, info, got>>

(* readTarget reads the file at the path, as it is now; getTrustedRoot        *)
(* parses what it has read.                                                *)
Read(p) ==
  /\ At(p, "read")
  /\ got' = [got EXCEPT ![p] = target]
  /\ \/ Reject(p, "TUF_READ_TARGET_ERROR")
     \/ IF target = Damaged /\ call[p].entry = "getTrustedRoot" THEN Reject(p, "JSON")
                                                                ELSE Go(p, "resolved")
  /\ UNCHANGED <<published, disk, info>>

-----------------------------------------------------------------------------
(* A process dies, or is done with a client that it has initialised.       *)
Die(p) ==
  /\ Running(p)
  /\ broken' = (broken \/ At(p, "writeRoot"))
  /\ stage' = [stage EXCEPT ![p] = "off"]
  /\ UNCHANGED <<published, disk, call, info, got, error, starts, alone, since>>

Publish ==
  /\ published < MaxVersion
  /\ published' = published + 1
  /\ UNCHANGED <<disk, stage, call, info, got, error, ghosts>>

Seed(p)   == CacheDir(p) \/ MkCache(p) \/ TargetsDir(p) \/ MkTargets(p)
               \/ RootCheck(p) \/ OpenRoot(p) \/ WriteRoot(p) \/ OpenSeed(p) \/ WriteSeed(p)
Update(p) == Construct(p) \/ Refresh(p) \/ GetTarget(p) \/ Find(p) \/ Download(p) \/ Copy(p) \/ Read(p)

Next ==
  \/ \E p \in Processes : Start(p) \/ Seed(p) \/ Update(p) \/ Die(p)
  \/ Publish

Spec == Init /\ [][Next]_vars
-----------------------------------------------------------------------------
Files == {Missing, Damaged} \cup Versions

CacheTypeOK ==
  /\ published \in Versions /\ starts \in 0 .. MaxStarts /\ broken \in BOOLEAN
  /\ dirs \subseteq {"cache", "targets"}
  /\ rootFile \in {Missing, Damaged, Intact}
  /\ target \in Files /\ metadata \in {Missing} \cup Versions
  /\ stage \in [Processes -> Over \cup Stages]
  /\ call \in [Processes -> Calls \cup {NoCall}]
  /\ info \in [Processes -> {Missing} \cup Versions]
  /\ got \in [Processes -> Files]
  /\ error \in [Processes -> {""} \cup Codes \cup Uncoded]
  /\ alone \in [Processes -> BOOLEAN]
  /\ since \in [Processes -> {0} \cup Versions]

(* A root.json that cannot be read stops every later process, since it is     *)
(* never replaced without forceInit (client.ts:123).  It is one that is being *)
(* written, or one that a process died over or whose write failed since it    *)
(* was last written: no call that fails for another reason leaves one, nor     *)
(* does any number of them that run side by side.                          *)
DamageIsByWriter ==
  rootFile = Damaged =>
    (\E p \in Processes : stage[p] = "writeRoot") \/ broken

(* Whatever processes that ran before left behind, wherever they stopped: a   *)
(* process that has the directory for itself fails only because of the        *)
(* repository or the disk, or for want of a root.json of its own (client.ts   *)
(* 93-151, target.ts:47-83).                                               *)
AloneSucceeds ==
  \A p \in Processes : stage[p] = "rejected" /\ alone[p] =>
    CASE error[p] \in {"TUF_REFRESH_METADATA_ERROR", "REFRESH", "TUF_DOWNLOAD_TARGET_ERROR",
                       "TUF_READ_TARGET_ERROR", "DISK"} -> TRUE
      [] error[p] = "TUF_FIND_TARGET_ERROR" -> ~ call[p].listed
      [] error[p] = "TUF_INIT_CACHE_ERROR"  -> ~ call[p].seeded /\ ~ call[p].rootPath
      [] error[p] = "ROOT" -> rootFile = Damaged /\ ~ call[p].forceInit
      [] OTHER -> FALSE

(* What such a process reads is the target of its metadata to the last byte,  *)
(* neither a seed that is out of date nor half a copy, and no older than what *)
(* was published when it started, unless it was to make do with the cache.  *)
AloneIsCurrent ==
  \A p \in Processes : stage[p] = "resolved" /\ alone[p] =>
    /\ got[p] = info[p]
    /\ call[p].forceCache \/ got[p] >= since[p]
=============================================================================
