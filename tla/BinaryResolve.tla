--------------------------- MODULE BinaryResolve ---------------------------
(***************************************************************************)
(* find_daemon_binary and get_binary_candidates: the ordered list of       *)
(* candidate paths built from the optional resource directory, the         *)
(* directory of the running executable, the working directory and three   *)
(* development dist directories, and the loop that returns the first       *)
(* candidate for which path.exists() holds.                                *)
(*                                                                         *)
(* A path is a pair <<directory, name>>.  The file system is the set of    *)
(* candidate paths that are regular files plus at most one candidate path  *)
(* that is a directory; path.exists() is true for both.  The platform is   *)
(* one of the five targets the #[cfg] attributes name (arch_binary differs *)
(* from binary_name) or any other (arch_binary falls back to binary_name,  *)
(* and the list holds duplicates).                                         *)
(***************************************************************************)
EXTENDS Sequences, SequencesExt

VARIABLES
    resDir,     \* state.resource_dir is Some
    exeDir,     \* current_exe() is Ok and has a parent directory
    archKnown,  \* the target has its own arch_binary name
    files,      \* candidate paths that are regular files
    dirPath,    \* a candidate path that is a directory, or NoPath
    result      \* Unset before the call, then a path or NotFound

brVars == <<resDir, exeDir, archKnown, files, dirPath, result>>

\* Outcomes that are not paths, as pairs so that TLC compares them with paths.
NoPath == <<"", "">>
NotFound == <<"", "Err(BinaryNotFound)">>
Unset == <<"", "unset">>

BinaryName == "daemon"
ArchBinary(known) == IF known THEN "daemon-os-arch" ELSE BinaryName

P(d, n) == <<d, n>>

\* get_binary_candidates: the list in the order the code pushes it.
Candidates(res, exe, known) ==
    LET arch == ArchBinary(known) IN
       (IF res THEN << P("res", BinaryName), P("res", arch),
                       P("res/binaries", BinaryName),
                       P("res/binaries", arch) >>
               ELSE << >>)
    \o (IF exe THEN << P("exe", BinaryName), P("exe", arch) >> ELSE << >>)
    \o << P("cwd", BinaryName), P("cwd", arch),
          P("../../dist", arch), P("../dist", arch), P("dist", arch) >>

Cands == Candidates(resDir, exeDir, archKnown)

\* path.exists(): true for a regular file and for a directory.
Exists(p) == p \in files \/ p = dirPath

\* find_daemon_binary: `for path in candidates { if path.exists() { return
\* Ok(path) } }`, then Err(BinaryNotFound).
FindDaemonBinary(C) ==
    LET f[i \in 1..Len(C) + 1] ==
          IF i > Len(C) THEN NotFound
          ELSE IF Exists(C[i]) THEN C[i] ELSE f[i + 1]
    IN f[1]

\* The environment the lookup runs in: every combination of resource
\* directory, executable directory, platform and files among the candidates.
Init ==
    /\ resDir \in BOOLEAN
    /\ exeDir \in BOOLEAN
    /\ archKnown \in BOOLEAN
    /\ files \in SUBSET Range(Candidates(resDir, exeDir, archKnown))
    /\ dirPath \in (Range(Candidates(resDir, exeDir, archKnown)) \ files)
                     \cup {NoPath}
    /\ result = Unset

\* start_daemon's call of find_daemon_binary(state.resource_dir.clone()).
Resolve ==
    /\ result = Unset
    /\ result' = FindDaemonBinary(Cands)
    /\ UNCHANGED <<resDir, exeDir, archKnown, files, dirPath>>

Next == Resolve

Spec == Init /\ [][Next]_brVars

-----------------------------------------------------------------------------

\* The reference: the candidate of least index in the list that passes
\* Test, or BinaryNotFound when none does.
FirstWith(Test(_)) ==
    LET i == SelectInSeq(Cands, Test) IN IF i = 0 THEN NotFound ELSE Cands[i]

\* spec 4.2: resolve_binary returns the first candidate that exists as a
\* regular file.  When one of the candidates is a regular file, the lookup
\* returns the first of them; the code's path.exists() also accepts a
\* directory, so a directory earlier in the list is returned instead (and
\* spawn() fails on it) while the regular file after it is never tried.
ResolvesFirstRegularFile ==
    /\ result # Unset
    /\ \E i \in 1..Len(Cands) : Cands[i] \in files
    => result = FirstWith(LAMBDA p : p \in files)

=============================================================================
