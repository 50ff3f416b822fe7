----------------------------- MODULE LuftpdPath -----------------------------
(***************************************************************************)
(* luftpd_resolve_path (luftpd/src/luftpd_utils.c) and its use by          *)
(* luftpd_handle_cwd (luftpd/src/luftpd.c).                                *)
(*                                                                         *)
(* A C string that holds a path is a record: does it begin with a slash,   *)
(* and its components.  A real path is the sequence of its components from *)
(* "/".  The file system has no symbolic links, so realpath() of an        *)
(* existing path without "." and ".." is that path; length limits are not  *)
(* reached.                                                                *)
(***************************************************************************)
EXTENDS Naturals, FiniteSets, Sequences, SequencesExt

CONSTANTS
    Root,     \* the real path of config->root_dir
    Dirs,     \* the directories that exist
    Cwd,      \* the daemon's working directory
    MaxComps  \* bound: components of a client's path

Names == UNION {Range(d) : d \in Dirs}
Components == Names \cup {"new", ".", ".."}
PathString(abs, comps) == [abs |-> abs, comps |-> comps]
Arguments ==
    {PathString(abs, comps) : abs \in BOOLEAN,
                              comps \in BoundedSeq(Components, MaxComps)}

\* A real path has no "." and no "..".
ASSUME PathAssumption ==
    /\ Root \in Dirs /\ Cwd \in Dirs /\ MaxComps \in Nat
    /\ Dirs \subseteq Seq(Names \ {".", ".."})

Pending == <<"pending">>
Fail == <<"fail">>
Ok(path) == <<"ok", path>>
-----------------------------------------------------------------------------
\* realpath() of a directory the daemon keeps (no "." or "..").
RealPath(s) == IF s.abs THEN s.comps ELSE Cwd \o s.comps

\* The two prefix tests.  For the root "/" the byte behind the prefix is the
\* first letter of a name, never the slash the second test asks for.
CurrentInRoot(p) == IF Root = <<>> THEN p = <<>> ELSE IsPrefix(Root, p)

\* Mutant: ".." does not leave the directories right below the root.
WalkUpShort(p, comp) ==
    CASE comp = "." -> p
      [] comp = ".." -> IF Len(p) > Len(Root) + 1 THEN Front(p) ELSE p
      [] OTHER -> Append(p, comp)

\* One component of the client's path; ".." stops at the root.
Walk(p, comp) ==
    CASE comp = "." -> p
      [] comp = ".." -> IF Len(p) > Len(Root) THEN Front(p) ELSE p
      [] OTHER -> Append(p, comp)

\* result_path behind the first n components of the client's path.
ResultPath(base, comps) ==
    LET result_path[n \in 0..Len(comps)] ==
            IF n = 0 THEN base ELSE Walk(result_path[n - 1], comps[n])
    IN  result_path

ResolvePath(current, arg) ==
    LET real_current == RealPath(current)
        base == IF arg.abs THEN Root ELSE real_current
        result == ResultPath(base, arg.comps)[Len(arg.comps)]
    IN  IF /\ real_current \in Dirs /\ CurrentInRoot(real_current)
           /\ IsPrefix(Root, result)
        THEN Ok(result) ELSE Fail
-----------------------------------------------------------------------------
(* The function by itself: current_path is an absolute path, as in the     *)
(* tests of its copy in test/test2.c.                                      *)

VARIABLES current_dir, arg, output

pathVars == <<current_dir, arg, output>>

CallInit ==
    /\ current_dir \in {PathString(TRUE, d) : d \in Dirs}
    /\ arg \in Arguments
    /\ output = Pending

Call ==
    /\ output = Pending
    /\ output' = ResolvePath(current_dir, arg)
    /\ UNCHANGED <<current_dir, arg>>

PathSpec == CallInit /\ [][Call]_pathVars
-----------------------------------------------------------------------------
(* The session: current_dir is what luftpd_handle_cwd has left there.      *)

SessionInit ==
    /\ current_dir = PathString(TRUE, <<>>)
    /\ arg = PathString(FALSE, <<>>)
    /\ output = Fail

\* luftpd_handle_cwd: the string behind the first strlen(root_dir) bytes; for
\* the root "/" that takes the leading slash away.
HandleCwd ==
    /\ arg' \in Arguments
    /\ output' = ResolvePath(current_dir, arg')
    /\ current_dir' =
         IF output' = Fail \/ output'[2] \notin Dirs THEN current_dir
         ELSE LET rel == SubSeq(output'[2], Len(Root) + 1, Len(output'[2]))
              IN  PathString(Root # <<>> \/ rel = <<>>, rel)

SessionSpec == SessionInit /\ [][HandleCwd]_pathVars
-----------------------------------------------------------------------------
\* What the path means: the names that no later ".." takes away again.
Count(s, from, to, S) == Cardinality({i \in from..to : s[i] \in S})

Survives(s, i) ==
    /\ s[i] \notin {".", ".."}
    /\ \A j \in i..Len(s) :
         Count(s, i + 1, j, {".."}) <= Count(s, i + 1, j, Names \cup {"new"})

\* The k-th of a set of positions.
Nth(S, k) == CHOOSE i \in {j \in S : Cardinality({h \in S : h <= j}) = k} : TRUE

\* The components at these positions, in their order.
Listed(s, S) == [k \in 1..Cardinality(S) |-> s[Nth(S, k)]]

Normal(s) == Listed(s, {i \in DOMAIN s : Survives(s, i)})

Below(p) == SubSeq(p, Len(Root) + 1, Len(p))

\* The client's path, and where it leads, from the root on.
FromRoot == (IF arg.abs THEN <<>> ELSE Below(current_dir.comps)) \o arg.comps
Meaning == Root \o Normal(FromRoot)

\* A ".." that has no directory below the root to leave.
Climbs ==
    \E j \in DOMAIN FromRoot :
        Count(FromRoot, 1, j, Names \cup {"new"}) < Count(FromRoot, 1, j, {".."})

\* Only the root itself is taken as a path in the root "/".
CurrentIsInRoot ==
    IF Root = <<>> THEN current_dir.comps = <<>> ELSE IsPrefix(Root, current_dir.comps)

\* "Resolve the client's path, make sure that it is inside the FTP root and
\* produce an absolute path" (luftpd_utils.h:10): a path from a directory in
\* the root that does not climb out of it resolves to its meaning, however its
\* "." and ".." are arranged; a path from anywhere else is refused; and no path
\* at all resolves to a place outside.
ResolvesMeaning ==
    output # Pending =>
      /\ CurrentIsInRoot /\ ~Climbs => output = Ok(Meaning)
      /\ ~CurrentIsInRoot => output = Fail
      /\ output # Fail => IsPrefix(Root, output[2])

\* The test of its copy asserts -1 for "../../etc/passwd" from a directory of
\* the root (test/test2.c:238): a path that climbs is refused.
ClimbingIsRefused == output # Pending /\ Climbs => output = Fail

\* "path relative to root" (luftpd_cfg.h:39): the empty path resolves to the
\* directory below the root that current_dir names.
CurrentDirIsBelowRoot ==
    ResolvePath(current_dir, PathString(FALSE, <<>>)) = Ok(Root \o current_dir.comps)

\* What comes of it: with any root but "/" no CWD of a session ever succeeds.
EveryCwdFails == Root # <<>> => output = Fail /\ current_dir = PathString(TRUE, <<>>)
=============================================================================
