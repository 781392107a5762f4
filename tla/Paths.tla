------------------------------- MODULE Paths -------------------------------
(***************************************************************************)
(* filesystem/path.go with its two validatePlatformSpecific.  A path is a  *)
(* sequence of characters of few classes: "a" for an ordinary one, "NUL"   *)
(* for \x00, and "con" and "UNC" for these names, the first one reserved.  *)
(***************************************************************************)
EXTENDS Naturals, Sequences, FiniteSets, SequencesExt

CONSTANT PathComponentMaxLength  \* pathComponentMaxLength

ASSUME PathsAssumption == PathComponentMaxLength \in Nat

\* path_unix.go or path_windows.go.
Platforms == {"unix", "windows"}

PathSeparator(os) == IF os = "windows" THEN "\\" ELSE "/"

\* The characters i to j are a maximal run of others than seps.
IsRun(path, seps, i, j) ==
  /\ i <= j
  /\ \A k \in i .. j : path[k] \notin seps
  /\ i = 1 \/ path[i - 1] \in seps
  /\ j = Len(path) \/ path[j + 1] \in seps

\* The components of a path that is separated by the characters in seps, without the
\* empty ones.
Components(path, seps) ==
  UNION {{SubSeq(path, i, j) : j \in {k \in DOMAIN path : IsRun(path, seps, i, k)}} :
           i \in DOMAIN path}

ReservedCharacters(os) ==
  IF os = "windows" THEN {"NUL", "/", "\\", ":", "?"} ELSE {"NUL", "/"}

\* disallowedKeywords.
Disallowed(os, component) ==
  IF os = "windows" THEN component[1] = "con" /\ (Len(component) = 1 \/ component[2] = ".")
  ELSE component \in {<<".">>, <<".", ".">>}

\* Mutant: path_windows.go without errNoEndingSpaceDot.
NoLastCharacter(os, component) == FALSE

BadLastCharacter(os, component) == os = "windows" /\ Last(component) \in {".", " "}

ValidatePathComponent(os, component) ==
  /\ Len(component) <= PathComponentMaxLength
  /\ \E i \in DOMAIN component : component[i] # " "
  /\ \A i \in DOMAIN component : component[i] \notin ReservedCharacters(os)
  /\ ~Disallowed(os, component)
  /\ ~BadLastCharacter(os, component)

\* What the system takes for separators.
Separators(os) == IF os = "windows" THEN {"/", "\\"} ELSE {"/"}

\* How much of path comes before the nth separator that is not before from.
UpTo(path, from, n) ==
  LET seps == {i \in from .. Len(path) : path[i] \in Separators("windows")}
      nth == {i \in seps : Cardinality({j \in seps : j <= i}) = n}
  IN  IF nth = {} THEN Len(path) ELSE (CHOOSE i \in nth : TRUE) - 1

\* path begins with this, and a separator follows if anything does.
Begins(path, prefix) ==
  /\ Len(path) >= Len(prefix)
  /\ \A i \in DOMAIN prefix :
       path[i] = prefix[i] \/ {path[i], prefix[i]} \subseteq Separators("windows")
  /\ Len(path) > Len(prefix) => path[Len(prefix) + 1] \in Separators("windows")

\* filepath.VolumeName on Windows: C:, \\.\UNC\host\share, \\.\device with its like, and
\* \\host\share, whatever device, host and share are.
VolumeLength(path) ==
  LET drive == Len(path) >= 2 /\ path[2] = ":" /\ path[1] \notin {"con", "UNC"}
      unc == Begins(path, <<"\\", "\\", ".", "\\", "UNC">>)
      device == \/ Begins(path, <<"\\", "\\", ".">>)
                \/ Begins(path, <<"\\", "\\", "?">>)
                \/ Begins(path, <<"\\", "?", "?">>)
      host == Len(path) >= 2 /\ {path[1], path[2]} \subseteq Separators("windows")
  IN  CASE drive -> 2
        [] unc -> UpTo(path, 7, 2)
        [] device /\ ~unc -> UpTo(path, 5, 1)
        [] host /\ ~device -> UpTo(path, 3, 2)
        [] OTHER -> 0

WithoutVolume(os, path) ==
  IF os = "windows" THEN SubSeq(path, VolumeLength(path) + 1, Len(path)) ELSE path

ValidatePath(os, path) ==
  \A c \in Components(WithoutVolume(os, path), {PathSeparator(os)}) : ValidatePathComponent(os, c)

-----------------------------------------------------------------------------
\* As its system takes it, the component stands for the directory it is in, or for the
\* parent of that one.  Windows ignores spaces and dots at the end of a component.
Navigates(os, component) ==
  IF os = "windows" THEN \A i \in DOMAIN component : component[i] \in {".", " "}
  ELSE component \in {<<".">>, <<".", ".">>}

\* As its system splits it, path has these components: each a name that fits.
ReadsAs(os, path, components) ==
  /\ Components(path, Separators(os)) = components
  /\ \A c \in components : ~Navigates(os, c) /\ Len(c) <= PathComponentMaxLength

\* What ValidatePathComponent accepts is one component, without a volume, and names an
\* entry of the directory it is joined to; what follows the volume in a path that
\* ValidatePath accepts leads from name to name downwards, for the system no less than
\* for the code.
Accepted(os, path) ==
  LET rest == WithoutVolume(os, path)
  IN  /\ ValidatePathComponent(os, path) => rest = path /\ ReadsAs(os, path, {path})
      /\ ValidatePath(os, path) => ReadsAs(os, rest, Components(rest, {PathSeparator(os)}))

=============================================================================
