----------------------------- MODULE Locations -----------------------------
(***************************************************************************)
(* filesystem/locations.go: where a program keeps its files.  env[v] is a  *)
(* directory or Unset, home the home directory; a directory is a sequence  *)
(* of names.  Each function makes the directory it returns.                *)
(***************************************************************************)
EXTENDS Sequences, SequencesExt

Unset == <<>>

Variables == {"XDG_RUNTIME_DIR", "XDG_DATA_HOME", "XDG_CONFIG_HOME", "XDG_CACHE_HOME",
              "LOCALAPPDATA", "AppData", "TMPDIR"}

\* os.Getenv, or the default if it is empty.
Or(env, v, default) == IF env[v] # Unset THEN env[v] ELSE default

LocalAppData(env, home) == Or(env, "LOCALAPPDATA", home \o <<"AppData", "Local">>)

\* os.TempDir, of TMPDIR or TMP.
TempDir(os, env, home) ==
  Or(env, "TMPDIR", IF os = "windows" THEN home ELSE <<"tmp">>)

\* os.UserConfigDir, or Unset for its error.
UserConfigDir(os, env, home) ==
  CASE os = "darwin" -> home \o <<"Library", "Application Support">>
    [] os = "windows" -> env["AppData"]
    [] OTHER -> Or(env, "XDG_CONFIG_HOME", home \o <<".config">>)

RuntimeDir(os, env, home, name) ==
  IF os = "linux" THEN Append(Or(env, "XDG_RUNTIME_DIR", TempDir(os, env, home)), name)
  ELSE Append(TempDir(os, env, home), name)

DataDir(os, env, home, name) ==
  CASE os = "darwin" -> home \o <<"Library", "Application Support", name>>
    [] os = "linux" -> Append(Or(env, "XDG_DATA_HOME", home \o <<".local", "share">>), name)
    [] os = "windows" -> Append(LocalAppData(env, home), name)
    [] OTHER -> home \o <<".local", "share", name>>

\* Unset if it panics.
ConfigDir(os, env, home, name) ==
  LET base == UserConfigDir(os, env, home)
  IN  IF base = Unset THEN Unset ELSE Append(base, name)

\* Mutant: no directory of its own on Windows, as on the other systems.
CacheIsData(os, env, home, name) ==
  CASE os = "darwin" -> home \o <<"Library", "Caches", name>>
    [] os = "linux" -> Append(Or(env, "XDG_CACHE_HOME", home \o <<".cache">>), name)
    [] os = "windows" -> Append(LocalAppData(env, home), name)
    [] OTHER -> home \o <<".cache", name>>

CacheDir(os, env, home, name) ==
  CASE os = "darwin" -> home \o <<"Library", "Caches", name>>
    [] os = "linux" -> Append(Or(env, "XDG_CACHE_HOME", home \o <<".cache">>), name)
    [] os = "windows" -> LocalAppData(env, home) \o <<name, "cache">>
    [] OTHER -> home \o <<".cache", name>>

BinDir(os, env, home, name) == Append(CacheDir(os, env, home, name), "bin")

\* What the systems themselves and their desktops set v to.
Usual(v, home) ==
  CASE v = "XDG_DATA_HOME" -> {home \o <<".local", "share">>}
    [] v = "XDG_CONFIG_HOME" -> {home \o <<".config">>}
    [] v = "XDG_CACHE_HOME" -> {home \o <<".cache">>}
    [] v = "LOCALAPPDATA" -> {home \o <<"AppData", "Local">>}
    [] v = "AppData" -> {home \o <<"AppData", "Roaming">>}
    [] v = "TMPDIR" -> {<<"tmp">>, home \o <<"AppData", "Local", "Temp">>}
    [] OTHER -> {}

\* Neither of two directories is in the other.
Disjoint(dir, other) == ~IsPrefix(dir, other) /\ ~IsPrefix(other, dir)

\* v is set to a directory of its own: nothing else is in it, and it is in nothing else.
OwnDirectory(env, home, v) ==
  /\ Disjoint(env[v], home) /\ Disjoint(env[v], <<"tmp">>)
  /\ \A w \in Variables \ {v} : env[w] # Unset => Disjoint(env[v], env[w])

\* The environments that hold no surprise.  (A cache in the directory of the data, say,
\* would: the functions do not look at what two variables have in common.)
Tidy(env, home) ==
  \A v \in Variables :
    env[v] # Unset => env[v] \in Usual(v, home) \/ OwnDirectory(env, home, v)

\* The cache can be cleared: on every system, and whatever variables are set in a tidy
\* environment, neither data, nor configuration, nor sockets are in it,
\* although on Windows it is in the directory of the data; the binaries are.
Apart(os, env, home, name) ==
  LET cache == CacheDir(os, env, home, name)
  IN  /\ \A dir \in {DataDir(os, env, home, name), ConfigDir(os, env, home, name),
                     RuntimeDir(os, env, home, name)} : ~IsPrefix(cache, dir)
      /\ IsPrefix(cache, BinDir(os, env, home, name))

=============================================================================
