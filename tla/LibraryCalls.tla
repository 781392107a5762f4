---------------------------- MODULE LibraryCalls ----------------------------
(***************************************************************************)
(* Calls of the functions of Digest, Paths and Locations that any program  *)
(* may make, one in a behaviour, and what is promised of each.             *)
(***************************************************************************)
EXTENDS Digest, Paths, Locations

CONSTANTS Digests,       \* the strings given to FromString
          AnyPaths,      \* the paths given to the validations
          Homes,         \* home directories
          Environments,  \* environments to look locations up in
          AppNames       \* the names that programs give to the location functions

\* strings.Cut splits any string in a part at least.
ASSUME LibraryCallsAssumption ==
  /\ \A dgst \in Digests : dgst \in Seq(DigestPart) /\ dgst # <<>>
  /\ \A path \in AnyPaths : path \in Seq(STRING)
  /\ \A home \in Homes : home \in Seq(STRING)
  /\ \A env \in Environments :
       /\ env \in [Variables -> Seq(STRING)]
       /\ \A home \in Homes : Tidy(env, home)
  /\ \A name \in AppNames : name \in STRING

VARIABLE call  \* the function and its arguments

Idling == [fn |-> "none"]

\* freebsd stands for the others: Unix has one table of directories.
Systems == {"linux", "darwin", "windows", "freebsd"}

CallFromString ==
  \E dgst \in Digests : call' = [fn |-> "FromString", dgst |-> dgst]

CallValidate ==
  \E os \in Platforms, path \in AnyPaths :
    call' = [fn |-> "Validate", os |-> os, path |-> path]

CallDirs ==
  \E os \in Systems, env \in Environments, home \in Homes, app \in AppNames :
    call' = [fn |-> "Dirs", os |-> os, env |-> env, home |-> home, name |-> app]

CallsInit == call = Idling

CallsNext == call = Idling /\ (CallFromString \/ CallValidate \/ CallDirs)

CallsSpec == CallsInit /\ [][CallsNext]_call

-----------------------------------------------------------------------------
\* The tables of the digest package agree: what FromString accepts for an algorithm is
\* what the algorithm's Hash makes, and it comes back from String.
DigestRoundTrip == call.fn = "FromString" => ComesBack(call.dgst)

\* What is accepted names what it seems to: an accepted component an entry of the
\* directory it is joined to, and what follows the volume in an accepted path nothing
\* above the directory it starts from, as the system itself splits and reads it.
AcceptedPaths == call.fn = "Validate" => Accepted(call.os, call.path)

\* On every system the cache can be cleared without data, configuration or sockets.
CacheApart == call.fn = "Dirs" => Apart(call.os, call.env, call.home, call.name)

=============================================================================
