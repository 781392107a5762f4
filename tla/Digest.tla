------------------------------- MODULE Digest -------------------------------
(***************************************************************************)
(* digest: FromString, String and Hash.  A string is the sequence of its   *)
(* parts between colons; a part is the name of an algorithm, or so many    *)
(* characters, all of a-f and 0-9 or not.                                  *)
(***************************************************************************)
EXTENDS Naturals, Sequences

Algorithm == {"sha1", "sha256", "sha384", "sha512", "blake2b-256", "blake2b-512"}

Text(name) == [name |-> name, length |-> 0, hex |-> FALSE]
Chars(n, hex) == [name |-> "", length |-> n, hex |-> hex]

DigestPart == {p \in [name : STRING, length : Nat, hex : BOOLEAN] : p.name # "" => p = Text(p.name)}

\* hashConstructors[alg]().Size(), in bytes.
Size(alg) ==
  CASE alg = "sha1" -> 20
    [] alg \in {"sha256", "blake2b-256"} -> 32
    [] alg = "sha384" -> 48
    [] alg \in {"sha512", "blake2b-512"} -> 64

\* Mutant: the table takes the length of every BLAKE2b for that of the longest.
BlakeIsLong(alg) ==
  CASE alg = "sha1" -> 40
    [] alg = "sha256" -> 64
    [] alg = "sha384" -> 96
    [] alg \in {"sha512", "blake2b-256", "blake2b-512"} -> 128

\* What anchoredEncodedRegexps[alg] counts.
EncodedLength(alg) ==
  CASE alg = "sha1" -> 40
    [] alg \in {"sha256", "blake2b-256"} -> 64
    [] alg = "sha384" -> 96
    [] alg \in {"sha512", "blake2b-512"} -> 128

NoDigest == [algorithm |-> "", encoded |-> <<>>]

\* FromString: strings.Cut at the first colon; the rest has no further one.
FromString(dgst) ==
  LET alg == dgst[1].name
  IN  IF /\ Len(dgst) = 2 /\ alg \in Algorithm
         /\ dgst[2].hex /\ dgst[2].length = EncodedLength(alg)
      THEN [algorithm |-> alg, encoded |-> Tail(dgst)] ELSE NoDigest

String(d) == <<Text(d.algorithm)>> \o d.encoded

\* fmt.Sprintf("%s:%x", alg, alg.Hash().Sum(nil)), as callers make them.
HashString(alg) == <<Text(alg), Chars(2 * Size(alg), TRUE)>>

\* What FromString accepts for an algorithm is what the algorithm's hash makes: every
\* string of a hash is accepted and comes back from String, and an accepted string has
\* the size of the hash its own Algorithm().Hash() returns, which does not panic.
ComesBack(dgst) ==
  LET d == FromString(dgst)
  IN  /\ d # NoDigest => /\ d.algorithm \in Algorithm /\ String(d) = dgst
                         /\ d.encoded[1].length = 2 * Size(d.algorithm)
      /\ \A alg \in Algorithm : dgst = HashString(alg) => d # NoDigest

=============================================================================
