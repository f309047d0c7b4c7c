----------------------------- MODULE Versioning -----------------------------
(***************************************************************************)
(* The order of versions (versioning.py), and what the update manager      *)
(* makes of it: what the backend announces and the manifest names decides  *)
(* whether an update sequence goes on to install.  The sequence itself,    *)
(* step by step beside other threads, is UpdateManager's.                  *)
(*                                                                         *)
(* A version string is what the regular expression finds in it: one to     *)
(* three numbers and the dotted identifiers of a prerelease, or nothing    *)
(* when it does not match.  An identifier of digits is a record with its   *)
(* value (leading zeros are gone in int()); any other one has its place in *)
(* the order of strings.                                                   *)
(***************************************************************************)
EXTENDS Integers, Sequences, FiniteSetsExt

CONSTANTS
  Numbers,     \* values of the numbers of a version
  Digits,      \* values of identifiers that are digits
  Words,       \* other identifiers, numbered in their order as strings
  MaxPre,      \* bound of the model: identifiers of a prerelease
  Releases,    \* versions announced and published
  NoRelease

ASSUME VersioningAssumption ==
  /\ Numbers \subseteq Nat /\ Digits \subseteq Nat /\ Words \subseteq Nat
  /\ 0 \in Numbers
  /\ MaxPre \in Nat

VARIABLES
  current,     \* the version that runs, as a string
  offered,     \* the version of latest_manifest, or NoRelease
  mandatory,   \* required_update
  outdated     \* history: a version newer than the current one was heard of
               \* since the start, and not dropped with its channel

versionVars == <<current, offered, mandatory, outdated>>

Identifiers == [digits : {TRUE}, value : Digits] \cup [digits : {FALSE}, value : Words]
Upto(n, S) == UNION {[1..k -> S] : k \in 0..n}

\* The strings; an empty core is one that does not match.
Strings ==
  [core : {<<>>}, pre : {<<>>}]
    \cup [core : Upto(3, Numbers) \ {<<>>}, pre : Upto(MaxPre, Identifiers)]

ASSUME ReleasesAssumption == Releases \subseteq Strings

-----------------------------------------------------------------------------
(* versioning.py *)

\* _parse: numbers left out are zero.
Parsed(v) ==
  [core |-> [k \in 1..3 |-> IF k <= Len(v.core) THEN v.core[k] ELSE 0],
   pre |-> v.pre]

Sign(n) == IF n > 0 THEN 1 ELSE IF n < 0 THEN -1 ELSE 0

\* _compare_identifier
CompareIdentifier(a, b) ==
  IF a.digits # b.digits THEN IF a.digits THEN -1 ELSE 1
  ELSE Sign(a.value - b.value)

Shorter(p, q) == IF Len(p) < Len(q) THEN Len(p) ELSE Len(q)

\* The loop over both prereleases: the first difference decides, or else
\* their length.
ComparePre(p, q) ==
  LET different == {k \in 1..Shorter(p, q) : CompareIdentifier(p[k], q[k]) # 0} IN
  IF different = {} THEN Sign(Len(p) - Len(q))
  ELSE CompareIdentifier(p[Min(different)], q[Min(different)])

\* Tuples compare by their first difference.
CompareCore(c, d) ==
  LET different == {k \in 1..3 : c[k] # d[k]} IN
  IF different = {} THEN 0 ELSE Sign(c[Min(different)] - d[Min(different)])

\* compare_versions
CompareVersionsBare(v, w) ==                \* fault: no rule for releases
  LET a == Parsed(v)  b == Parsed(w) IN
  IF CompareCore(a.core, b.core) # 0 THEN CompareCore(a.core, b.core)
  ELSE ComparePre(a.pre, b.pre)
CompareVersions(v, w) ==
  LET a == Parsed(v)  b == Parsed(w) IN
  IF CompareCore(a.core, b.core) # 0 THEN CompareCore(a.core, b.core)
  ELSE IF a.pre = <<>> \/ b.pre = <<>>
  THEN (IF a.pre = <<>> THEN 1 ELSE 0) - (IF b.pre = <<>> THEN 1 ELSE 0)
  ELSE ComparePre(a.pre, b.pre)

\* is_newer_version
IsNewerOrEqual(v, w) == CompareVersions(v, w) >= 0       \* fault: equal is newer
IsNewer(v, w) == CompareVersions(v, w) > 0

-----------------------------------------------------------------------------
(* The rule the versions are published under, in one piece, and no part of *)
(* the code: compare the numbers and then the identifiers from left to     *)
(* right; digits come before words, the end of a prerelease before any     *)
(* identifier, and the end of a release after every identifier.            *)
Tokens(v) ==
  LET Number(n) == <<1, n>>
      Identifier(d) == IF d.digits THEN <<1, d.value>> ELSE <<2, d.value>> IN
  [k \in 1..3 |-> Number(Parsed(v).core[k])]
    \o [k \in DOMAIN v.pre |-> Identifier(v.pre[k])]
    \o << IF v.pre = <<>> THEN <<3, 0>> ELSE <<0, 0>> >>

Before(s, t) == s[1] < t[1] \/ (s[1] = t[1] /\ s[2] < t[2])

Precedes(v, w) ==
  LET s == Tokens(v)  t == Tokens(w) IN
  \E k \in DOMAIN s \cap DOMAIN t :
    Before(s[k], t[k]) /\ \A l \in 1..(k - 1) : s[l] = t[l]

-----------------------------------------------------------------------------
(* A Gateway that hears of one release after another *)

Installed ==
  /\ current \in Strings
  /\ offered = NoRelease /\ mandatory = FALSE /\ outdated = FALSE

Heard(v) == outdated' = (outdated \/ Precedes(current, v))

\* set_server_latest_version, with the version a hello_ack carries
Announce(v) ==
  /\ mandatory' = IsNewer(v, current)
  /\ Heard(v)
  /\ UNCHANGED <<current, offered>>

\* check: a newer manifest makes the update required, another one leaves
\* that as it was.
ReadManifest(v) ==
  /\ offered' = v
  /\ mandatory' = (mandatory \/ IsNewer(v, current))
  /\ Heard(v)
  /\ UNCHANGED current

\* set_channel, to another channel and with no sequence under way, drops all
\* that the old channel said.
ChangeChannel ==
  /\ offered' = NoRelease /\ mandatory' = FALSE /\ outdated' = FALSE
  /\ UNCHANGED current

\* update_available of state()
UpdateAvailable == mandatory \/ (offered # NoRelease /\ IsNewer(offered, current))

\* A sequence whose check leaves an update available installs what the
\* manifest names, newer or not, and the new process knows of nothing.
Install ==
  /\ UpdateAvailable /\ offered # NoRelease
  /\ current' = offered
  /\ offered' = NoRelease /\ mandatory' = FALSE /\ outdated' = FALSE

Upgrades == (\E v \in Releases : Announce(v) \/ ReadManifest(v)) \/ ChangeChannel
              \/ Install

UpgradeSpec == Installed /\ [][Upgrades]_versionVars

-----------------------------------------------------------------------------
(* Properties *)

\* A Gateway that is up to date is left alone: as long as it has heard of no
\* version that the published rule puts after its own, in no announcement
\* and no manifest since it started or changed its channel, nothing is
\* installed over it; so an update that was taken is not taken again and
\* again.  What is installed need not be newer (the update may be required
\* while the manifest still lags behind).
UpToDateStays == [][Install => outdated]_versionVars

\* A prerelease is below its release, and versioning.py orders any two
\* versions by that rule.  (Each version is compared with all others where
\* it has just started.)
MatchesPrecedence ==
  offered = NoRelease /\ ~mandatory /\ ~outdated =>
    \A v \in Strings : IsNewer(v, current) <=> Precedes(current, v)
=============================================================================
