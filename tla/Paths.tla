------------------------------- MODULE Paths -------------------------------
(***************************************************************************)
(* The two path checkers of the storage module, VolPath::split() and       *)
(* PathSafe::check(), and resolvePath(), which chains them.  A path is a   *)
(* sequence of byte classes; the lengths are small stand-ins for the       *)
(* code's, every one of them reachable.  A caller types a path byte by     *)
(* byte, and every prefix is checked; the volumes come up and go down.     *)
(* The two filesystems and the table of mounts that chooses between them   *)
(* are libraries: the card's is FAT, which has its own ideas of what two   *)
(* names are the same; the flash's is LittleFS, which has none.            *)
(***************************************************************************)
EXTENDS Naturals, Sequences

CONSTANTS Alphabet,   \* byte classes a caller may send
          VolumeBytes,\* the classes allowed in a volume name
          Reserved, Control, \* the classes FAT reserves, and the control bytes
          Volumes,    \* the volume names, as sequences of bytes
          Fat,        \* those of them that are a FAT card
          Fold,       \* what FAT takes a byte of a name for: case does not tell names apart
          LongName,   \* the entry of the card each 8.3 alias stands for, both as folded
          MaxName, MaxPath, MaxSegment,
          MaxTyped    \* bound on the length typed

Slash == "/"
Dot == "."
Space == " "
Backslash == "\\"
Root == <<Slash>>

ASSUME PathsAssumption ==
  /\ MaxName \in Nat /\ MaxPath \in Nat
  /\ Fat \subseteq Volumes

VARIABLES path, volumesUp
pathsVars == <<path, volumesUp>>

\* The end of the run of bytes before the next slash, from position i on.
SegmentEnd(p, i) ==
  IF \E j \in i..Len(p) : p[j] = Slash
  THEN (CHOOSE j \in i..Len(p) : p[j] = Slash /\ \A k \in i..(j - 1) : p[k] # Slash) - 1
  ELSE Len(p)

\* Where the segments of p start: after each slash, the last one included.
Starts(p) == {i + 1 : i \in {j \in 1..Len(p) : p[j] = Slash}}
Segment(p, i) == SubSeq(p, i, SegmentEnd(p, i))

\* A walk that only names the two dot segments.
SegmentResultDots(s) ==
  IF s = <<>> THEN "empty_segment"
  ELSE IF s = <<Dot>> THEN "dot_segment"
  ELSE IF s = <<Dot, Dot>> THEN "parent_segment"
  ELSE "ok"

\* What a walk over the segments says of the first one it will not have.
SegmentResult(s) ==
  IF s = <<>> THEN "empty_segment"
  ELSE IF Len(s) > MaxSegment THEN "segment_too_long"
  ELSE IF s = <<Dot>> THEN "dot_segment"
  ELSE IF s = <<Dot, Dot>> THEN "parent_segment"
  ELSE IF s[Len(s)] = Dot THEN "trailing_dot"
  ELSE IF s[Len(s)] = Space THEN "trailing_space"
  ELSE "ok"

check(p) ==
  IF p = <<>> THEN "empty"
  ELSE IF p[1] # Slash THEN "not_absolute"
  ELSE IF Len(p) > MaxPath THEN "too_long"
  ELSE LET bad == {i \in 1..Len(p) : p[i] \in {Backslash} \cup Control \cup Reserved}
           refused == {i \in Starts(p) : SegmentResult(Segment(p, i)) # "ok"}
       IN IF bad # {}
          THEN LET c == p[CHOOSE i \in bad : \A j \in bad : i <= j] IN
               IF c = Backslash THEN "backslash" ELSE IF c \in Control THEN "control_char" ELSE "reserved_char"
          ELSE IF Len(p) = 1 THEN "ok"
          ELSE IF refused = {} THEN "ok"
          ELSE SegmentResult(Segment(p, CHOOSE i \in refused : \A j \in refused : i <= j))

Fail(why) == [result |-> why, volume |-> <<>>, rest |-> <<>>]

split(p) ==
  IF p = <<>> THEN Fail("empty")
  ELSE IF p[1] # Slash THEN Fail("not_absolute")
  ELSE IF Len(p) > 1 + MaxName + MaxPath THEN Fail("too_long")
  ELSE IF Len(p) = 1 THEN Fail("no_volume")
  ELSE LET name == Segment(p, 2)
           end == 1 + Len(name)   \* the last byte of the prefix
       IN IF name = <<>> THEN Fail("empty_volume")
          ELSE IF Len(name) > MaxName THEN Fail("volume_too_long")
          ELSE IF \E i \in DOMAIN name : name[i] \notin VolumeBytes THEN Fail("volume_bad_char")
          ELSE IF end + 1 = Len(p) THEN Fail("trailing_slash")
          ELSE [result |-> "ok", volume |-> name,
                rest |-> IF end = Len(p) THEN Root ELSE SubSeq(p, end + 1, Len(p))]

\* resolvePath(): prefix, volume, path inside it, and only then whether the
\* volume is up.  The code is what the caller is told, full what is opened.
resolvePath(p, up) ==
  LET s == split(p) IN
  IF s.result # "ok" THEN [code |-> "EPATH", full |-> <<>>]
  ELSE IF s.volume \notin Volumes THEN [code |-> "EVOLUME", full |-> <<>>]
  ELSE IF check(s.rest) # "ok" THEN [code |-> "EPATH", full |-> <<>>]
  ELSE IF s.volume \notin up THEN [code |-> "ENOTMOUNTED", full |-> <<>>]
  ELSE [code |-> "ok",
        full |-> IF s.rest = Root THEN Root \o s.volume ELSE Root \o s.volume \o s.rest]

PathsInit == path = <<>> /\ volumesUp = {}
TypeByte(b) == Len(path) < MaxTyped /\ path' = Append(path, b) /\ UNCHANGED volumesUp
Mount(v) == path = <<>> /\ volumesUp' = volumesUp \cup {v} /\ UNCHANGED path
PathsNext == (\E b \in Alphabet : TypeByte(b)) \/ (\E v \in Volumes : Mount(v))
PathsSpec == PathsInit /\ [][PathsNext]_pathsVars
-----------------------------------------------------------------------------
Highest(S) == CHOOSE n \in S : \A m \in S : m <= n

\* FAT takes a backslash for a separator too, and drops the dots and spaces
\* at the end of a name.
Separators(v) == IF v \in Fat THEN {Slash, Backslash} ELSE {Slash}
Stripped(v, s) ==
  IF v \in Fat THEN SubSeq(s, 1, Highest({0} \cup {n \in 1..Len(s) : s[n] \notin {Dot, Space}}))
  ELSE s

\* The entry of a directory that a name matches, spelled as FAT compares it: in
\* one case, and by its long name where the name is the alias of one.
Entry(v, s) ==
  IF v \notin Fat THEN s
  ELSE LET folded == [i \in DOMAIN s |-> Fold[s[i]]] IN
       IF folded \in DOMAIN LongName THEN LongName[folded] ELSE folded

\* The name that ends at a position, and whether one does.
NameEnds(v, p, i) == p[i] \notin Separators(v) /\ (i = Len(p) \/ p[i + 1] \in Separators(v))
NameAt(v, p, i) == SubSeq(p, 1 + Highest({0} \cup {j \in 1..i : p[j] \in Separators(v)}), i)

\* Where a walk is after a name, a place being spelled from the volume's root.
Above(at) == SubSeq(at, 1, Highest({1} \cup {i \in 1..Len(at) : at[i] = Slash}) - 1)
Entered(v, at, name) ==
  IF name = <<Dot>> THEN at
  ELSE IF name = <<Dot, Dot>> THEN Above(at)
  ELSE at \o Root \o Entry(v, Stripped(v, name))

\* The place that volume v's walk of the path p within it ends at.
Opened(v, p) ==
  LET walked[i \in 0..Len(p)] ==
        IF i = 0 THEN <<>>
        ELSE IF NameEnds(v, p, i) THEN Entered(v, walked[i - 1], NameAt(v, p, i)) ELSE walked[i - 1]
  IN walked[Len(p)]

\* The mount a path goes to, and what is left of it there.
Mounted(p) == Segment(p, 2)
Within(p) == SubSeq(p, SegmentEnd(p, 2) + 1, Len(p))

\* What a reader of the text p takes it for: each segment the entry it matches,
\* one below the other.
SegmentStops(p, i) == p[i] # Slash /\ (i = Len(p) \/ p[i + 1] = Slash)
SegmentAt(p, i) == SubSeq(p, 1 + Highest({0} \cup {j \in 1..i : p[j] = Slash}), i)
Spelled(v, p) ==
  LET spelt[i \in 0..Len(p)] ==
        IF i = 0 THEN <<>>
        ELSE IF SegmentStops(p, i) THEN spelt[i - 1] \o Root \o Entry(v, SegmentAt(p, i)) ELSE spelt[i - 1]
  IN spelt[Len(p)]

\* A path that is accepted goes to the mounted volume it names, and what the
\* walk of that volume's filesystem ends at is what the caller's text says,
\* segment by segment: no other separator, no dots and nothing dropped takes it
\* elsewhere.  On the flash that is the text itself, so that every file has one
\* spelling; on the card it is the entry each segment matches, and two spellings
\* of one file differ in case or use an alias and in nothing else (pathsafe.h:
\* 81-150, volpath.h:107-183, mod_storage.cpp:403-460).
OpensAsSpelled ==
  LET r == resolvePath(path, volumesUp)
      v == Mounted(r.full)
  IN r.code = "ok" => /\ v \in volumesUp /\ v = split(path).volume
                      /\ Opened(v, Within(r.full)) = Spelled(v, Within(path))
                      /\ v \notin Fat => Opened(v, Within(r.full)) = Within(path)
                      /\ Len(r.full) <= 1 + MaxName + MaxPath
=============================================================================
