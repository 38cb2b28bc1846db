------------------------- MODULE NativeFileRead_proofs --------------------------
(* Proofs about the native readers: for any places, objects and contents, and    *)
(* any writes, renames, links and removals between the system calls, nothing is  *)
(* read of an object that was not authorized, and a success is one instant.      *)
EXTENDS NativeFileRead, SequenceTheorems, FiniteSetTheorems, TLAPS

USE InodeAssumption, ReportAssumption, PolicyAssumption, LimitAssumption, NoneAssumption

(* The phases of a call. *)
Before  == {"open", "fstat", "path"}
Granting == {"read", "last fstat", "last path", "ok"}

(* The descriptor is at a place it is known to have been at; what is read was    *)
(* authorized at one of them.                                                    *)
PlaceOK ==
    /\ home \in Places => home \in places
    /\ pc \in Before => got = << >>
    /\ pc \in Granting => \E q \in places : authorized(q)
    /\ got # << >> => \E q \in places : authorized(q)

(* The open object, and the bounds of the loop. *)
OpenOK ==
    /\ pc \in {"fstat", "path", "read", "last fstat", "last path", "ok"} => ino \in Inodes
    /\ pc \in {"path", "read", "last fstat"} =>
          /\ ino \in IF want = "file" THEN Regular ELSE Directories
          /\ before.stamp <= stamp[ino]
BoundsOK ==
    /\ pc \in Granting /\ want = "file" => before.size <= MaxBytes
    /\ pc = "read" /\ want = "file" => Len(got) <= before.size
    /\ pc \in Granting \ {"read"} /\ want = "file" => Len(got) = before.size
    /\ want = "file" => Len(got) <= MaxBytes
    /\ want = "directory" => Len(got) <= MaxEntries
ObjectOK == OpenOK /\ BoundsOK

(* The contents of the open object since the first fstat: the present one is the *)
(* last, and if timestamps show no write, and none was hidden, the only one.     *)
HeldOK ==
    Reading =>
        /\ data[ino] \in held
        /\ ~unseen /\ stamp[ino] = before.stamp => held = {data[ino]}

(* What has been read of an object nobody wrote to. *)
Prefix(s, c) == Len(s) <= Len(c) /\ \A k \in 1 .. Len(s) : s[k] = c[k]
GotOK ==
    /\ pc = "read" /\ want = "file" => \A c \in held : held = {c} => Prefix(got, c)
    /\ pc = "read" /\ want = "directory" => Names(got) \subseteq Ever
    /\ pc = "last fstat" /\ ~tailError => \A c \in held : held = {c} => Whole(c)
    /\ pc \in {"last path", "ok"} /\ ~unseen /\ ~tailError => \E c \in held : held = {c} /\ Whole(c)

IInv == TypeOK /\ PlaceOK /\ ObjectOK /\ HeldOK /\ GotOK

--------------------------------------------------------------------------------
(* The operators. *)

LEMMA DataType ==
    ASSUME TypeOK, NEW i \in Inodes
    PROVE  data[i] \in Seq(Nat) /\ Len(data[i]) \in Nat /\ \A k \in 1 .. Len(data[i]) : data[i][k] \in Nat
  BY ContentAssumption DEF TypeOK

LEMMA StatusType ==
    ASSUME TypeOK, ino \in Inodes, StatSize(ino) >= 0
    PROVE  ObjectState \in States
  <1>1. Links(ino) \in Nat
    BY FS_Subset, FS_CardinalityType DEF Links
  <1>2. StatSize(ino) \in Nat
    BY DataType DEF StatSize
  <1>3. stamp[ino] \in Nat
    BY DEF TypeOK
  <1> QED
    BY <1>1, <1>2, <1>3 DEF ObjectState, States

LEMMA Joined ==
    ASSUME NEW s \in Seq(Nat), NEW t \in Seq(Nat)
    PROVE  /\ s \o t \in Seq(Nat) /\ Len(s \o t) = Len(s) + Len(t)
           /\ \A k \in 1 .. Len(s) + Len(t) : (s \o t)[k] = IF k <= Len(s) THEN s[k] ELSE t[k - Len(s)]
  BY SMT

LEMMA PrefixGrows ==
    ASSUME NEW s \in Seq(Nat), NEW c \in Seq(Nat), NEW n \in Nat,
           Prefix(s, c), Len(s) + n <= Len(c)
    PROVE  Prefix(s \o SubSeq(SubSeq(c, Len(s) + 1, Len(c)), 1, n), c)
  <1> DEFINE ahead == SubSeq(c, Len(s) + 1, Len(c))
             more  == SubSeq(ahead, 1, n)
  <1>1. /\ ahead \in Seq(Nat) /\ Len(ahead) = Len(c) - Len(s)
        /\ \A k \in 1 .. Len(c) - Len(s) : ahead[k] = c[Len(s) + k]
    BY SubSeqProperties DEF Prefix
  <1> HIDE DEF ahead
  <1>2. more \in Seq(Nat) /\ Len(more) = n /\ \A k \in 1 .. n : more[k] = ahead[k]
    BY <1>1, SubSeqProperties
  <1> HIDE DEF more
  <1>3. /\ Len(s \o more) = Len(s) + Len(more)
        /\ \A k \in 1 .. Len(s) + Len(more) : (s \o more)[k] = IF k <= Len(s) THEN s[k] ELSE more[k - Len(s)]
    BY <1>2, Joined
  <1>4. Len(s) \in Nat /\ Len(c) \in Nat
    BY LenProperties
  <1>6. ASSUME NEW k \in 1 .. Len(s) + n PROVE (s \o more)[k] = c[k]
    <2>1. CASE k <= Len(s)
      BY <1>2, <1>3, <1>4, <2>1 DEF Prefix
    <2>2. CASE ~(k <= Len(s))
      <3>1. k - Len(s) \in 1 .. n /\ k - Len(s) \in 1 .. Len(c) - Len(s) /\ Len(s) + (k - Len(s)) = k
        BY <1>4, <2>2
      <3>2. (s \o more)[k] = more[k - Len(s)]
        BY <1>2, <1>3, <2>2
      <3>3. more[k - Len(s)] = ahead[k - Len(s)]
        BY <1>2, <3>1
      <3>4. ahead[k - Len(s)] = c[k]
        BY <1>1, <3>1
      <3> QED
        BY <3>2, <3>3, <3>4
    <2> QED
      BY <2>1, <2>2
  <1>5. Prefix(s \o more, c)
    BY <1>2, <1>3, <1>4, <1>6 DEF Prefix
  <1> QED
    BY <1>5 DEF more, ahead

LEMMA PrefixIsWhole ==
    ASSUME NEW s \in Seq(Nat), NEW c \in Seq(Nat), Prefix(s, c), Len(s) >= Len(c)
    PROVE  s = c
  BY SeqEqual DEF Prefix

(* One read() that returns n bytes. *)
LEMMA ReadMore ==
    ASSUME NEW s \in Seq(Nat), NEW c \in Seq(Nat), NEW n \in Nat, n <= Len(SubSeq(c, Len(s) + 1, Len(c)))
    PROVE  LET t == s \o SubSeq(SubSeq(c, Len(s) + 1, Len(c)), 1, n)
           IN  t \in Seq(Nat) /\ Len(t) = Len(s) + n
  <1> DEFINE ahead == SubSeq(c, Len(s) + 1, Len(c))
  <1>1. ahead \in Seq(Nat)
    BY SubSeqProperties
  <1> HIDE DEF ahead
  <1> DEFINE more == SubSeq(ahead, 1, n)
  <1>2. more \in Seq(Nat) /\ Len(more) = n
    BY <1>1, SubSeqProperties DEF ahead
  <1> HIDE DEF more
  <1>3. s \o more \in Seq(Nat) /\ Len(s \o more) = Len(s) + n
    BY <1>2, Joined
  <1> QED
    BY <1>3 DEF more, ahead

LEMMA EverType ==
    ASSUME TypeOK
    PROVE  Ever \subseteq Nat
  <1>1. \A c \in held : c \in Seq(Nat)
    BY ContentAssumption DEF TypeOK
  <1>2. ASSUME NEW c \in held PROVE Names(c) \subseteq Nat
    BY <1>1, ElementOfSeq DEF Names
  <1> QED
    BY <1>2 DEF Ever

LEMMA NamesAppend ==
    ASSUME NEW s \in Seq(Nat), NEW name \in Nat
    PROVE  Names(Append(s, name)) = Names(s) \cup {name}
  <1>1. /\ Len(s) \in Nat /\ Len(Append(s, name)) = Len(s) + 1 /\ Append(s, name)[Len(s) + 1] = name
        /\ \A k \in 1 .. Len(s) : Append(s, name)[k] = s[k]
    BY AppendProperties, LenProperties
  <1>2. 1 .. Len(s) + 1 = (1 .. Len(s)) \cup {Len(s) + 1}
    BY <1>1
  <1> QED
    BY <1>1, <1>2 DEF Names

--------------------------------------------------------------------------------
(* Types. *)

(* What the other processes do to the machine. *)
LEMMA OthersType ==
    ASSUME TypeOK, OthersMove
    PROVE  /\ link' \in Places \cup {None} /\ at' \in [Places -> Inodes \cup {None}]
           /\ data' \in [Inodes -> Texts \cup Listings]
           /\ \A i \in Regular : data'[i] \in Texts
           /\ \A i \in Directories : data'[i] \in Listings
           /\ stamp' \in [Inodes -> Nat] /\ moves' \in 0 .. MaxMoves
           /\ home' \in Places \cup {None, Gone} /\ places' \subseteq Places
           /\ held' \subseteq Texts \cup Listings /\ unseen' \in BOOLEAN
  <1> USE DEF TypeOK
  <1>1. moves' \in 0 .. MaxMoves
    <2>1. moves \in 0 .. MaxMoves /\ moves < MaxMoves /\ moves' = moves + 1
      BY DEF OthersMove
    <2> QED
      BY <2>1
  <1>2. CASE Write
    <2>1. PICK i \in Regular \cup Directories, c \in Texts \cup Listings, tick \in {0, 1} :
            /\ c \in (IF i \in Regular THEN Texts ELSE Listings)
            /\ data' = [data EXCEPT ![i] = c] /\ stamp' = [stamp EXCEPT ![i] = @ + tick]
            /\ held' = IF i = ino /\ Reading THEN held \cup {c} ELSE held
            /\ unseen' = (unseen \/ (i = ino /\ Reading /\ tick = 0))
            /\ UNCHANGED <<link, at, home, places>>
      BY <1>2 DEF Write
    <2>2. i \in Inodes /\ stamp[i] + tick \in Nat
      BY DEF Inodes
    <2>3. stamp' \in [Inodes -> Nat] /\ data' \in [Inodes -> Texts \cup Listings]
      BY <2>1, <2>2
    <2>4. (\A j \in Regular : data'[j] \in Texts) /\ (\A j \in Directories : data'[j] \in Listings)
      BY <2>1, <2>2 DEF Inodes
    <2>5. held' \subseteq Texts \cup Listings /\ unseen' \in BOOLEAN
      BY <2>1
    <2> QED
      BY <1>1, <2>1, <2>3, <2>4, <2>5
  <1>3. CASE Rename
    BY <1>1, <1>3 DEF Rename
  <1>4. CASE HardLink
    BY <1>1, <1>4 DEF HardLink, Inodes
  <1>5. CASE Unlink
    BY <1>1, <1>5 DEF Unlink
  <1>6. CASE Symlink
    BY <1>1, <1>6 DEF Symlink
  <1> QED
    BY <1>2, <1>3, <1>4, <1>5, <1>6 DEF OthersMove

LEMMA TypeStep ==
    ASSUME TypeOK, ObjectOK, [Next]_vars
    PROVE  TypeOK'
  <1>1. CASE UNCHANGED vars
    BY <1>1 DEF vars, TypeOK
  <1> USE DEF machine, local, Return, Calls, Errors
  <1>2. CASE Reject \/ NativeError \/ FstatAfter \/ PathAfter \/ ListEnd
    BY <1>2 DEF Reject, NativeError, FstatAfter, PathAfter, ListEnd, TypeOK
  <1>3. CASE Open
    BY <1>3 DEF Open, TypeOK
  <1>4. CASE FstatBefore
    <2>1. ino \in Inodes /\ data[ino] \in Texts \cup Listings
      BY <1>4 DEF FstatBefore, ObjectOK, OpenOK, TypeOK
    <2>2. before' \in States
      <3>1. CASE UNCHANGED before
        BY <3>1 DEF TypeOK
      <3>2. CASE before' = ObjectState /\ IF want = "file" THEN Sized(ino) ELSE ino \in Directories
        <4>1. StatSize(ino) >= 0
          BY <3>2 DEF Sized, StatSize
        <4> QED
          BY <2>1, <3>2, <4>1, StatusType
      <3> QED
        BY <1>4, <3>1, <3>2 DEF FstatBefore
    <2> QED
      BY <1>4, <2>1, <2>2 DEF FstatBefore, TypeOK
  <1>5. CASE AuthorizePath
    BY <1>5 DEF AuthorizePath, physicalPath, authorized, TypeOK
  <1>6. CASE Read
    <2>1. got' \in Seq(Nat)
      <3>1. data[ino] \in Seq(Nat)
        BY <1>6, DataType DEF Read, ObjectOK, OpenOK
      <3>2. CASE UNCHANGED got
        BY <3>2 DEF TypeOK
      <3>3. CASE ~UNCHANGED got
        <4>1. PICK n \in 1 .. Minimum(before.size - Len(got), Minimum(Chunk, Len(Ahead))) :
                got' = got \o SubSeq(Ahead, 1, n)
          BY <1>6, <3>3 DEF Read
        <4>2. Ahead \in Seq(Nat)
          BY <3>1, SubSeqProperties DEF Ahead
        <4>3. n \in Nat /\ n <= Len(Ahead)
          <5>1. Len(Ahead) \in Nat /\ before.size \in Nat /\ Len(got) \in Nat /\ Chunk \in Nat
            BY <4>2, LenProperties DEF TypeOK, States
          <5> QED
            BY <5>1 DEF Minimum
        <4> QED
          BY <3>1, <4>1, <4>3, ReadMore DEF Ahead, TypeOK
      <3> QED
        BY <3>2, <3>3
    <2> QED
      BY <1>6, <2>1 DEF Read, TypeOK
  <1>7. CASE List
    <2>1. \A name \in Ever : Append(got, name) \in Seq(Nat)
      BY EverType, AppendProperties DEF TypeOK
    <2>2. pc' \in Calls \cup Errors \cup {"ok"} /\ (got' = got \/ \E name \in Ever : got' = Append(got, name))
      BY <1>7 DEF List, TypeOK
    <2>3. got' \in Seq(Nat)
      <3>1. got \in Seq(Nat)
        BY DEF TypeOK
      <3> QED
        BY <2>1, <2>2, <3>1
    <2> QED
      BY <1>7, <2>2, <2>3 DEF List, TypeOK
  <1>8. CASE OthersMove
    BY <1>8, OthersType DEF OthersMove, TypeOK
  <1> QED
    BY <1>1, <1>2, <1>3, <1>4, <1>5, <1>6, <1>7, <1>8 DEF Next

--------------------------------------------------------------------------------
(* Where the object was authorized. *)

LEMMA OthersPlaces ==
    ASSUME TypeOK, PlaceOK, OthersMove
    PROVE  places \subseteq places' /\ (home' \in Places => home' \in places')
  <1> USE DEF PlaceOK, TypeOK
  <1>1. CASE Write \/ HardLink \/ Symlink
    BY <1>1 DEF Write, HardLink, Symlink
  <1>2. CASE Rename
    BY <1>2 DEF Rename
  <1>3. CASE Unlink
    BY <1>3 DEF Unlink
  <1> QED
    BY <1>1, <1>2, <1>3 DEF OthersMove

LEMMA PlaceStep ==
    ASSUME TypeOK, PlaceOK, [Next]_vars
    PROVE  PlaceOK'
  <1> USE DEF machine, local, Return, Before, Granting, authorized
  <1>1. CASE UNCHANGED vars
    BY <1>1 DEF vars, PlaceOK
  <1>2. CASE Reject \/ NativeError \/ FstatAfter \/ PathAfter \/ ListEnd
    BY <1>2 DEF Reject, NativeError, FstatAfter, PathAfter, ListEnd, PlaceOK
  <1>3. CASE Open
    BY <1>3 DEF Open, PlaceOK
  <1>4. CASE FstatBefore
    BY <1>4 DEF FstatBefore, PlaceOK
  <1>5. CASE AuthorizePath
    <2>1. pc = "path" /\ UNCHANGED <<home, places, got, want>>
      BY <1>5 DEF AuthorizePath
    <2>2. pc' \in Granting => home \in Places /\ authorized(home)
      BY <1>5 DEF AuthorizePath, physicalPath
    <2> QED
      BY <1>5, <2>1, <2>2 DEF AuthorizePath, PlaceOK
  <1>6. CASE Read \/ List
    <2>1. pc = "read" /\ UNCHANGED <<home, places, want>> /\ pc' \notin Before
      BY <1>6 DEF Read, List
    <2> QED
      BY <2>1 DEF PlaceOK
  <1>7. CASE OthersMove
    <2>1. UNCHANGED <<want, pc, got>>
      BY <1>7 DEF OthersMove
    <2> QED
      BY <1>7, <2>1, OthersPlaces DEF PlaceOK
  <1> QED
    BY <1>1, <1>2, <1>3, <1>4, <1>5, <1>6, <1>7 DEF Next

--------------------------------------------------------------------------------
(* The object and the bounds. *)

LEMMA OthersObject ==
    ASSUME TypeOK, OthersMove, NEW i \in Inodes
    PROVE  stamp'[i] >= stamp[i] /\ (data'[i] # data[i] => Write)
  <1>1. CASE Write
    <2>1. PICK j \in Inodes, tick \in {0, 1} : stamp' = [stamp EXCEPT ![j] = @ + tick]
      BY <1>1 DEF Write, Inodes
    <2>2. stamp[i] \in Nat
      BY DEF TypeOK
    <2> QED
      BY <1>1, <2>1, <2>2 DEF TypeOK
  <1>2. CASE ~Write
    <2>1. UNCHANGED <<data, stamp>>
      BY <1>2 DEF OthersMove, Rename, HardLink, Unlink, Symlink
    <2>2. stamp[i] \in Nat
      BY DEF TypeOK
    <2> QED
      BY <2>1, <2>2
  <1> QED
    BY <1>1, <1>2

LEMMA ReadBounds ==
    ASSUME TypeOK, ObjectOK, Read
    PROVE  /\ pc' = "read" => Len(got') <= before.size
           /\ pc' = "last fstat" => got' = got /\ Len(got) = before.size /\ Ahead = << >>
           /\ Len(got') <= MaxBytes
           /\ got' = got \/ \E n \in Nat : n <= Len(Ahead) /\ got' = got \o SubSeq(Ahead, 1, n)
  <1>1. /\ data[ino] \in Seq(Nat) /\ Len(got) <= before.size /\ before.size <= MaxBytes
        /\ before.size \in Nat /\ Len(got) \in Nat
    BY DataType, LenProperties DEF Read, ObjectOK, OpenOK, BoundsOK, Granting, TypeOK, States
  <1>2. Ahead \in Seq(Nat) /\ Len(Ahead) \in Nat
    BY <1>1, SubSeqProperties, LenProperties DEF Ahead
  <1>3. CASE UNCHANGED got
    <2>1. pc' = "last fstat" => Len(got) = before.size /\ Ahead = << >>
      <3> DEFINE ended == Ahead = << >>
                 remaining == before.size - Len(got)
      <3>1. pc = "read" /\ (pc' = "changed" \/ pc' = pc \/ (remaining = 0 /\ ended))
        BY DEF Read, Return
      <3>2. remaining = 0 => Len(got) = before.size
        BY <1>1
      <3> HIDE DEF ended, remaining
      <3>3. pc' = "last fstat" => Len(got) = before.size /\ ended
        BY <3>1, <3>2
      <3> QED
        BY <3>3 DEF ended
    <2>2. Len(got') = Len(got) /\ Len(got) <= MaxBytes
      BY <1>1, <1>3
    <2> QED
      BY <1>1, <1>3, <2>1, <2>2
  <1>4. CASE ~UNCHANGED got
    <2>1. PICK n \in 1 .. Minimum(before.size - Len(got), Minimum(Chunk, Len(Ahead))) :
            got' = got \o SubSeq(Ahead, 1, n)
      BY <1>4 DEF Read
    <2>2. n \in Nat /\ n <= Len(Ahead) /\ n <= before.size - Len(got)
      <3>1. before.size - Len(got) \in Nat /\ Chunk \in Nat
        BY <1>1
      <3> QED
        BY <1>2, <3>1 DEF Minimum
    <2>3. Len(got') = Len(got) + n
      BY <1>1, <2>1, <2>2, ReadMore DEF Ahead, TypeOK
    <2>4. pc' = pc /\ pc = "read"
      BY <1>4 DEF Read
    <2>5. Len(got') <= before.size /\ Len(got') <= MaxBytes
      BY <1>1, <2>2, <2>3
    <2>6. \E k \in Nat : k <= Len(Ahead) /\ got' = got \o SubSeq(Ahead, 1, k)
      BY <2>1, <2>2
    <2> QED
      BY <2>4, <2>5, <2>6
  <1> QED
    BY <1>3, <1>4

LEMMA AtMost ==
    ASSUME NEW a \in Nat, NEW b \in Nat, NEW c \in Nat, a <= b, c >= b
    PROVE  a <= c
  OBVIOUS

LEMMA OpenStep ==
    ASSUME TypeOK, ObjectOK, [Next]_vars
    PROVE  OpenOK'
  <1> USE DEF machine, local, Return
  <1>0. OpenOK
    BY DEF ObjectOK
  <1>1. CASE UNCHANGED <<ino, want, before, stamp, pc>>
    BY <1>0, <1>1 DEF OpenOK
  <1>2. CASE Reject \/ NativeError \/ FstatAfter \/ PathAfter \/ ListEnd \/ AuthorizePath \/ Read \/ List
    <2>1. UNCHANGED <<ino, want, before, stamp>>
      BY <1>2 DEF Reject, NativeError, FstatAfter, PathAfter, ListEnd, AuthorizePath, Read, List
    <2>2. /\ pc' \in {"fstat", "path", "read", "last fstat", "last path", "ok"} =>
                pc \in {"fstat", "path", "read", "last fstat", "last path", "ok"}
          /\ pc' \in {"path", "read", "last fstat"} => pc \in {"path", "read", "last fstat"}
      BY <1>2 DEF Reject, NativeError, FstatAfter, PathAfter, ListEnd, AuthorizePath, Read, List
    <2> QED
      BY <1>0, <2>1, <2>2 DEF OpenOK
  <1>3. CASE Open
    BY <1>3 DEF Open, OpenOK, TypeOK
  <1>4. CASE FstatBefore
    <2>1. UNCHANGED <<ino, want, stamp>> /\ pc = "fstat" /\ ino \in Inodes /\ pc' \in {"path", "directory", "special"}
      BY <1>0, <1>4 DEF FstatBefore, OpenOK
    <2>2. pc' = "path" => before' = ObjectState /\ ino \in IF want = "file" THEN Regular ELSE Directories
      BY <1>4 DEF FstatBefore, Sized
    <2>3. pc' = "path" => before'.stamp <= stamp[ino]
      BY <2>1, <2>2 DEF ObjectState, TypeOK
    <2> QED
      BY <2>1, <2>2, <2>3 DEF OpenOK
  <1>5. CASE OthersMove
    <2>1. UNCHANGED <<ino, want, before, pc>>
      BY <1>5 DEF OthersMove
    <2>2. pc \in {"path", "read", "last fstat"} => before.stamp <= stamp'[ino]
      <3> SUFFICES ASSUME pc \in {"path", "read", "last fstat"} PROVE before.stamp <= stamp'[ino]
        OBVIOUS
      <3>1. ino \in Inodes /\ before.stamp <= stamp[ino]
        BY <1>0 DEF OpenOK
      <3>2. stamp'[ino] >= stamp[ino]
        BY <1>5, <3>1, OthersObject
      <3>3. stamp[ino] \in Nat /\ before.stamp \in Nat
        BY <3>1 DEF TypeOK, States
      <3>4. stamp' \in [Inodes -> Nat]
        BY <1>5, OthersType
      <3>5. stamp'[ino] \in Nat
        BY <3>1, <3>4
      <3> QED
        BY <3>1, <3>2, <3>3, <3>5, AtMost
    <2> QED
      BY <1>0, <2>1, <2>2 DEF OpenOK
  <1> QED
    BY <1>1, <1>2, <1>3, <1>4, <1>5 DEF Next, vars

LEMMA BoundsStep ==
    ASSUME TypeOK, PlaceOK, ObjectOK, [Next]_vars
    PROVE  BoundsOK'
  <1> USE DEF machine, local, Return, Granting
  <1>0. BoundsOK /\ Len(got) \in Nat /\ Len(<< >>) = 0 /\ before.size \in Nat
    BY LenProperties, EmptySeq DEF TypeOK, States, ObjectOK
  <1>1. CASE UNCHANGED <<want, before, got, pc>>
    BY <1>0, <1>1 DEF BoundsOK
  <1>2. CASE Reject \/ Open \/ NativeError \/ FstatBefore
    <2>1. UNCHANGED <<want, got>> /\ pc' \notin Granting
      BY <1>2 DEF Reject, Open, NativeError, FstatBefore
    <2> QED
      BY <1>0, <2>1 DEF BoundsOK
  <1>3. CASE FstatAfter \/ PathAfter \/ ListEnd
    <2>1. UNCHANGED <<want, before, got>> /\ pc' # "read" /\ pc \in Granting
          /\ (pc' \in Granting /\ want = "file" => pc \in Granting \ {"read"})
      BY <1>3 DEF FstatAfter, PathAfter, ListEnd
    <2> QED
      BY <1>0, <2>1 DEF BoundsOK
  <1>5. CASE AuthorizePath
    <2>1. UNCHANGED <<want, got, before>> /\ pc = "path" /\ pc' \in {"deleted", "denied", "large", "read"}
      BY <1>5 DEF AuthorizePath
    <2>2. pc' = "read" /\ want = "file" => before.size <= MaxBytes
      BY <1>5 DEF AuthorizePath
    <2>3. Len(got) = 0
      BY <1>0, <2>1 DEF PlaceOK, Before
    <2>4. Len(got) <= before.size /\ Len(got) <= MaxBytes /\ Len(got) <= MaxEntries
      BY <1>0, <2>3
    <2> QED
      BY <2>1, <2>2, <2>4 DEF BoundsOK
  <1>6. CASE Read
    <2>1. UNCHANGED <<want, before>> /\ pc = "read" /\ want = "file" /\ pc' \in {"read", "last fstat", "changed"}
      BY <1>6 DEF Read
    <2>2. before.size <= MaxBytes
      BY <1>0, <2>1 DEF BoundsOK
    <2> QED
      BY <1>6, <2>1, <2>2, ReadBounds DEF BoundsOK
  <1>7. CASE List
    <2>1. UNCHANGED <<want, before>> /\ pc = "read" /\ want = "directory" /\ pc' \in {"read", "long", "large"}
      BY <1>7 DEF List
    <2>2. Len(got') <= MaxEntries
      <3>1. \A name \in Ever : Len(Append(got, name)) = Len(got) + 1
        BY EverType, AppendProperties DEF TypeOK
      <3>2. CASE UNCHANGED got
        BY <1>0, <2>1, <3>2 DEF BoundsOK
      <3>3. CASE ~UNCHANGED got
        <4>1. PICK name \in Ever : Len(got) < MaxEntries /\ got' = Append(got, name)
          BY <1>7, <3>3 DEF List
        <4> QED
          BY <1>0, <3>1, <4>1
      <3> QED
        BY <3>2, <3>3
    <2> QED
      BY <2>1, <2>2 DEF BoundsOK
  <1>8. CASE OthersMove
    BY <1>1, <1>8 DEF OthersMove
  <1> QED
    BY <1>1, <1>2, <1>3, <1>5, <1>6, <1>7, <1>8 DEF Next, vars

--------------------------------------------------------------------------------
(* The contents of the open object, and what was read of them. *)

LEMMA HeldStep ==
    ASSUME TypeOK, ObjectOK, HeldOK, [Next]_vars
    PROVE  HeldOK'
  <1> USE DEF machine, local, Return
  <1>1. CASE UNCHANGED vars
    BY <1>1 DEF vars, HeldOK, Reading
  <1>2. CASE FstatBefore
    BY <1>2 DEF FstatBefore, HeldOK, Reading
  <1>3. CASE OthersMove /\ Reading
    <2>0. UNCHANGED <<pc, ino, before>> /\ ino \in Inodes
      BY <1>3 DEF OthersMove, Reading, ObjectOK, OpenOK
    <2>1. CASE Write
      <3>1. PICK i \in Regular \cup Directories, c \in Texts \cup Listings, tick \in {0, 1} :
              /\ data' = [data EXCEPT ![i] = c] /\ stamp' = [stamp EXCEPT ![i] = @ + tick]
              /\ held' = IF i = ino /\ Reading THEN held \cup {c} ELSE held
              /\ unseen' = (unseen \/ (i = ino /\ Reading /\ tick = 0))
        BY <2>1 DEF Write
      <3>2. CASE i = ino
        <4>1. data'[ino] = c /\ c \in held' /\ stamp'[ino] = stamp[ino] + tick
          BY <1>3, <2>0, <3>1, <3>2 DEF TypeOK
        <4>2. unseen' \/ stamp'[ino] # before.stamp
          <5>1. stamp[ino] \in Nat /\ before.stamp \in Nat /\ before.stamp <= stamp[ino]
            BY <1>3, <2>0 DEF Reading, ObjectOK, OpenOK, TypeOK, States
          <5>2. CASE tick = 0
            BY <1>3, <3>1, <3>2, <5>2
          <5>3. CASE tick = 1
            BY <4>1, <5>1, <5>3
          <5> QED
            BY <5>2, <5>3
        <4> QED
          BY <2>0, <4>1, <4>2 DEF HeldOK, Reading
      <3>3. CASE i # ino
        <4>1. data'[ino] = data[ino] /\ stamp'[ino] = stamp[ino] /\ held' = held /\ (unseen' => unseen) /\ (unseen => unseen')
          BY <2>0, <3>1, <3>3 DEF TypeOK
        <4> QED
          BY <2>0, <4>1 DEF HeldOK, Reading
      <3> QED
        BY <3>2, <3>3
    <2>2. CASE UNCHANGED <<data, stamp, held, unseen>>
      BY <2>0, <2>2 DEF HeldOK, Reading
    <2> QED
      BY <1>3, <2>1, <2>2 DEF OthersMove, Rename, HardLink, Unlink, Symlink
  <1>4. CASE OthersMove /\ ~Reading
    BY <1>4 DEF OthersMove, HeldOK, Reading
  <1>5. CASE Reject \/ Open \/ NativeError \/ AuthorizePath \/ Read \/ List \/ ListEnd \/ FstatAfter \/ PathAfter
    <2>1. UNCHANGED <<data, stamp, held, unseen>> /\ (Reading' => Reading /\ UNCHANGED <<ino, before>>)
      BY <1>5 DEF Reject, Open, NativeError, AuthorizePath, Read, List, ListEnd, FstatAfter, PathAfter, Reading
    <2> QED
      BY <2>1 DEF HeldOK
  <1> QED
    BY <1>1, <1>2, <1>3, <1>4, <1>5 DEF Next

(* Contents once held are kept, and a write that changes them leaves two.        *)
LEMMA OthersHold ==
    ASSUME TypeOK, HeldOK, OthersMove
    PROVE  /\ held \subseteq held'
           /\ \A c : held' = {c} /\ held # {} => held = {c}
           /\ ~Reading => held' = held /\ unseen' = unseen
  <1>1. CASE Write
    <2>1. PICK i \in Regular \cup Directories, c \in Texts \cup Listings, tick \in {0, 1} :
            /\ held' = IF i = ino /\ Reading THEN held \cup {c} ELSE held
            /\ unseen' = (unseen \/ (i = ino /\ Reading /\ tick = 0))
      BY <1>1 DEF Write
    <2> QED
      BY <2>1 DEF TypeOK
  <1>2. CASE UNCHANGED <<held, unseen>>
    BY <1>2
  <1> QED
    BY <1>1, <1>2 DEF OthersMove, Rename, HardLink, Unlink, Symlink

LEMMA EverOne ==
    ASSUME NEW c, held = {c}
    PROVE  Ever = Names(c) /\ Always = Names(c)
  BY DEF Ever, Always

(* One read() of an object that has held only c keeps a prefix of c, and one     *)
(* that finds the end has read all of c.                                         *)
LEMMA ReadPrefix ==
    ASSUME TypeOK, ObjectOK, HeldOK, GotOK, Read, NEW c \in held, held = {c}
    PROVE  /\ pc' = "read" => Prefix(got', c)
           /\ pc' = "last fstat" => got' = c
  <1>1. pc = "read" /\ want = "file" /\ c = data[ino] /\ ino \in Inodes
    BY DEF Read, HeldOK, Reading, ObjectOK, OpenOK
  <1>2. Prefix(got, c)
    BY <1>1 DEF GotOK
  <1>3. c \in Seq(Nat) /\ got \in Seq(Nat) /\ Len(c) \in Nat /\ Len(got) \in Nat
    BY <1>1, DataType, LenProperties DEF TypeOK
  <1>4. Len(got) <= Len(c)
    BY <1>2 DEF Prefix
  <1>5. Ahead \in Seq(Nat) /\ Len(Ahead) = Len(c) - Len(got)
    BY <1>1, <1>3, <1>4, SubSeqProperties DEF Ahead
  <1>6. ASSUME NEW n \in Nat, n <= Len(Ahead), got' = got \o SubSeq(Ahead, 1, n)
        PROVE  Prefix(got', c)
    <2>1. Len(got) + n <= Len(c)
      BY <1>3, <1>5, <1>6
    <2> QED
      BY <1>1, <1>2, <1>3, <1>6, <2>1, PrefixGrows DEF Ahead
  <1>7. pc' = "read" => Prefix(got', c)
    BY <1>2, <1>6, ReadBounds
  <1>8. ASSUME pc' = "last fstat" PROVE got' = c
    <2>1. got' = got /\ Ahead = << >>
      BY <1>8, ReadBounds
    <2>2. Len(Ahead) = 0
      BY <2>1, EmptySeq
    <2>3. Len(got) >= Len(c)
      BY <1>3, <1>5, <2>2
    <2> QED
      BY <1>2, <1>3, <2>1, <2>3, PrefixIsWhole
  <1> QED
    BY <1>7, <1>8

LEMMA GotStep ==
    ASSUME IInv, [Next]_vars
    PROVE  GotOK'
  <1> USE DEF machine, local, Return
  <1>0. TypeOK /\ PlaceOK /\ ObjectOK /\ HeldOK /\ GotOK
    BY DEF IInv
  <1>1. CASE UNCHANGED <<pc, want, got, held, unseen, tailError>>
    BY <1>0, <1>1 DEF GotOK, Whole, Ever
  <1>2. CASE Reject \/ Open \/ NativeError \/ FstatBefore
    <2>1. pc' \notin {"read", "last fstat", "last path", "ok"}
      BY <1>2 DEF Reject, Open, NativeError, FstatBefore
    <2> QED
      BY <2>1 DEF GotOK
  <1>3. CASE AuthorizePath
    <2>1. UNCHANGED <<held, got, want>> /\ pc = "path" /\ pc' \in {"deleted", "denied", "large", "read"}
      BY <1>3 DEF AuthorizePath
    <2>2. got = << >> /\ Len(got) = 0
      BY <1>0, <2>1, EmptySeq DEF PlaceOK, Before
    <2>3. \A c \in held : Prefix(got, c)
      <3>1. \A c \in held : Len(c) \in Nat
        BY <1>0, ContentAssumption, LenProperties DEF TypeOK
      <3> QED
        BY <2>2, <3>1 DEF Prefix
    <2>4. Names(got) = {}
      BY <2>2 DEF Names
    <2> QED
      BY <2>1, <2>3, <2>4 DEF GotOK
  <1>4. CASE Read
    <2>1. UNCHANGED <<held, want>> /\ want = "file" /\ pc' \in {"read", "last fstat", "changed"}
      BY <1>4 DEF Read
    <2>2. \A c \in held : held = {c} =>
            (pc' = "read" => Prefix(got', c)) /\ (pc' = "last fstat" => got' = c)
      BY <1>0, <1>4, ReadPrefix
    <2> QED
      BY <2>1, <2>2 DEF GotOK, Whole
  <1>5. CASE List
    <2>1. UNCHANGED <<held, want>> /\ want = "directory" /\ pc = "read" /\ pc' \in {"read", "long", "large"}
      BY <1>5 DEF List
    <2>2. Names(got) \subseteq Ever
      BY <1>0, <2>1 DEF GotOK
    <2>3. Names(got') \subseteq Ever
      <3>1. CASE UNCHANGED got
        BY <2>2, <3>1
      <3>2. CASE ~UNCHANGED got
        <4>1. PICK name \in Ever : got' = Append(got, name)
          BY <1>5, <3>2 DEF List
        <4>2. got \in Seq(Nat) /\ name \in Nat
          BY <1>0, EverType DEF TypeOK
        <4>3. Names(got') = Names(got) \cup {name}
          BY <4>1, <4>2, NamesAppend
        <4> QED
          BY <2>2, <4>3
      <3> QED
        BY <3>1, <3>2
    <2>4. Ever' = Ever
      BY <2>1 DEF Ever
    <2> QED
      BY <2>1, <2>3, <2>4 DEF GotOK
  <1>6. CASE ListEnd
    <2>1. /\ UNCHANGED <<held, want, got>> /\ want = "directory" /\ pc = "read" /\ pc' = "last fstat"
          /\ ~tailError' => Always \subseteq Names(got)
      BY <1>0, <1>6 DEF ListEnd, TypeOK
    <2>2. Names(got) \subseteq Ever
      BY <1>0, <2>1 DEF GotOK
    <2>3. ASSUME ~tailError', NEW c \in held, held = {c} PROVE Names(got) = Names(c)
      BY <2>1, <2>2, <2>3, EverOne
    <2> QED
      BY <2>1, <2>3 DEF GotOK, Whole
  <1>7. CASE FstatAfter
    <2>1. /\ UNCHANGED <<held, unseen, tailError, want, got>> /\ pc = "last fstat"
          /\ pc' \in {"changed", "last path"}
          /\ pc' = "last path" => before = ObjectState
      BY <1>7 DEF FstatAfter, sameObjectState
    <2>2. ASSUME pc' = "last path", ~unseen, ~tailError PROVE \E c \in held : held = {c} /\ Whole(c)
      <3>1. stamp[ino] = before.stamp
        <4>1. before = ObjectState
          BY <2>1, <2>2
        <4> QED
          BY <4>1 DEF ObjectState
      <3>2. held = {data[ino]} /\ data[ino] \in held
        BY <1>0, <2>1, <2>2, <3>1 DEF HeldOK, Reading
      <3>3. \A c \in held : held = {c} => Whole(c)
        BY <1>0, <2>1, <2>2 DEF GotOK
      <3> QED
        BY <3>2, <3>3
    <2> QED
      BY <2>1, <2>2 DEF GotOK, Whole
  <1>8. CASE PathAfter
    <2>1. /\ UNCHANGED <<held, unseen, tailError, want, got>> /\ pc = "last path"
          /\ pc' \in {"changed", "ok"}
      BY <1>8 DEF PathAfter
    <2> QED
      BY <1>0, <2>1 DEF GotOK, Whole
  <1>9. CASE OthersMove
    <2>1. UNCHANGED <<pc, want, got, tailError>>
      BY <1>9 DEF OthersMove
    <2>2. /\ held \subseteq held' /\ \A c : held' = {c} /\ held # {} => held = {c}
          /\ ~Reading => held' = held /\ unseen' = unseen
      BY <1>0, <1>9, OthersHold
    <2>3. pc \in {"read", "last fstat"} => held # {}
      BY <1>0 DEF HeldOK, Reading
    <2>4. Ever \subseteq Ever'
      BY <2>2 DEF Ever
    <2>5. (\A c : Whole(c)' <=> Whole(c))
      BY <2>1 DEF Whole
    <2>6. CASE pc = "read"
      BY <1>0, <2>1, <2>2, <2>3, <2>4, <2>6 DEF GotOK
    <2>7. CASE pc = "last fstat"
      BY <1>0, <2>1, <2>2, <2>3, <2>5, <2>7 DEF GotOK
    <2>8. CASE pc \in {"last path", "ok"}
      <3>1. held' = held /\ unseen' = unseen
        BY <2>2, <2>8 DEF Reading
      <3> QED
        BY <1>1, <2>1, <3>1
    <2>9. CASE pc \notin {"read", "last fstat", "last path", "ok"}
      BY <2>1, <2>9 DEF GotOK
    <2> QED
      BY <2>6, <2>7, <2>8, <2>9
  <1> QED
    BY <1>1, <1>2, <1>3, <1>4, <1>5, <1>6, <1>7, <1>8, <1>9 DEF Next, vars

--------------------------------------------------------------------------------
LEMMA Initially == Init => IInv
  <1> SUFFICES ASSUME Init PROVE IInv
    OBVIOUS
  <1>1. before \in States /\ before.size = 0
    BY DEF Init, NoStatus, States, Inodes
  <1>2. got \in Seq(Nat) /\ Len(got) = 0
    BY EmptySeq DEF Init
  <1>3. \A i \in Regular : data[i] \in Texts
    BY DEF Init, Inodes
  <1>4. \A i \in Directories : data[i] \in Listings
    BY DEF Init, Inodes
  <1>5. stamp \in [Inodes -> Nat] /\ moves \in 0 .. MaxMoves
    BY DEF Init
  <1>6. TypeOK
    BY <1>1, <1>2, <1>3, <1>4, <1>5 DEF Init, TypeOK, Calls
  <1> QED
    BY <1>2, <1>6 DEF Init, IInv, PlaceOK, ObjectOK, OpenOK, BoundsOK, HeldOK, GotOK, Reading, Before, Granting

LEMMA Inductive == IInv /\ [Next]_vars => IInv'
  BY TypeStep, PlaceStep, OpenStep, BoundsStep, HeldStep, GotStep DEF IInv, ObjectOK

LEMMA Invariant == Spec => []IInv
  BY Initially, Inductive, PTL DEF Spec

(* The state of a read has its type in every reachable state.                    *)
THEOREM TypeCorrect == Spec => []TypeOK
  <1>1. IInv => TypeOK
    BY DEF IInv
  <1> QED
    BY <1>1, Invariant, PTL

(* Nothing is read of an object that was not itself seen at a place the policy   *)
(* grants, whatever other processes rename, link, unlink or retarget.            *)
THEOREM ReadsAuthorized == Spec => []ReadsOnlyAuthorizedObjects
  <1>1. IInv => ReadsOnlyAuthorizedObjects
    BY DEF IInv, PlaceOK, ReadsOnlyAuthorizedObjects
  <1> QED
    BY <1>1, Invariant, PTL

(* A successful read with no hidden write is what the object held all along, a   *)
(* success is as long as its status says, and no read passes the caller's bound. *)
THEOREM OneInstant == Spec => []ReadIsOneInstant
  <1>1. IInv => ReadIsOneInstant
    BY DEF IInv, GotOK, ObjectOK, BoundsOK, Granting, ReadIsOneInstant, TypeOK
  <1> QED
    BY <1>1, Invariant, PTL
================================================================================
