------------------------- MODULE RewrittenFiles_proofs -------------------------
(* Proofs about the three components that write over files that are there: the  *)
(* stub generator, for any number of callers, files, functions, stubs and edits  *)
(* (a text that nobody else touched is on disk or with the one caller that can   *)
(* put it back); below it the product configuration, for any programs, keys and  *)
(* saved files; and the projects of check(), for any calls and processes.        *)
EXTENDS StubSession, ProductConfig, AppCheck, SequenceTheorems, TLAPS

USE BoundsAreNatural

(* All that a caller may still write, in the order it read it. *)
Reads(c) == held[c] \o call[c]
NoneKept(records, f) == \A i \in DOMAIN records : ~Keeps(records[i], f)

(* The user never means a stub, an empty text is never written back, and an      *)
(* unfinished restore is of the caller's last result.                            *)
OwnOK == \A f \in Files : own[f].stubs = {}
CallOK ==
    \A c \in Callers : call[c] # <<>> =>
        /\ call[c][1].original # Empty
        /\ call[c][1].does = "restore" =>
             /\ held[c] # <<>> /\ Last(held[c]).file = call[c][1].file
             /\ Last(held[c]).original = call[c][1].original /\ call[c][1].text = call[c][1].original
(* Nobody shares a file that is not disturbed; and somebody keeps its text first, *)
(* or it is on disk.                                                              *)
OneUser == \A f \in Files \ disturbed : \A c, d \in Callers : Uses(c, f) /\ Uses(d, f) => c = d
KeptOK ==
    \A f \in Files \ disturbed :
        \/ \E c \in Callers : FirstKept(Reads(c), f, own[f])
        \/ disk[f] = own[f] /\ \A c \in Callers : NoneKept(Reads(c), f)

IInv == TypeOK /\ OwnOK /\ CallOK /\ OneUser /\ KeptOK

--------------------------------------------------------------------------------
(* Facts about the first text that is kept of a file. *)

LEMMA StillFirst ==
    ASSUME NEW S, NEW s \in Seq(S), NEW r \in S, NEW f, NEW text, FirstKept(s, f, text)
    PROVE  FirstKept(Append(s, r), f, text)
  <1>1. PICK i \in DOMAIN s : /\ Keeps(s[i], f) /\ s[i].original = text
                              /\ \A j \in DOMAIN s : j < i => ~Keeps(s[j], f)
    BY DEF FirstKept
  <1>2. \A j \in DOMAIN s : j \in DOMAIN Append(s, r) /\ Append(s, r)[j] = s[j]
    OBVIOUS
  <1>3. \A j \in DOMAIN Append(s, r) : j < i => j \in DOMAIN s
    BY <1>1
  <1> QED
    BY <1>1, <1>2, <1>3 DEF FirstKept

LEMMA FirstRead ==
    ASSUME NEW S, NEW s \in Seq(S), NEW r \in S, NEW f, NoneKept(s, f), Keeps(r, f)
    PROVE  FirstKept(Append(s, r), f, r.original)
  <1>1. /\ Len(s) + 1 \in DOMAIN Append(s, r) /\ Append(s, r)[Len(s) + 1] = r
        /\ \A j \in DOMAIN Append(s, r) : j < Len(s) + 1 => j \in DOMAIN s /\ Append(s, r)[j] = s[j]
    OBVIOUS
  <1> QED
    BY <1>1 DEF FirstKept, NoneKept

LEMMA StillNone ==
    ASSUME NEW S, NEW s \in Seq(S), NEW r \in S, NEW f
    PROVE  NoneKept(Append(s, r), f) <=> NoneKept(s, f) /\ ~Keeps(r, f)
  <1>1. /\ DOMAIN Append(s, r) = DOMAIN s \cup {Len(s) + 1} /\ Append(s, r)[Len(s) + 1] = r
        /\ \A j \in DOMAIN s : Append(s, r)[j] = s[j]
    OBVIOUS
  <1> QED
    BY <1>1 DEF NoneKept

LEMMA FirstWithout ==
    ASSUME NEW S, NEW s \in Seq(S), NEW r \in S, NEW f, NEW text, FirstKept(Append(s, r), f, text)
    PROVE  FirstKept(s, f, text) \/ (NoneKept(s, f) /\ Keeps(r, f) /\ r.original = text)
  <1>1. /\ DOMAIN Append(s, r) = DOMAIN s \cup {Len(s) + 1} /\ Append(s, r)[Len(s) + 1] = r
        /\ \A j \in DOMAIN s : Append(s, r)[j] = s[j] /\ j < Len(s) + 1
    OBVIOUS
  <1>2. PICK i \in DOMAIN Append(s, r) :
           /\ Keeps(Append(s, r)[i], f) /\ Append(s, r)[i].original = text
           /\ \A j \in DOMAIN Append(s, r) : j < i => ~Keeps(Append(s, r)[j], f)
    BY DEF FirstKept
  <1>3. CASE i \in DOMAIN s
    <2>1. Keeps(s[i], f) /\ s[i].original = text
      BY <1>1, <1>2, <1>3
    <2>2. \A j \in DOMAIN s : j < i => ~Keeps(s[j], f)
      BY <1>1, <1>2, <1>3
    <2> QED
      BY <1>3, <2>1, <2>2 DEF FirstKept
  <1>4. CASE i = Len(s) + 1
    BY <1>1, <1>2, <1>4 DEF NoneKept
  <1> QED
    BY <1>1, <1>2, <1>3, <1>4

LEMMA FirstOrNone ==
    ASSUME NEW S, NEW s \in Seq(S), NEW f, NEW text, FirstKept(s, f, text)
    PROVE  ~NoneKept(s, f)
  BY DEF FirstKept, NoneKept

(* Two lists of the same files and texts keep the same. *)
LEMMA SameReads ==
    ASSUME NEW s, NEW u, DOMAIN u = DOMAIN s,
           \A i \in DOMAIN s : u[i].file = s[i].file /\ u[i].original = s[i].original
    PROVE  /\ \A f, text : FirstKept(u, f, text) <=> FirstKept(s, f, text)
           /\ \A f : NoneKept(u, f) <=> NoneKept(s, f)
  <1>1. \A f : \A i \in DOMAIN s : Keeps(u[i], f) <=> Keeps(s[i], f)
    BY DEF Keeps
  <1> QED
    BY <1>1 DEF FirstKept, NoneKept

LEMMA FrontAndLast ==
    ASSUME NEW S, NEW s \in Seq(S), s # <<>>
    PROVE  /\ Front(s) \in Seq(S) /\ Last(s) \in S /\ s = Append(Front(s), Last(s))
           /\ \A i \in DOMAIN Front(s) : i \in DOMAIN s /\ Front(s)[i] = s[i]
  BY DEF Front, Last

--------------------------------------------------------------------------------
(* What the actions do to what a caller has read. *)

Reader == Results \cup Writings

LEMMA OneRecord ==
    ASSUME NEW S, NEW s \in Seq(S), s # <<>>, Len(s) <= 1
    PROVE  s[1] \in S /\ s = <<s[1]>>
  <1>1. Len(s) \in Nat \ {0}
    BY EmptySeq
  <1>2. \A n \in Nat \ {0} : n <= 1 => n = 1
    OBVIOUS
  <1>3. Len(s) = 1
    BY <1>1, <1>2, Zenon
  <1> QED
    BY <1>3

LEMMA OneBehind ==
    ASSUME NEW S, NEW s \in Seq(S), NEW r \in S
    PROVE  s \o <<r>> = Append(s, r)
  OBVIOUS

LEMMA ReadsType ==
    ASSUME TypeOK, NEW c \in Callers
    PROVE  /\ held[c] \in Seq(Results) /\ held[c] \in Seq(Reader) /\ Reads(c) \in Seq(Reader)
           /\ call[c] = <<>> => Reads(c) = held[c]
           /\ call[c] # <<>> => /\ call[c][1] \in Writings /\ call[c] = <<call[c][1]>>
                                /\ Reads(c) = Append(held[c], call[c][1])
  <1>1. held[c] \in Seq(Results) /\ call[c] \in Seq(Writings) /\ Len(call[c]) <= 1
    BY DEF TypeOK
  <1>2. held[c] \in Seq(Reader) /\ call[c] \in Seq(Reader)
    BY <1>1 DEF Reader
  <1>3. CASE call[c] = <<>>
    BY <1>1, <1>2, <1>3 DEF Reads
  <1>4. CASE call[c] # <<>>
    <2>1. call[c][1] \in Writings /\ call[c] = <<call[c][1]>>
      BY <1>1, <1>4, OneRecord
    <2>2. Reads(c) = Append(held[c], call[c][1])
      <3>1. call[c][1] \in Reader
        BY <2>1 DEF Reader
      <3> QED
        BY <1>2, <2>1, <3>1, OneBehind DEF Reads
    <2>3. Reads(c) \in Seq(Reader)
      BY <1>2 DEF Reads
    <2> QED
      BY <1>1, <1>2, <1>4, <2>1, <2>2, <2>3
  <1> QED
    BY <1>3, <1>4

(* A writer that is called is behind what its caller has read. *)
LEMMA ReadsBehind ==
    ASSUME TypeOK, NEW c \in Callers, NEW w \in Reader, held' = held, call'[c] = <<w>>
    PROVE  Reads(c)' = Append(held[c], w)
  <1>1. held[c] \in Seq(Reader)
    BY ReadsType
  <1>2. Reads(c)' = held[c] \o <<w>>
    BY DEF Reads
  <1> QED
    BY <1>1, <1>2, OneBehind

LEMMA UsesReads ==
    ASSUME TypeOK, NEW c \in Callers, NEW f
    PROVE  Uses(c, f) <=> \E i \in DOMAIN Reads(c) : Reads(c)[i].file = f
  <1>1. CASE call[c] = <<>>
    BY <1>1, ReadsType DEF Uses
  <1>2. CASE call[c] # <<>>
    <2>1. held[c] \in Seq(Reader) /\ call[c][1] \in Reader /\ Reads(c) = Append(held[c], call[c][1])
      BY <1>2, ReadsType DEF Reader
    <2>2. /\ DOMAIN Reads(c) = DOMAIN held[c] \cup {Len(held[c]) + 1}
          /\ Reads(c)[Len(held[c]) + 1] = call[c][1]
          /\ \A i \in DOMAIN held[c] : Reads(c)[i] = held[c][i]
      BY <2>1
    <2> QED
      BY <1>2, <2>2 DEF Uses
  <1> QED
    BY <1>1, <1>2

LEMMA KeepersUse ==
    ASSUME TypeOK, NEW c \in Callers, NEW f
    PROVE  /\ \A text : FirstKept(Reads(c), f, text) => Uses(c, f)
           /\ ~NoneKept(Reads(c), f) => Uses(c, f)
  BY UsesReads DEF FirstKept, NoneKept, Keeps

LEMMA ResultType ==
    ASSUME NEW w \in Writings \cup Results
    PROVE  Result(w.file, w.original) \in Results
  BY DEF Writings, Results, Result

(* Two lists that differ in their last record keep the same if its file and text *)
(* are the same.                                                                 *)
LEMMA SameBehind ==
    ASSUME NEW S, NEW s \in Seq(S), NEW r \in S, NEW q \in S,
           q.file = r.file, q.original = r.original
    PROVE  /\ \A f, text : FirstKept(Append(s, q), f, text) <=> FirstKept(Append(s, r), f, text)
           /\ \A f : NoneKept(Append(s, q), f) <=> NoneKept(Append(s, r), f)
  <1>1. DOMAIN Append(s, q) = DOMAIN Append(s, r)
    OBVIOUS
  <1>2. \A i \in DOMAIN Append(s, r) :
           /\ Append(s, q)[i].file = Append(s, r)[i].file
           /\ Append(s, q)[i].original = Append(s, r)[i].original
    OBVIOUS
  <1> QED
    BY <1>1, <1>2, SameReads

(* A stub that ends, well or not, leaves its text with the caller. *)
LEMMA FinishStub ==
    ASSUME TypeOK, NEW c \in Callers, NEW success, call[c] # <<>>, call[c][1].does = "stub",
           Finish(c, success)
    PROVE  /\ \A f, text : FirstKept(Reads(c), f, text) => FirstKept(Reads(c)', f, text)
           /\ \A f : NoneKept(Reads(c), f) => NoneKept(Reads(c)', f)
           /\ \A f : Uses(c, f)' => Uses(c, f)
           /\ held'[c] \in Seq(Results) /\ call'[c] = <<>>
  <1> DEFINE w == call[c][1]
             r == Result(w.file, w.original)
  <1>1. w \in Writings /\ w \in Reader /\ held[c] \in Seq(Reader) /\ held[c] \in Seq(Results)
        /\ Reads(c) = Append(held[c], w)
    BY ReadsType DEF Reader
  <1>2. r \in Results /\ r \in Reader /\ r.file = w.file /\ r.original = w.original
    BY <1>1, ResultType DEF Reader, Result
  <1>3. held'[c] = Append(held[c], r) /\ call'[c] = <<>>
    BY DEF Finish, Return, Returned, TypeOK
  <1>4. Append(held[c], r) \in Seq(Reader) /\ Append(held[c], r) \in Seq(Results)
    BY <1>1, <1>2
  <1>5. Reads(c)' = Append(held[c], r)
    BY <1>3, <1>4, ConcatEmptySeq DEF Reads
  <1>6. ASSUME NEW f, Uses(c, f)' PROVE Uses(c, f)
    <2>1. PICK i \in DOMAIN Append(held[c], r) : Append(held[c], r)[i].file = f
      BY <1>3, <1>6 DEF Uses
    <2>2. (i \in DOMAIN held[c] /\ held[c][i].file = f) \/ r.file = f
      BY <1>1, <1>2, <2>1
    <2> QED
      BY <1>2, <2>2 DEF Uses
  <1> HIDE DEF w, r
  <1>7. /\ \A f, text : FirstKept(Reads(c), f, text) => FirstKept(Reads(c)', f, text)
        /\ \A f : NoneKept(Reads(c), f) => NoneKept(Reads(c)', f)
    BY <1>1, <1>2, <1>5, SameBehind
  <1> QED
    BY <1>3, <1>4, <1>6, <1>7

(* A restore that failed can be called again; one that succeeded takes the last  *)
(* result with it, and if that was the first, the text is back.                  *)
LEMMA FinishRestore ==
    ASSUME TypeOK, CallOK, NEW c \in Callers, NEW success, call[c] # <<>>, call[c][1].does # "stub",
           Finish(c, success)
    PROVE  /\ \A f, text : FirstKept(Reads(c), f, text) =>
                 \/ FirstKept(Reads(c)', f, text)
                 \/ /\ success /\ f = call[c][1].file /\ text = call[c][1].text
                    /\ NoneKept(Reads(c)', f)
           /\ \A f : NoneKept(Reads(c), f) => NoneKept(Reads(c)', f)
           /\ \A f : Uses(c, f)' => Uses(c, f)
           /\ held'[c] \in Seq(Results) /\ call'[c] = <<>>
  <1> DEFINE w == call[c][1]
             l == Last(held[c])
             h == Front(held[c])
  <1>1. w \in Writings /\ w \in Reader /\ held[c] \in Seq(Reader) /\ held[c] \in Seq(Results)
        /\ Reads(c) = Append(held[c], w)
    BY ReadsType DEF Reader
  <1>2. w.original # Empty /\ held[c] # <<>> /\ l.file = w.file /\ l.original = w.original
        /\ w.text = w.original
    BY <1>1 DEF CallOK, Writings
  <1>3. /\ h \in Seq(Results) /\ l \in Results /\ held[c] = Append(h, l)
        /\ \A i \in DOMAIN h : i \in DOMAIN held[c] /\ h[i] = held[c][i]
    BY <1>1, <1>2, FrontAndLast
  <1>4. h \in Seq(Reader) /\ l \in Reader
    BY <1>3 DEF Reader
  <1>5. call'[c] = <<>> /\ held'[c] = IF success THEN h ELSE held[c]
    BY DEF Finish, TypeOK
  <1>6. Reads(c)' = held'[c] /\ held'[c] \in Seq(Results)
    BY <1>1, <1>3, <1>5, ConcatEmptySeq DEF Reads
  <1>7. ASSUME NEW f, Uses(c, f)' PROVE Uses(c, f)
    BY <1>3, <1>5, <1>7 DEF Uses
  <1>8. \A f : Keeps(w, f) <=> Keeps(l, f)
    BY <1>2 DEF Keeps
  <1> HIDE DEF w, l, h
  <1>9. ASSUME NEW f, NEW text, FirstKept(Reads(c), f, text)
        PROVE  FirstKept(held[c], f, text)
    <2>1. FirstKept(held[c], f, text) \/ (NoneKept(held[c], f) /\ Keeps(w, f))
      BY <1>1, <1>9, FirstWithout
    <2>2. NoneKept(held[c], f) => ~Keeps(l, f)
      BY <1>3, <1>4, StillNone
    <2> QED
      BY <1>8, <2>1, <2>2
  <1>10. ASSUME NEW f, NEW text, FirstKept(held[c], f, text)
         PROVE  FirstKept(h, f, text) \/ (NoneKept(h, f) /\ f = w.file /\ text = w.text)
    <2>1. FirstKept(h, f, text) \/ (NoneKept(h, f) /\ Keeps(l, f) /\ l.original = text)
      BY <1>3, <1>4, <1>10, FirstWithout
    <2> QED
      BY <1>2, <2>1 DEF Keeps
  <1>11. ASSUME NEW f, NoneKept(Reads(c), f) PROVE NoneKept(held[c], f) /\ NoneKept(h, f)
    <2>1. NoneKept(held[c], f)
      BY <1>1, <1>11, StillNone
    <2>2. NoneKept(h, f)
      BY <1>3, <1>4, <2>1, StillNone
    <2> QED
      BY <2>1, <2>2
  <1>12. \A f, text : FirstKept(Reads(c), f, text) =>
                 \/ FirstKept(Reads(c)', f, text)
                 \/ success /\ f = w.file /\ text = w.text /\ NoneKept(Reads(c)', f)
    BY <1>5, <1>6, <1>9, <1>10
  <1>13. \A f : NoneKept(Reads(c), f) => NoneKept(Reads(c)', f)
    BY <1>5, <1>6, <1>11
  <1> QED
    BY <1>5, <1>6, <1>7, <1>12, <1>13 DEF w

--------------------------------------------------------------------------------
(* Type correctness. *)

LEMMA TextTypes ==
    ASSUME TypeOK
    PROVE  /\ Empty \in Texts /\ CutOff \in Texts
           /\ \A f \in Files : disk[f] \in Texts /\ own[f] \in Texts
           /\ \A text \in Texts, fn \in Functions : Text(text.edit, text.stubs \cup {fn}) \in Texts
  <1>1. \A f \in Files : disk[f] \in Texts /\ own[f] \in Texts
    BY DEF TypeOK
  <1>2. \A text \in Texts, fn \in Functions : Text(text.edit, text.stubs \cup {fn}) \in Texts
    BY DEF Texts, Text
  <1> QED
    BY <1>1, <1>2 DEF Texts, Text, Empty, CutOff

LEMMA OneWriting ==
    ASSUME NEW w \in Writings
    PROVE  <<w>> \in Seq(Writings) /\ <<w>>[1] = w /\ <<w>> # <<>> /\ Len(<<w>>) <= 1
  OBVIOUS

(* What an action of one caller leaves: the other callers, and its own two lists. *)
Others(c) == \A d \in Callers \ {c} : held'[d] = held[d] /\ call'[d] = call[d]
Lists(c) ==
    /\ held' \in [Callers -> Seq(Results)] /\ call' \in [Callers -> Seq(Writings)]
    /\ \A d \in Callers : Len(call'[d]) <= 1
    /\ Others(c)

LEMMA CallReturned ==
    ASSUME TypeOK, CallOK, NEW c \in Callers, NEW success, call[c] # <<>>, Finish(c, success)
    PROVE  Lists(c) /\ call'[c] = <<>>
  <1>1. held'[c] \in Seq(Results) /\ call'[c] = <<>>
    <2>1. CASE call[c][1].does = "stub"
      BY <2>1, FinishStub
    <2>2. CASE call[c][1].does # "stub"
      BY <2>2, FinishRestore
    <2> QED
      BY <2>1, <2>2
  <1>2. \E h : held' = [held EXCEPT ![c] = h]
    <2>1. CASE held' = held
      <3>1. held' = [held EXCEPT ![c] = held[c]]
        BY <2>1 DEF TypeOK
      <3> QED
        BY <3>1
    <2>2. CASE held' # held
      BY <2>2 DEF Finish, Return, Returned
    <2> QED
      BY <2>1, <2>2
  <1>3. call' = [call EXCEPT ![c] = <<>>]
    BY DEF Finish
  <1>4. held' \in [Callers -> Seq(Results)] /\ \A d \in Callers \ {c} : held'[d] = held[d]
    BY <1>1, <1>2 DEF TypeOK
  <1>5. <<>> \in Seq(Writings) /\ Len(<<>>) <= 1
    OBVIOUS
  <1>6. /\ call' \in [Callers -> Seq(Writings)]
        /\ \A d \in Callers \ {c} : call'[d] = call[d]
    BY <1>3, <1>5 DEF TypeOK
  <1>7. \A d \in Callers : Len(call'[d]) <= 1
    BY <1>1, <1>5, <1>6 DEF TypeOK
  <1> QED
    BY <1>1, <1>4, <1>6, <1>7 DEF Lists, Others

LEMMA Appended ==
    ASSUME TypeOK, NEW c \in Callers, NEW r \in Results,
           held' = [held EXCEPT ![c] = Append(@, r)], UNCHANGED call
    PROVE  Lists(c) /\ held'[c] = Append(held[c], r)
  <1>1. Append(held[c], r) \in Seq(Results)
    BY ReadsType
  <1> QED
    BY <1>1 DEF TypeOK, Lists, Others

LEMMA Calling ==
    ASSUME TypeOK, NEW c \in Callers, NEW w \in Writings, call' = [call EXCEPT ![c] = <<w>>], UNCHANGED held
    PROVE  Lists(c) /\ call'[c] = <<w>>
  <1>1. call'[c] = <<w>> /\ call' \in [Callers -> Seq(Writings)]
        /\ \A d \in Callers \ {c} : call'[d] = call[d]
    BY OneWriting DEF TypeOK
  <1>2. \A d \in Callers : Len(call'[d]) <= 1
    BY <1>1, OneWriting DEF TypeOK
  <1> QED
    BY <1>1, <1>2 DEF TypeOK, Lists, Others

--------------------------------------------------------------------------------
(* What every action of a caller does for the files that stay undisturbed: a     *)
(* first text stays first or is put back, a file is read before it is changed,   *)
(* and nobody begins to use what another one uses.                               *)
FirstStays(c, f) ==
    \A text : FirstKept(Reads(c), f, text) =>
        FirstKept(Reads(c)', f, text) \/ (NoneKept(Reads(c)', f) /\ disk'[f] = text)
ReadFirst(c, f) ==
    NoneKept(Reads(c), f) /\ disk[f] = own[f] =>
        FirstKept(Reads(c)', f, own[f]) \/ (NoneKept(Reads(c)', f) /\ disk'[f] = own[f])
Alone(c, f) == Uses(c, f)' => Uses(c, f) \/ \A d \in Callers \ {c} : ~Uses(d, f)
Careful(c) ==
    /\ disturbed \subseteq disturbed'
    /\ \A f \in Files \ disturbed' : FirstStays(c, f) /\ ReadFirst(c, f) /\ Alone(c, f)

LEMMA OthersStay ==
    ASSUME TypeOK, NEW c \in Callers, Others(c), NEW d \in Callers, d # c
    PROVE  Reads(d)' = Reads(d) /\ \A f : Uses(d, f)' <=> Uses(d, f)
  BY DEF Others, Reads, Uses

LEMMA CarefulUsers ==
    ASSUME OneUser, TypeOK, NEW c \in Callers, Others(c), Careful(c)
    PROVE  OneUser'
  <1> SUFFICES ASSUME NEW f \in Files \ disturbed', NEW d \in Callers, NEW e \in Callers,
                      Uses(d, f)', Uses(e, f)', d # e
               PROVE  FALSE
    BY DEF OneUser
  <1>1. f \in Files \ disturbed /\ Alone(c, f)
    BY DEF Careful
  <1>2. \A x \in Callers : x # c => (Uses(x, f)' <=> Uses(x, f))
    BY OthersStay
  <1>3. \A x, y \in Callers : Uses(x, f) /\ Uses(y, f) => x = y
    BY <1>1 DEF OneUser
  <1>4. CASE d = c
    BY <1>1, <1>2, <1>3, <1>4 DEF Alone
  <1>5. CASE e = c
    BY <1>1, <1>2, <1>3, <1>5 DEF Alone
  <1>6. CASE d # c /\ e # c
    BY <1>2, <1>3, <1>6
  <1> QED
    BY <1>4, <1>5, <1>6

LEMMA CarefulKeeps ==
    ASSUME OneUser, KeptOK, TypeOK, NEW c \in Callers, Others(c), Careful(c), UNCHANGED own
    PROVE  KeptOK'
  <1> SUFFICES ASSUME NEW f \in Files \ disturbed'
               PROVE  \/ \E d \in Callers : FirstKept(Reads(d)', f, own[f])
                      \/ disk'[f] = own[f] /\ \A d \in Callers : NoneKept(Reads(d)', f)
    BY DEF KeptOK
  <1>1. f \in Files \ disturbed /\ FirstStays(c, f) /\ ReadFirst(c, f)
    BY DEF Careful
  <1>2. \A d \in Callers : d # c => Reads(d)' = Reads(d)
    BY OthersStay
  <1>3. ASSUME NEW d \in Callers, FirstKept(Reads(d), f, own[f]), d # c
        PROVE  FirstKept(Reads(d)', f, own[f])
    BY <1>2, <1>3
  <1>4. CASE FirstKept(Reads(c), f, own[f])
    <2>1. \A d \in Callers : d # c => NoneKept(Reads(d), f)
      <3>1. Uses(c, f)
        BY <1>4, KeepersUse
      <3>2. \A d \in Callers : d # c => ~Uses(d, f)
        BY <1>1, <3>1 DEF OneUser
      <3> QED
        BY <3>2, KeepersUse
    <2>2. FirstKept(Reads(c)', f, own[f]) \/ (NoneKept(Reads(c)', f) /\ disk'[f] = own[f])
      BY <1>1, <1>4 DEF FirstStays
    <2>3. NoneKept(Reads(c)', f) => \A d \in Callers : NoneKept(Reads(d)', f)
      BY <1>2, <2>1
    <2> QED
      BY <2>2, <2>3
  <1>5. CASE disk[f] = own[f] /\ \A d \in Callers : NoneKept(Reads(d), f)
    <2>1. FirstKept(Reads(c)', f, own[f]) \/ (NoneKept(Reads(c)', f) /\ disk'[f] = own[f])
      BY <1>1, <1>5 DEF ReadFirst
    <2>2. NoneKept(Reads(c)', f) => \A d \in Callers : NoneKept(Reads(d)', f)
      BY <1>2, <1>5
    <2> QED
      BY <2>1, <2>2
  <1> QED
    BY <1>1, <1>3, <1>4, <1>5 DEF KeptOK

--------------------------------------------------------------------------------
(* The actions of a caller are careful. *)

(* One more record is read: nothing, or what is on disk, or a piece of it if the *)
(* caller has a text of that file.                                               *)
LEMMA ReadOne ==
    ASSUME TypeOK, NEW c \in Callers, NEW r \in Reader, Reads(c) = held[c],
           Reads(c)' = Append(held[c], r), UNCHANGED disk, NEW f \in Files,
           r.file = f /\ NoneKept(held[c], f) => r.original \in {Empty, disk[f]}
    PROVE  FirstStays(c, f) /\ ReadFirst(c, f)
  <1>1. held[c] \in Seq(Reader)
    BY ReadsType
  <1>2. FirstStays(c, f)
    BY <1>1, StillFirst DEF FirstStays
  <1>3. ASSUME NoneKept(held[c], f), disk[f] = own[f]
        PROVE  FirstKept(Reads(c)', f, own[f]) \/ NoneKept(Reads(c)', f)
    <2>1. CASE Keeps(r, f)
      <3>1. r.original = own[f]
        BY <1>3, <2>1 DEF Keeps
      <3>2. FirstKept(Append(held[c], r), f, r.original)
        BY <1>1, <1>3, <2>1, FirstRead
      <3> QED
        BY <3>1, <3>2
    <2>2. CASE ~Keeps(r, f)
      BY <1>1, <1>3, <2>2, StillNone
    <2> QED
      BY <2>1, <2>2
  <1> QED
    BY <1>2, <1>3 DEF ReadFirst

LEMMA DisturbedRight ==
    ASSUME NEW c \in Callers, NEW f, NEW original, disturbed' = DisturbedBy(c, f, original)
    PROVE  /\ disturbed \subseteq disturbed'
           /\ f \notin disturbed' =>
                /\ \A d \in Callers \ {c} : ~Uses(d, f)
                /\ NoneKept(held[c], f) => original \in {Empty, disk[f]}
  BY DEF DisturbedBy, NoneKept

LEMMA NotStubbedCareful ==
    ASSUME TypeOK, CallOK, NEW c \in Callers, NEW f \in Files, NotStubbed(c, f)
    PROVE  Lists(c) /\ Careful(c) /\ CallOK'
  <1>1. PICK original \in {Empty, disk[f], CutOff} :
           /\ held' = [held EXCEPT ![c] = Append(@, Result(f, original))]
           /\ disturbed' = DisturbedBy(c, f, original)
    BY DEF NotStubbed, Return, Returned, TextsRead
  <1>2. UNCHANGED <<disk, own, call>> /\ call[c] = <<>>
    BY DEF NotStubbed, Idle
  <1>3. Result(f, original) \in Results
    BY <1>1, TextTypes DEF Results, Result
  <1>4. Lists(c) /\ held'[c] = Append(held[c], Result(f, original))
    BY <1>1, <1>2, <1>3, Appended
  <1>5. Reads(c) = held[c] /\ Reads(c)' = Append(held[c], Result(f, original))
    BY <1>2, <1>4, ReadsType, ConcatEmptySeq DEF Reads, Lists
  <1>6. ASSUME NEW g \in Files \ disturbed' PROVE FirstStays(c, g) /\ ReadFirst(c, g)
    <2>1. /\ Result(f, original) \in Reader
          /\ Result(f, original).file = f /\ Result(f, original).original = original
      BY <1>3 DEF Reader, Result
    <2>2. f = g /\ NoneKept(held[c], g) => original \in {Empty, disk[g]}
      BY <1>1, <1>6, DisturbedRight
    <2> QED
      BY <1>2, <1>5, <2>1, <2>2, ReadOne
  <1>7. ASSUME NEW g \in Files \ disturbed' PROVE Alone(c, g)
    <2>1. CASE g = f
      BY <1>1, <2>1, <1>7, DisturbedRight DEF Alone
    <2>2. CASE g # f
      <3>1. Result(f, original).file # g
        BY <2>2 DEF Result
      <3>2. \A i \in DOMAIN held'[c] : held'[c][i].file = g =>
               i \in DOMAIN held[c] /\ held[c][i].file = g
        BY <1>3, <1>4, <3>1, ReadsType
      <3> QED
        BY <1>2, <3>2 DEF Alone, Uses
    <2> QED
      BY <2>1, <2>2
  <1>8. Careful(c)
    BY <1>1, <1>6, <1>7, DisturbedRight DEF Careful
  <1>9. CallOK'
    BY <1>2, <1>4 DEF CallOK, Lists, Others
  <1> QED
    BY <1>4, <1>8, <1>9

LEMMA StubFunctionCareful ==
    ASSUME TypeOK, CallOK, NEW c \in Callers, NEW f \in Files, NEW fn \in Functions, StubFunction(c, f, fn)
    PROVE  Lists(c) /\ Careful(c) /\ CallOK'
  <1>1. PICK original \in {disk[f], CutOff} \ {Empty} :
           /\ call' = [call EXCEPT ![c] =
                <<Writing("stub", f, original, Text(original.edit, original.stubs \cup {fn}), "open")>>]
           /\ disturbed' = DisturbedBy(c, f, original)
    BY DEF StubFunction, TextsRead
  <1> DEFINE w == Writing("stub", f, original, Text(original.edit, original.stubs \cup {fn}), "open")
  <1>2. /\ UNCHANGED <<disk, own, held>> /\ call[c] = <<>> /\ call' = [call EXCEPT ![c] = <<w>>]
        /\ w \in Writings /\ w.file = f /\ w.original = original /\ w.does = "stub"
    BY <1>1, TextTypes DEF StubFunction, Idle, Writing, Writings
  <1> HIDE DEF w
  <1>3. Lists(c) /\ call'[c] = <<w>>
    BY <1>1, <1>2, Calling
  <1>4. Reads(c) = held[c] /\ Reads(c)' = Append(held[c], w)
    <2>1. w \in Reader
      BY <1>2 DEF Reader
    <2> QED
      BY <1>2, <1>3, <2>1, ReadsBehind, ReadsType
  <1>5. ASSUME NEW g \in Files \ disturbed' PROVE FirstStays(c, g) /\ ReadFirst(c, g)
    <2>1. w \in Reader
      BY <1>2 DEF Reader
    <2>2. f = g /\ NoneKept(held[c], g) => original \in {Empty, disk[g]}
      BY <1>1, <1>5, DisturbedRight
    <2> QED
      BY <1>2, <1>4, <2>1, <2>2, ReadOne
  <1>6. <<w>>[1] = w
    OBVIOUS
  <1>7. ASSUME NEW g \in Files \ disturbed' PROVE Alone(c, g)
    BY <1>1, <1>2, <1>3, <1>6, <1>7, DisturbedRight DEF Alone, Uses
  <1>8. Careful(c)
    BY <1>1, <1>5, <1>7, DisturbedRight DEF Careful
  <1>9. CallOK'
    BY <1>1, <1>2, <1>3, <1>6 DEF CallOK, Lists, Others
  <1> QED
    BY <1>3, <1>8, <1>9

LEMMA RestoreFileCareful ==
    ASSUME TypeOK, CallOK, NEW c \in Callers, RestoreFile(c)
    PROVE  Lists(c) /\ Careful(c) /\ CallOK'
  <1> DEFINE l == Last(held[c])
             h == Front(held[c])
             w == Writing("restore", l.file, l.original, l.original, "open")
  <1>1. UNCHANGED <<disk, own, disturbed>> /\ call[c] = <<>> /\ held[c] # <<>> /\ Reads(c) = held[c]
    BY ReadsType DEF RestoreFile, Idle
  <1>2. /\ h \in Seq(Results) /\ l \in Results /\ held[c] = Append(h, l)
        /\ \A i \in DOMAIN h : i \in DOMAIN held[c] /\ h[i] = held[c][i]
    BY <1>1, ReadsType, FrontAndLast
  <1>3. h \in Seq(Reader) /\ l \in Reader
    BY <1>2 DEF Reader
  <1>4. \/ l.original = Empty /\ held' = [held EXCEPT ![c] = h] /\ UNCHANGED call
        \/ l.original # Empty /\ call' = [call EXCEPT ![c] = <<w>>] /\ UNCHANGED held
    BY DEF RestoreFile
  <1>5. CASE l.original = Empty /\ held' = [held EXCEPT ![c] = h] /\ UNCHANGED call
    <2>1. Lists(c) /\ held'[c] = h
      BY <1>2, <1>5 DEF TypeOK, Lists, Others
    <2>2. Reads(c)' = h
      BY <1>1, <1>2, <1>5, <2>1, ConcatEmptySeq DEF Reads
    <2>3. \A f : ~Keeps(l, f)
      BY <1>5 DEF Keeps
    <2> HIDE DEF l, h
    <2>4. \A f, text : FirstKept(Reads(c), f, text) => FirstKept(Reads(c)', f, text)
      <3>1. ASSUME NEW f, NEW text, FirstKept(Append(h, l), f, text) PROVE FirstKept(h, f, text)
        BY <1>3, <2>3, <3>1, FirstWithout
      <3> QED
        BY <1>1, <1>2, <2>2, <3>1
    <2>5. \A f : NoneKept(Reads(c), f) => NoneKept(Reads(c)', f)
      BY <1>1, <1>2, <1>3, <2>2, StillNone
    <2>6. \A f : Alone(c, f)
      BY <1>1, <1>2, <1>5, <2>1 DEF Alone, Uses
    <2>7. Careful(c)
      BY <1>1, <2>4, <2>5, <2>6 DEF Careful, FirstStays, ReadFirst
    <2>8. CallOK'
      BY <1>1, <1>5, <2>1 DEF CallOK, Lists, Others
    <2> QED
      BY <2>1, <2>7, <2>8
  <1>6. CASE l.original # Empty /\ call' = [call EXCEPT ![c] = <<w>>] /\ UNCHANGED held
    <2>1. /\ w \in Writings /\ w \in Reader /\ w.file = l.file /\ w.original = l.original
          /\ w.text = w.original /\ w.does = "restore"
      BY <1>2 DEF Results, Writing, Writings, Reader
    <2> HIDE DEF w
    <2>2. Lists(c) /\ call'[c] = <<w>> /\ <<w>>[1] = w
      BY <1>6, <2>1, Calling
    <2>3. Reads(c)' = Append(held[c], w)
      BY <1>6, <2>1, <2>2, ReadsBehind
    <2>4. held[c] \in Seq(Reader)
      BY ReadsType
    <2>5. \A f, text : FirstKept(Reads(c), f, text) => FirstKept(Reads(c)', f, text)
      BY <1>1, <2>1, <2>3, <2>4, StillFirst
    <2>6. \A f : NoneKept(Reads(c), f) => NoneKept(Reads(c)', f)
      <3>1. ASSUME NEW f, NoneKept(held[c], f) PROVE NoneKept(Append(held[c], w), f)
        <4>1. ~Keeps(l, f)
          BY <1>2, <1>3, <3>1, StillNone
        <4>2. ~Keeps(w, f)
          BY <2>1, <4>1 DEF Keeps
        <4> QED
          BY <2>1, <2>4, <3>1, <4>2, StillNone
      <3> QED
        BY <1>1, <2>3, <3>1
    <2>7. \A f : Alone(c, f)
      <3>1. Len(held[c]) \in DOMAIN held[c] /\ held[c][Len(held[c])] = l
        BY <1>1, ReadsType, EmptySeq DEF Last
      <3> QED
        BY <1>6, <2>1, <2>2, <3>1 DEF Alone, Uses
    <2>8. Careful(c)
      BY <1>1, <2>5, <2>6, <2>7 DEF Careful, FirstStays, ReadFirst
    <2>9. CallOK'
      BY <1>1, <1>6, <2>1, <2>2 DEF CallOK, Lists, Others
    <2> QED
      BY <2>2, <2>8, <2>9
  <1> QED
    BY <1>4, <1>5, <1>6

(* The end of a call, whatever is on disk then: the text that was written, or if *)
(* it was not, whatever is there of a file that somebody keeps.                  *)
LEMMA CallKeeps ==
    ASSUME TypeOK, CallOK, NEW c \in Callers, call[c] # <<>>, NEW f
    PROVE  NoneKept(Reads(c), f) => f # call[c][1].file
  <1>1. Keeps(call[c][1], call[c][1].file)
    BY DEF CallOK, Keeps
  <1>2. ~NoneKept(Reads(c), call[c][1].file)
    <2>1. held[c] \in Seq(Reader) /\ call[c][1] \in Reader /\ Reads(c) = Append(held[c], call[c][1])
      BY ReadsType DEF Reader
    <2> QED
      BY <1>1, <2>1, StillNone
  <1> QED
    BY <1>2

LEMMA FinishCareful ==
    ASSUME TypeOK, CallOK, NEW c \in Callers, NEW success, call[c] # <<>>, Finish(c, success),
           disturbed \subseteq disturbed',
           \A f \in Files \ {call[c][1].file} : disk'[f] = disk[f],
           success /\ call[c][1].file \notin disturbed' => disk'[call[c][1].file] = call[c][1].text
    PROVE  Lists(c) /\ Careful(c) /\ CallOK'
  <1>1. Lists(c) /\ call'[c] = <<>>
    BY CallReturned
  <1>2. /\ \A f, text : FirstKept(Reads(c), f, text) =>
                 \/ FirstKept(Reads(c)', f, text)
                 \/ /\ success /\ f = call[c][1].file /\ text = call[c][1].text
                    /\ NoneKept(Reads(c)', f)
        /\ \A f : NoneKept(Reads(c), f) => NoneKept(Reads(c)', f)
        /\ \A f : Uses(c, f)' => Uses(c, f)
    <2>1. CASE call[c][1].does = "stub"
      BY <2>1, FinishStub
    <2>2. CASE call[c][1].does # "stub"
      BY <2>2, FinishRestore
    <2> QED
      BY <2>1, <2>2
  <1>3. ASSUME NEW f \in Files \ disturbed' PROVE FirstStays(c, f)
    BY <1>2, <1>3 DEF FirstStays
  <1>4. ASSUME NEW f \in Files \ disturbed' PROVE ReadFirst(c, f)
    <2>1. NoneKept(Reads(c), f) => disk'[f] = disk[f]
      BY CallKeeps
    <2> QED
      BY <1>2, <2>1 DEF ReadFirst
  <1>5. Careful(c)
    BY <1>2, <1>3, <1>4 DEF Careful, Alone
  <1>6. \A d \in Callers : call'[d] # <<>> => held'[d] = held[d] /\ call'[d] = call[d]
    BY <1>1 DEF Lists, Others
  <1>7. CallOK'
    BY <1>6 DEF CallOK
  <1> QED
    BY <1>1, <1>5, <1>7

LEMMA OpenForWritingCareful ==
    ASSUME TypeOK, CallOK, NEW c \in Callers, OpenForWriting(c)
    PROVE  Lists(c) /\ Careful(c) /\ CallOK'
  <1> DEFINE w == call[c][1]
             v == [w EXCEPT !.step = "write"]
  <1>1. call[c] # <<>> /\ UNCHANGED <<own, held, disturbed>> /\ w \in Writings /\ call[c] = <<w>>
        /\ Reads(c) = Append(held[c], w) /\ held[c] \in Seq(Reader)
    BY ReadsType DEF OpenForWriting
  <1>2. /\ v \in Writings /\ v.file = w.file /\ v.original = w.original /\ v.does = w.does /\ v.text = w.text
    BY <1>1 DEF Writings
  <1>3. call' = [call EXCEPT ![c] = <<v>>]
    <2>1. [call[c] EXCEPT ![1].step = "write"] = <<v>>
      BY <1>1
    <2> QED
      BY <2>1 DEF OpenForWriting
  <1> HIDE DEF v
  <1>4. Lists(c) /\ call'[c] = <<v>> /\ <<v>>[1] = v
    BY <1>1, <1>2, <1>3, Calling
  <1>5. Reads(c)' = Append(held[c], v) /\ v \in Reader /\ w \in Reader
    BY <1>1, <1>2, <1>4, OneBehind DEF Reads, Reader
  <1>6. /\ \A f, text : FirstKept(Reads(c), f, text) => FirstKept(Reads(c)', f, text)
        /\ \A f : NoneKept(Reads(c), f) => NoneKept(Reads(c)', f)
    BY <1>1, <1>2, <1>5, SameBehind
  <1>7. \A f \in Files : NoneKept(Reads(c), f) => disk'[f] = disk[f]
    BY <1>1, CallKeeps DEF OpenForWriting, TypeOK
  <1>8. \A f : Alone(c, f)
    BY <1>1, <1>2, <1>4 DEF Alone, Uses
  <1>9. Careful(c)
    BY <1>1, <1>6, <1>7, <1>8 DEF Careful, FirstStays, ReadFirst
  <1>10. CallOK'
    <2>1. \A d \in Callers \ {c} : held'[d] = held[d] /\ call'[d] = call[d]
      BY <1>4 DEF Lists, Others
    <2> QED
      BY <1>1, <1>2, <1>4, <2>1 DEF CallOK
  <1> QED
    BY <1>4, <1>9, <1>10

LEMMA DiskOf ==
    ASSUME TypeOK, NEW g, NEW text, disk' = [disk EXCEPT ![g] = text]
    PROVE  /\ \A f \in Files \ {g} : disk'[f] = disk[f]
           /\ g \in Files => disk'[g] = text
           /\ text \in Texts => disk' \in [Files -> Texts]
  BY DEF TypeOK

LEMMA WritesCareful ==
    ASSUME TypeOK, CallOK, NEW c \in Callers, OpenFails(c) \/ WriteText(c) \/ WriteFails(c)
    PROVE  Lists(c) /\ Careful(c) /\ CallOK'
  <1>1. CASE OpenFails(c)
    BY <1>1, FinishCareful DEF OpenFails
  <1>2. CASE WriteText(c)
    <2>1. call[c] # <<>> /\ call[c][1].file \in Files
      BY <1>2, ReadsType DEF WriteText, Writings
    <2> QED
      BY <1>2, <2>1, DiskOf, FinishCareful DEF WriteText
  <1>3. CASE WriteFails(c)
    <2>1. call[c] # <<>> /\ \A f \in Files \ {call[c][1].file} : disk'[f] = disk[f]
      BY <1>3, DiskOf DEF WriteFails
    <2>2. PICK noticed \in BOOLEAN :
             /\ Finish(c, ~noticed)
             /\ disturbed' = IF noticed THEN disturbed ELSE disturbed \cup {call[c][1].file}
      BY <1>3 DEF WriteFails
    <2>3. disturbed \subseteq disturbed' /\ (~noticed => call[c][1].file \in disturbed')
      BY <2>2
    <2> QED
      BY <2>1, <2>2, <2>3, FinishCareful
  <1> QED
    BY <1>1, <1>2, <1>3

LEMMA DiesCareful ==
    ASSUME CallOK, NEW c \in Callers, TypeOK, Die(c) \/ UNCHANGED vars
    PROVE  Lists(c) /\ Careful(c) /\ CallOK'
  <1>1. UNCHANGED <<disk, own, held, call, disturbed>>
    BY DEF Die, vars
  <1>2. Lists(c)
    BY <1>1 DEF TypeOK, Lists, Others
  <1>3. Reads(c)' = Reads(c) /\ \A f : Uses(c, f)' <=> Uses(c, f)
    BY <1>1 DEF Reads, Uses
  <1>4. Careful(c)
    BY <1>1, <1>3 DEF Careful, FirstStays, ReadFirst, Alone
  <1> QED
    BY <1>1, <1>2, <1>4 DEF CallOK

(* One action of a caller; the user's text stays what it is. *)
CallerStep(c) ==
    \/ \E f \in Files : NotStubbed(c, f) \/ \E fn \in Functions : StubFunction(c, f, fn)
    \/ RestoreFile(c) \/ OpenFails(c) \/ OpenForWriting(c) \/ WriteText(c) \/ WriteFails(c) \/ Die(c)

LEMMA CallersCareful ==
    ASSUME TypeOK, CallOK, NEW c \in Callers, CallerStep(c)
    PROVE  Lists(c) /\ Careful(c) /\ CallOK' /\ UNCHANGED own
  <1>1. UNCHANGED own
    BY DEF CallerStep, NotStubbed, StubFunction, RestoreFile, OpenFails, OpenForWriting, WriteText,
           WriteFails, Die
  <1> QED
    BY <1>1, NotStubbedCareful, StubFunctionCareful, RestoreFileCareful, OpenForWritingCareful,
       WritesCareful, DiesCareful DEF CallerStep

LEMMA DiskType ==
    ASSUME TypeOK, NEW c \in Callers, CallerStep(c)
    PROVE  disk' \in [Files -> Texts] /\ disturbed' \subseteq Files /\ alive' \subseteq Callers
  <1>1. call[c] # <<>> => call[c][1].text \in Texts /\ call[c][1].file \in Files
    BY ReadsType DEF Writings
  <1>2. disk' = disk \/ \E g \in Files, text \in Texts : disk' = [disk EXCEPT ![g] = text]
    <2>1. CASE OpenForWriting(c)
      BY <1>1, <2>1, TextTypes DEF OpenForWriting
    <2>2. CASE WriteText(c)
      BY <1>1, <2>2 DEF WriteText
    <2>3. CASE WriteFails(c)
      BY <1>1, <2>3, TextTypes DEF WriteFails
    <2> QED
      BY <2>1, <2>2, <2>3 DEF CallerStep, NotStubbed, StubFunction, RestoreFile, OpenFails, Die
  <1>3. disk' \in [Files -> Texts]
    BY <1>2, DiskOf DEF TypeOK
  <1>4. disturbed' \subseteq Files
    <2>1. CASE WriteFails(c)
      BY <1>1, <2>1 DEF WriteFails, TypeOK
    <2> QED
      BY <2>1 DEF TypeOK, CallerStep, NotStubbed, StubFunction, RestoreFile, OpenFails, OpenForWriting,
         WriteText, Die, DisturbedBy
  <1>5. alive' \subseteq Callers
    BY DEF TypeOK, CallerStep, NotStubbed, StubFunction, RestoreFile, OpenFails, OpenForWriting,
         WriteText, WriteFails, Die
  <1> QED
    BY <1>3, <1>4, <1>5

LEMMA CallerInv ==
    ASSUME IInv, NEW c \in Callers, CallerStep(c)
    PROVE  IInv'
  <1>1. Lists(c) /\ Careful(c) /\ CallOK' /\ UNCHANGED own
    BY CallersCareful DEF IInv
  <1>2. TypeOK'
    BY <1>1, DiskType DEF IInv, TypeOK, Lists
  <1>3. OneUser' /\ KeptOK'
    BY <1>1, CarefulUsers, CarefulKeeps DEF IInv, Lists
  <1> QED
    BY <1>1, <1>2, <1>3 DEF IInv, OwnOK

(* An edit of a file that a caller has read disturbs it; one of any other file   *)
(* finds the user's text on disk.                                                *)
LEMMA EditInv ==
    ASSUME IInv, NEW f \in Files, UserEdits(f)
    PROVE  IInv'
  <1>1. TypeOK /\ OwnOK /\ CallOK /\ OneUser /\ KeptOK
    BY DEF IInv
  <1>2. /\ UNCHANGED <<held, call, alive>> /\ disturbed \subseteq disturbed' /\ disturbed' \subseteq Files
        /\ disk' = [disk EXCEPT ![f].edit = @ + 1] /\ own' = [own EXCEPT ![f].edit = disk[f].edit + 1]
        /\ f \notin disturbed' => \A c \in Callers : ~Uses(c, f)
    BY <1>1 DEF UserEdits, TypeOK
  <1>3. disk[f] \in Texts /\ own[f] \in Texts
    BY <1>1, TextTypes
  <1>4. /\ \A g \in Files \ {f} : disk'[g] = disk[g] /\ own'[g] = own[g]
        /\ disk'[f] = [disk[f] EXCEPT !.edit = @ + 1]
        /\ own'[f] = [own[f] EXCEPT !.edit = disk[f].edit + 1]
    BY <1>1, <1>2 DEF TypeOK
  <1>5. disk'[f] \in Texts /\ own'[f] \in Texts /\ own'[f].stubs = own[f].stubs
    <2>1. disk[f].edit + 1 \in Nat
      <3>1. \A text \in Texts : text.edit \in Nat
        BY DEF Texts
      <3>2. disk[f].edit \in Nat
        BY <1>3, <3>1
      <3> QED
        BY <3>2
    <2>2. disk'[f] = [disk[f] EXCEPT !.edit = disk[f].edit + 1]
      BY <1>4
    <2>3. disk'[f] \in Texts
      BY <1>3, <2>1, <2>2 DEF Texts
    <2>4. own'[f] \in Texts /\ own'[f].stubs = own[f].stubs
      BY <1>3, <1>4, <2>1 DEF Texts
    <2> QED
      BY <2>3, <2>4
  <1>6. disk' \in [Files -> Texts] /\ own' \in [Files -> Texts]
    <2>1. /\ disk' = [g \in Files |-> disk'[g]] /\ own' = [g \in Files |-> own'[g]]
          /\ \A g \in Files \ {f} : disk'[g] \in Texts /\ own'[g] \in Texts
      BY <1>1, <1>2, <1>4, TextTypes DEF TypeOK
    <2> QED
      BY <1>5, <2>1
  <1>7. TypeOK' /\ OwnOK' /\ CallOK'
    <2>1. TypeOK'
      BY <1>1, <1>2, <1>6 DEF TypeOK
    <2>2. OwnOK'
      BY <1>1, <1>4, <1>5 DEF OwnOK
    <2> QED
      BY <1>1, <1>2, <2>1, <2>2 DEF CallOK
  <1>8. \A c \in Callers : Reads(c)' = Reads(c) /\ \A g : Uses(c, g)' <=> Uses(c, g)
    BY <1>2 DEF Reads, Uses
  <1>9. OneUser'
    BY <1>1, <1>2, <1>8 DEF OneUser
  <1>10. KeptOK'
    <2>1. ASSUME NEW g \in Files \ disturbed'
          PROVE  \/ \E c \in Callers : FirstKept(Reads(c)', g, own'[g])
                 \/ disk'[g] = own'[g] /\ \A c \in Callers : NoneKept(Reads(c)', g)
      <3>1. \/ \E c \in Callers : FirstKept(Reads(c), g, own[g])
            \/ disk[g] = own[g] /\ \A c \in Callers : NoneKept(Reads(c), g)
        BY <1>1, <1>2 DEF KeptOK
      <3>2. CASE g = f
        <4>1. \A c \in Callers : ~FirstKept(Reads(c), g, own[g])
          BY <1>1, <1>2, <3>2, KeepersUse
        <4> QED
          BY <1>4, <1>8, <3>1, <3>2, <4>1
      <3>3. CASE g # f
        BY <1>4, <1>8, <3>1, <3>3
      <3> QED
        BY <3>2, <3>3
    <2> QED
      BY <2>1 DEF KeptOK
  <1> QED
    BY <1>7, <1>9, <1>10 DEF IInv

--------------------------------------------------------------------------------
LEMMA InvInit == Init => IInv
  <1> SUFFICES ASSUME Init PROVE IInv
    OBVIOUS
  <1>1. \A c \in Callers : held[c] = <<>> /\ call[c] = <<>>
    BY DEF Init
  <1>2. Text(0, {}) \in Texts /\ Text(0, {}).stubs = {}
    BY DEF Text, Texts
  <1>3. TypeOK
    <2>1. <<>> \in Seq(Results) /\ <<>> \in Seq(Writings) /\ Len(<<>>) <= 1
      OBVIOUS
    <2> QED
      BY <1>2, <2>1 DEF Init, TypeOK
  <1>4. \A c \in Callers : Reads(c) = <<>> /\ \A f : ~Uses(c, f)
    BY <1>1 DEF Reads, Uses
  <1>5. OwnOK /\ CallOK
    BY <1>1, <1>2 DEF Init, OwnOK, CallOK
  <1>6. OneUser /\ KeptOK
    BY <1>4 DEF Init, OneUser, KeptOK, NoneKept
  <1> QED
    BY <1>3, <1>5, <1>6 DEF IInv

LEMMA InvNext == IInv /\ [Next]_vars => IInv'
  <1> SUFFICES ASSUME IInv, [Next]_vars PROVE IInv'
    OBVIOUS
  <1>1. CASE UNCHANGED vars
    <2>1. UNCHANGED <<disk, own, held, call, alive, disturbed>>
      BY <1>1 DEF vars
    <2>2. TypeOK' /\ OwnOK' /\ CallOK'
      BY <2>1 DEF IInv, TypeOK, OwnOK, CallOK
    <2>3. \A c \in Callers : Reads(c)' = Reads(c) /\ \A f : Uses(c, f)' <=> Uses(c, f)
      BY <2>1 DEF Reads, Uses
    <2>4. OneUser' /\ KeptOK'
      BY <2>1, <2>3 DEF IInv, OneUser, KeptOK
    <2> QED
      BY <2>2, <2>4 DEF IInv
  <1>2. CASE \E c \in Callers : CallerStep(c)
    BY <1>2, CallerInv
  <1>3. CASE \E f \in Files : UserEdits(f)
    BY <1>3, EditInv
  <1> QED
    BY <1>1, <1>2, <1>3 DEF Next, CallerStep

LEMMA Invariant == Spec => []IInv
  BY InvInit, InvNext, PTL DEF Spec

(* Texts, results and calls stay what they are. *)
THEOREM TypeCorrect == Spec => []TypeOK
  <1>1. IInv => TypeOK
    BY DEF IInv
  <1> QED
    BY <1>1, Invariant, PTL

(* Whatever reads, opens and writes fail, and however many stubs are taken and   *)
(* undone by however many callers: a file that nobody else touched meanwhile has *)
(* the user's text, or a caller, alive or dead, had it as the first text of that *)
(* file it read (stubFunction(), restoreFile() and writeFile()).                 *)
THEOREM NothingIsLost == Spec => []TextIsNeverLost
  <1>1. IInv => TextIsNeverLost
    BY DEF IInv, KeptOK, TextIsNeverLost, PutsBack, Reads
  <1> QED
    BY <1>1, Invariant, PTL
--------------------------------------------------------------------------------
(* The product configuration.  What is known of one program: while its file is   *)
(* written, the value it set is in the layer and nothing is reported yet.        *)
ProgramSafe(p) ==
    /\ pc[p] \in {"open", "write"} =>
         /\ outcome[p] = None /\ lastSet[p].key \in DOMAIN layers[p].external
         /\ layers[p].external[lastSet[p].key] = lastSet[p].value
    /\ outcome[p] \in Errors \ {"runtime_error"} => layers[p].external = lastSet[p].external
    /\ outcome[p] = "ok" /\ lastSet[p].key \notin DOMAIN layers[p].injected =>
         resolve(p, lastSet[p].key) = lastSet[p].value
ConfigIInv == ConfigTypeOK /\ \A p \in Programs : ProgramSafe(p)

--------------------------------------------------------------------------------
(* Files and layers: values, and what is written and read. *)

LEMMA ScalarValues == \A t \in Tokens : Scalar(t) \in Values
  BY DEF Values

LEMMA RecordFields ==
    ASSUME NEW v \in Values, v.kind = "record", NEW f \in DOMAIN v.fields
    PROVE  f \in Fields /\ v.fields[f] \in Tokens
  <1>1. v \notin {Scalar(t) : t \in Tokens}
    BY DEF Scalar
  <1>2. PICK g \in PartialMaps(Fields, {"one", "datetime"}) : v = Record(g)
    BY <1>1 DEF Values
  <1>3. v.fields = g
    BY <1>2 DEF Record
  <1> QED
    BY <1>2, <1>3 DEF PartialMaps, Tokens, Unbridged

LEMMA ScalarOrRecord ==
    ASSUME NEW v \in Values
    PROVE  \/ v.kind = "scalar" /\ v.text \in Tokens /\ v = Scalar(v.text)
           \/ v.kind = "record"
  BY DEF Values, Scalar, Record

LEMMA NothingIsTyped == IsFile(NoKeys) /\ IsLayer(NoKeys)
  BY DEF IsFile, IsLayer, NoKeys

(* The path of a field has the key and the field as its parts. *)
LEMMA LastOfAppend ==
    ASSUME NEW S, NEW s \in Seq(S), NEW x \in S
    PROVE  Append(s, x) \in Seq(S) /\ Append(s, x) # <<>> /\ Front(Append(s, x)) = s /\ Last(Append(s, x)) = x
  <1>1. /\ Append(s, x) \in Seq(S) /\ Append(s, x) # <<>> /\ Len(Append(s, x)) = Len(s) + 1
        /\ Append(s, x)[Len(s) + 1] = x /\ SubSeq(Append(s, x), 1, Len(s)) = s
    OBVIOUS
  <1> QED
    BY <1>1 DEF Front, Last

LEMMA FieldPath ==
    ASSUME NEW k \in Paths, NEW f \in STRING
    PROVE  Append(k, f) \in Paths /\ Front(Append(k, f)) = k /\ Last(Append(k, f)) = f
  <1>1. k \in Seq(STRING)
    BY DEF Paths
  <1> QED
    BY <1>1, LastOfAppend DEF Paths

LEMMA ParsedIsLayer ==
    ASSUME NEW f, IsFile(f)
    PROVE  IsLayer(parse_toml(f))
  <1>1. \A t \in Tokens : parse_scalar_token(t) \in Values
    BY ScalarValues DEF parse_scalar_token, Tokens, Unbridged
  <1> QED
    BY <1>1 DEF IsFile, IsLayer, parse_toml

LEMMA EmittedIsFile ==
    ASSUME NEW layer, IsLayer(layer)
    PROVE  IsFile(emit_toml(layer))
  <1> DEFINE scalars == {k \in Printed(layer) : layer[k].kind = "scalar"}
             fields == UNION {FieldsOf(layer, k) : k \in Printed(layer)}
             text(p) == IF p \in scalars THEN layer[p].text ELSE layer[Front(p)].fields[Last(p)]
  <1>1. emit_toml(layer) = [p \in scalars \cup fields |-> text(p)]
    BY DEF emit_toml
  <1>2. ASSUME NEW p \in scalars PROVE p \in Paths /\ text(p) \in Tokens
    <2>1. p \in DOMAIN layer /\ layer[p].kind = "scalar"
      BY DEF Printed
    <2>2. p \in Paths /\ layer[p] \in Values
      BY <2>1 DEF IsLayer
    <2>3. layer[p].text \in Tokens
      BY <2>1, <2>2, ScalarOrRecord
    <2> QED
      BY <2>2, <2>3
  <1>3. ASSUME NEW p \in fields, p \notin scalars PROVE p \in Paths /\ text(p) \in Tokens
    <2>1. PICK k \in Printed(layer) : p \in FieldsOf(layer, k)
      OBVIOUS
    <2>2. layer[k].kind = "record" /\ \E f \in DOMAIN layer[k].fields : p = Append(k, f)
      BY <2>1 DEF FieldsOf
    <2>3. PICK f \in DOMAIN layer[k].fields : p = Append(k, f)
      BY <2>2
    <2>4. k \in Paths /\ layer[k] \in Values
      BY DEF Printed, IsLayer
    <2>5. f \in STRING /\ layer[k].fields[f] \in Tokens
      BY <2>2, <2>4, RecordFields, KeyAssumption
    <2>6. p \in Paths /\ Front(p) = k /\ Last(p) = f
      BY <2>3, <2>4, <2>5, FieldPath
    <2> QED
      BY <1>3, <2>5, <2>6
  <1> HIDE DEF scalars, fields, text
  <1> QED
    BY <1>1, <1>2, <1>3 DEF IsFile

(* A plain layer is printed whole and reads back; of a layer that reads back,    *)
(* every key is printed, as what it is.                                          *)
LEMMA PlainIsPrinted ==
    ASSUME NEW layer, IsLayer(layer), Plain(layer)
    PROVE  emit_toml(layer) = [k \in DOMAIN layer |-> layer[k].text]
  <1>1. \A p : Leaf(layer, p) => p \in DOMAIN layer
    BY DEF Leaf, Plain
  <1>2. ASSUME NEW k \in DOMAIN layer, NEW i \in 1 .. Len(k) - 1, Leaf(layer, SubSeq(k, 1, i))
        PROVE  FALSE
    <2>1. k \in Seq(STRING)
      BY DEF IsLayer, Paths
    <2>2. Len(SubSeq(k, 1, i)) = i /\ SubSeq(SubSeq(k, 1, i), 1, i) = SubSeq(k, 1, i) /\ i < Len(k)
      BY <2>1
    <2>3. Below(SubSeq(k, 1, i), k)
      BY <2>1, <2>2 DEF Below, IsStrictPrefix, IsPrefix
    <2> QED
      BY <1>1, <1>2, <2>3 DEF Plain
  <1>3. Printed(layer) = DOMAIN layer
    BY <1>2 DEF Printed
  <1>4. {k \in Printed(layer) : layer[k].kind = "scalar"} = DOMAIN layer
    BY <1>3 DEF Plain
  <1>5. UNION {FieldsOf(layer, k) : k \in Printed(layer)} = {}
    BY <1>3 DEF FieldsOf, Plain
  <1> QED
    BY <1>4, <1>5 DEF emit_toml

LEMMA PlainReadsBack ==
    ASSUME NEW layer, IsLayer(layer), Plain(layer)
    PROVE  ~ParseThrows(emit_toml(layer)) /\ parse_toml(emit_toml(layer)) = layer
  <1>1. emit_toml(layer) = [k \in DOMAIN layer |-> layer[k].text]
    BY PlainIsPrinted
  <1>2. \A k \in DOMAIN layer : layer[k] = Scalar(layer[k].text)
    BY ScalarOrRecord DEF IsLayer, Plain
  <1>3. ~ParseThrows(emit_toml(layer))
    BY <1>1 DEF ParseThrows, Range, Plain
  <1>4. \A k \in DOMAIN layer : parse_scalar_token(layer[k].text) = layer[k]
    BY <1>2 DEF Plain, parse_scalar_token
  <1>5. layer = [k \in DOMAIN layer |-> layer[k]]
    BY DEF IsLayer
  <1> QED
    BY <1>1, <1>3, <1>4, <1>5 DEF parse_toml

LEMMA ReadBackIsPlain ==
    ASSUME NEW layer, IsLayer(layer), ~ParseThrows(emit_toml(layer)), parse_toml(emit_toml(layer)) = layer
    PROVE  Plain(layer)
  <1> DEFINE f == emit_toml(layer)
  <1>1. DOMAIN layer = DOMAIN f /\ \A k \in DOMAIN layer : layer[k] = parse_scalar_token(f[k])
    BY DEF parse_toml
  <1>2. \A k \in DOMAIN layer : layer[k].kind = "scalar"
    BY <1>1 DEF parse_scalar_token, Scalar
  <1>3. \A k \in DOMAIN layer : FieldsOf(layer, k) = {}
    BY <1>2 DEF FieldsOf
  <1>4. {k \in Printed(layer) : layer[k].kind = "scalar"} = Printed(layer)
    BY <1>2 DEF Printed
  <1>5. UNION {FieldsOf(layer, k) : k \in Printed(layer)} = {}
    BY <1>3 DEF Printed
  <1>6. f = [k \in Printed(layer) |-> layer[k].text]
    BY <1>4, <1>5 DEF emit_toml
  <1> HIDE DEF f
  <1>7. Printed(layer) = DOMAIN layer
    BY <1>1, <1>6
  <1>8. \A k \in DOMAIN layer : layer[k].text \notin {"nine", "inf"}
    <2>1. ASSUME NEW k \in DOMAIN layer PROVE f[k] = layer[k].text
      BY <1>6, <1>7
    <2>2. ASSUME NEW k \in DOMAIN layer PROVE f[k] # "nine"
      BY <1>1, <2>1 DEF parse_scalar_token, Scalar
    <2>3. ASSUME NEW k \in DOMAIN layer PROVE f[k] # "inf"
      BY <1>1 DEF f, ParseThrows, Range
    <2> QED
      BY <2>1, <2>2, <2>3
  <1>9. ASSUME NEW j \in DOMAIN layer, NEW k \in DOMAIN layer, Below(j, k) PROVE FALSE
    <2>1. j \in Seq(STRING) /\ k \in Seq(STRING) /\ j # <<>>
      BY DEF IsLayer, Paths
    <2>2. Len(j) <= Len(k) /\ SubSeq(j, 1, Len(j)) = SubSeq(k, 1, Len(j)) /\ j # k
      BY <1>9 DEF Below, IsStrictPrefix, IsPrefix
    <2>3. SubSeq(j, 1, Len(j)) = j /\ SubSeq(k, 1, Len(k)) = k
      BY <2>1
    <2>4. Len(j) \in 1 .. Len(k) - 1
      BY <2>1, <2>2, <2>3
    <2>5. Leaf(layer, SubSeq(k, 1, Len(j)))
      BY <1>2, <2>2, <2>3 DEF Leaf
    <2> QED
      BY <1>7, <2>4, <2>5 DEF Printed
  <1> QED
    BY <1>2, <1>8, <1>9 DEF Plain

--------------------------------------------------------------------------------
(* One program takes a step: the others keep what is theirs. *)
OthersKeep(p) ==
    \A q \in Programs \ {p} :
        /\ layers'[q] = layers[q] /\ pc'[q] = pc[q]
        /\ lastSet'[q] = lastSet[q] /\ outcome'[q] = outcome[q]

LEMMA OneProgram ==
    ASSUME NEW p \in Programs, \A q \in Programs : ProgramSafe(q), OthersKeep(p), ProgramSafe(p)'
    PROVE  \A q \in Programs : ProgramSafe(q)'
  <1> SUFFICES ASSUME NEW q \in Programs \ {p} PROVE ProgramSafe(q)'
    OBVIOUS
  <1>1. layers'[q] = layers[q] /\ pc'[q] = pc[q] /\ lastSet'[q] = lastSet[q] /\ outcome'[q] = outcome[q]
    BY DEF OthersKeep
  <1>2. \A k : resolve(q, k)' = resolve(q, k)
    BY <1>1 DEF resolve
  <1>3. ProgramSafe(q)
    OBVIOUS
  <1> QED
    BY <1>1, <1>2, <1>3 DEF ProgramSafe

(* The layers of one program are replaced, or its external layer is. *)
LEMMA LayersReplaced ==
    ASSUME ConfigTypeOK, NEW p \in Programs, NEW i, NEW e, NEW j, IsLayer(i), IsLayer(e), IsLayer(j),
           layers' = [layers EXCEPT ![p] = [inlined |-> i, external |-> e, injected |-> j]]
    PROVE  /\ layers' = [q \in Programs |-> [inlined |-> layers'[q].inlined, external |-> layers'[q].external,
                                             injected |-> layers'[q].injected]]
           /\ \A q \in Programs : /\ IsLayer(layers'[q].inlined) /\ IsLayer(layers'[q].external)
                                  /\ IsLayer(layers'[q].injected)
           /\ \A q \in Programs \ {p} : layers'[q] = layers[q]
           /\ layers'[p] = [inlined |-> i, external |-> e, injected |-> j]
  <1>1. DOMAIN layers = Programs
    BY DEF ConfigTypeOK
  <1>2. layers'[p] = [inlined |-> i, external |-> e, injected |-> j] /\ \A q \in Programs \ {p} : layers'[q] = layers[q]
    BY <1>1
  <1>3. ASSUME NEW q \in Programs
        PROVE  /\ layers'[q] = [inlined |-> layers'[q].inlined, external |-> layers'[q].external,
                                injected |-> layers'[q].injected]
               /\ IsLayer(layers'[q].inlined) /\ IsLayer(layers'[q].external) /\ IsLayer(layers'[q].injected)
    <2>1. CASE q = p
      BY <1>2, <2>1
    <2>2. CASE q # p
      BY <1>2, <2>2 DEF ConfigTypeOK
    <2> QED
      BY <2>1, <2>2
  <1>4. layers' = [q \in Programs |-> layers'[q]]
    BY <1>1
  <1> QED
    BY <1>2, <1>3, <1>4

LEMMA ExternalReplaced ==
    ASSUME ConfigTypeOK, NEW p \in Programs, NEW e, IsLayer(e), layers' = [layers EXCEPT ![p].external = e]
    PROVE  layers' = [layers EXCEPT ![p] = [inlined |-> layers[p].inlined, external |-> e, injected |-> layers[p].injected]]
  <1>1. layers[p] = [inlined |-> layers[p].inlined, external |-> layers[p].external, injected |-> layers[p].injected]
    BY DEF ConfigTypeOK
  <1>2. [layers[p] EXCEPT !.external = e] = [inlined |-> layers[p].inlined, external |-> e, injected |-> layers[p].injected]
    BY <1>1
  <1> QED
    BY <1>2

LEMMA SetLayer ==
    ASSUME NEW l, IsLayer(l), NEW k \in Paths, NEW v \in Values
    PROVE  IsLayer([x \in DOMAIN l \cup {k} |-> IF x = k THEN v ELSE l[x]])
  BY DEF IsLayer

--------------------------------------------------------------------------------
(* One lemma per action. *)

LEMMA ConstructKeeps ==
    ASSUME ConfigIInv, NEW p \in Programs, NEW D \in SUBSET Injectable, NEW h \in SUBSET Protected,
           Construct(p, [k \in D |-> Scalar("two")], h)
    PROVE  ConfigIInv'
  <1> DEFINE two == [k \in D |-> Scalar("two")]
             inl == [k \in Keys |-> Scalar("two")]
  <1> USE DEF ConfigIInv
  <1>1. IsLayer(two) /\ IsLayer(inl)
    BY ScalarValues, KeyAssumption, SubsetAssumption DEF IsLayer, Tokens
  <1>2. PICK withFile \in BOOLEAN :
          /\ hasPath' = [hasPath EXCEPT ![p] = withFile]
          /\ high' = [high EXCEPT ![p] = IF withFile THEN {} ELSE h]
          /\ layers' = [layers EXCEPT ![p] =
                 [inlined |-> inl, injected |-> two,
                  external |-> IF withFile THEN parse_toml(file) ELSE NoKeys]]
    BY DEF Construct
  <1> DEFINE ext == IF withFile THEN parse_toml(file) ELSE NoKeys
  <1>3. IsLayer(ext)
    BY ParsedIsLayer, NothingIsTyped DEF ConfigTypeOK
  <1>4. layers' = [layers EXCEPT ![p] = [inlined |-> inl, external |-> ext, injected |-> two]]
    BY <1>2
  <1> HIDE DEF two, inl, ext
  <1>5. /\ pc' = [pc EXCEPT ![p] = "idle"] /\ outcome' = [outcome EXCEPT ![p] = None]
        /\ UNCHANGED <<file, lastSet, sets, edits>>
    BY DEF Construct
  <1>6. ConfigTypeOK'
    BY <1>1, <1>2, <1>3, <1>4, <1>5, LayersReplaced DEF ConfigTypeOK
  <1>7. OthersKeep(p)
    BY <1>1, <1>3, <1>4, <1>5, LayersReplaced DEF ConfigTypeOK, OthersKeep
  <1>8. ProgramSafe(p)'
    <2>1. pc'[p] = "idle" /\ outcome'[p] = None
      BY <1>5 DEF ConfigTypeOK
    <2> QED
      BY <2>1, NoneAssumption DEF ProgramSafe, Errors
  <1> QED
    BY <1>6, <1>7, <1>8, OneProgram

LEMMA DeclareKeeps ==
    ASSUME ConfigIInv, NEW p \in Programs, NEW k \in Protected, declare(p, k)
    PROVE  ConfigIInv'
  <1>1. high' = [high EXCEPT ![p] = high[p] \cup {k}] /\ UNCHANGED <<file, layers, hasPath, pc, lastSet, outcome, sets, edits>>
    BY DEF declare
  <1>2. ConfigTypeOK'
    BY <1>1 DEF ConfigIInv, ConfigTypeOK
  <1>3. \A q \in Programs : ProgramSafe(q)'
    BY <1>1 DEF ConfigIInv, ProgramSafe, resolve
  <1> QED
    BY <1>2, <1>3 DEF ConfigIInv

LEMMA SetKeeps ==
    ASSUME ConfigIInv, NEW p \in Programs, NEW k \in Keys \cup BuildKeys, NEW v \in Values,
           NEW level \in {0, 1}, set(p, k, v, level)
    PROVE  ConfigIInv'
  <1> DEFINE before == layers[p].external
             after == [x \in DOMAIN before \cup {k} |-> IF x = k THEN v ELSE before[x]]
  <1> USE DEF ConfigIInv
  <1>1. /\ pc[p] = "idle" /\ sets < MaxSets /\ sets' = sets + 1
        /\ lastSet' = [lastSet EXCEPT ![p] = [key |-> k, value |-> v, file |-> file, external |-> before]]
        /\ UNCHANGED <<file, high, hasPath, edits>>
    BY DEF set
  <1>2. sets' \in 0 .. MaxSets
    BY <1>1, BoundAssumption DEF ConfigTypeOK
  <1>3. lastSet'[p] = [key |-> k, value |-> v, file |-> file, external |-> before] /\ DOMAIN lastSet' = Programs
    BY <1>1 DEF ConfigTypeOK
  <1>4. \A q \in Programs \ {p} : lastSet'[q] = lastSet[q]
    BY <1>1 DEF ConfigTypeOK
  <1>5. CASE Rejected(p, k, v, level) # None
    <2>1. outcome' = [outcome EXCEPT ![p] = Rejected(p, k, v, level)] /\ UNCHANGED <<layers, pc>>
      BY <1>5 DEF set
    <2>2. Rejected(p, k, v, level) \in Errors
      BY <1>5 DEF Rejected, Errors
    <2>3. ConfigTypeOK'
      BY <1>1, <1>2, <1>3, <2>1, <2>2 DEF ConfigTypeOK
    <2>4. OthersKeep(p)
      BY <1>4, <2>1 DEF ConfigTypeOK, OthersKeep
    <2>5. pc'[p] = "idle" /\ layers'[p].external = lastSet'[p].external /\ outcome'[p] # "ok"
      BY <1>1, <1>3, <2>1, <2>2 DEF ConfigTypeOK, Errors
    <2>6. ProgramSafe(p)'
      BY <2>5 DEF ProgramSafe
    <2> QED
      BY <2>3, <2>4, <2>6, OneProgram
  <1>6. CASE Rejected(p, k, v, level) = None
    <2>1. /\ layers' = [layers EXCEPT ![p].external = after]
          /\ pc' = [pc EXCEPT ![p] = IF hasPath[p] THEN "open" ELSE "idle"]
          /\ outcome' = [outcome EXCEPT ![p] = IF hasPath[p] THEN None ELSE "ok"]
      BY <1>6 DEF set
    <2>2. k \in Paths
      BY <1>6, NoneAssumption, KeyAssumption DEF Rejected, Errors
    <2>3. IsLayer(before)
      BY DEF ConfigTypeOK
    <2>4. IsLayer(after)
      BY <2>2, <2>3, SetLayer
    <2>5. k \in DOMAIN after /\ after[k] = v
      OBVIOUS
    <2> HIDE DEF after
    <2>6. layers' = [layers EXCEPT ![p] = [inlined |-> layers[p].inlined, external |-> after, injected |-> layers[p].injected]]
      BY <2>1, <2>4, ExternalReplaced
    <2>7. IsLayer(layers[p].inlined) /\ IsLayer(layers[p].injected)
      BY DEF ConfigTypeOK
    <2>8. /\ pc' \in [Programs -> {"none", "idle", "open", "write"}]
           /\ outcome' \in [Programs -> Errors \cup {None, "ok"}]
      BY <2>1 DEF ConfigTypeOK
    <2>9. ConfigTypeOK'
      BY <1>1, <1>2, <1>3, <2>4, <2>6, <2>7, <2>8, LayersReplaced DEF ConfigTypeOK
    <2>10. OthersKeep(p)
      BY <1>4, <2>1, <2>4, <2>6, <2>7, LayersReplaced DEF ConfigTypeOK, OthersKeep
    <2>11. layers'[p].external = after
      BY <2>4, <2>6, <2>7, LayersReplaced
    <2>12. lastSet'[p].key = k /\ lastSet'[p].value = v
      BY <1>3
    <2>13. outcome'[p] = (IF hasPath[p] THEN None ELSE "ok") /\ pc'[p] = (IF hasPath[p] THEN "open" ELSE "idle")
      BY <2>1 DEF ConfigTypeOK
    <2>14. ProgramSafe(p)'
      <3>1. k \notin DOMAIN layers'[p].injected => resolve(p, k)' = v
        BY <2>5, <2>11 DEF resolve
      <3> QED
        BY <2>5, <2>11, <2>12, <2>13, <3>1, NoneAssumption DEF ProgramSafe, Errors
    <2> QED
      BY <2>9, <2>10, <2>14, OneProgram
  <1> QED
    BY <1>5, <1>6

(* What an attempt to write the file leaves of a program that had set a value. *)
LEMMA WrittenSafe ==
    ASSUME ConfigIInv, NEW p \in Programs, pc[p] \in {"open", "write"}, UNCHANGED <<layers, lastSet>>,
           \/ pc'[p] = "write" /\ outcome'[p] = outcome[p]
           \/ pc'[p] = "idle" /\ outcome'[p] \in {"runtime_error", "ok"}
    PROVE  ProgramSafe(p)'
  <1>1. ProgramSafe(p)
    BY DEF ConfigIInv
  <1>2. /\ outcome[p] = None /\ lastSet[p].key \in DOMAIN layers[p].external
        /\ layers[p].external[lastSet[p].key] = lastSet[p].value
    BY <1>1 DEF ProgramSafe
  <1>3. lastSet[p].key \notin DOMAIN layers[p].injected => resolve(p, lastSet[p].key)' = lastSet[p].value
    BY <1>2 DEF resolve
  <1> QED
    BY <1>2, <1>3, NoneAssumption DEF ProgramSafe, Errors

LEMMA OpenKeeps ==
    ASSUME ConfigIInv, NEW p \in Programs, Open(p)
    PROVE  ConfigIInv'
  <1> USE DEF ConfigIInv
  <1>1. pc[p] = "open" /\ UNCHANGED <<layers, high, hasPath, lastSet, sets, edits>>
    BY DEF Open
  <1>2. PICK step \in {"write", "idle"}, result \in {outcome[p], "runtime_error", "ok"} :
          /\ pc' = [pc EXCEPT ![p] = step] /\ outcome' = [outcome EXCEPT ![p] = result]
          /\ file' \in {file, NoKeys}
          /\ \/ step = "write" /\ result = outcome[p]
             \/ step = "idle" /\ result \in {"runtime_error", "ok"}
    <2>1. CASE file' = NoKeys /\ pc' = [pc EXCEPT ![p] = "write"] /\ UNCHANGED outcome
      BY <2>1 DEF ConfigTypeOK
    <2>2. CASE /\ pc' = [pc EXCEPT ![p] = "idle"] /\ UNCHANGED file
               /\ outcome' = [outcome EXCEPT ![p] =
                     IF SerialiseThrows(layers[p].external) THEN "runtime_error" ELSE "ok"]
      BY <2>2
    <2> QED
      BY <2>1, <2>2 DEF Open
  <1>3. ConfigTypeOK'
    BY <1>1, <1>2, NothingIsTyped DEF ConfigTypeOK, Errors
  <1>4. OthersKeep(p)
    BY <1>1, <1>2 DEF ConfigTypeOK, OthersKeep
  <1>5. pc'[p] = step /\ outcome'[p] = result
    BY <1>2 DEF ConfigTypeOK
  <1>6. ProgramSafe(p)'
    BY <1>1, <1>2, <1>5, WrittenSafe
  <1> QED
    BY <1>3, <1>4, <1>6, OneProgram

LEMMA WriteKeeps ==
    ASSUME ConfigIInv, NEW p \in Programs, Write(p)
    PROVE  ConfigIInv'
  <1> USE DEF ConfigIInv
  <1>1. /\ pc[p] = "write" /\ pc' = [pc EXCEPT ![p] = "idle"]
        /\ UNCHANGED <<layers, high, hasPath, lastSet, sets, edits>>
    BY DEF Write
  <1>2. PICK result \in {"runtime_error", "ok"} :
          outcome' = [outcome EXCEPT ![p] = result] /\ file' \in {file, emit_toml(layers[p].external)}
    BY DEF Write
  <1>3. IsFile(file')
    BY <1>2, EmittedIsFile DEF ConfigTypeOK
  <1>4. ConfigTypeOK'
    BY <1>1, <1>2, <1>3 DEF ConfigTypeOK, Errors
  <1>5. OthersKeep(p)
    BY <1>1, <1>2 DEF ConfigTypeOK, OthersKeep
  <1>6. pc'[p] = "idle" /\ outcome'[p] = result
    BY <1>1, <1>2 DEF ConfigTypeOK
  <1>7. ProgramSafe(p)'
    BY <1>1, <1>6, WrittenSafe
  <1> QED
    BY <1>4, <1>5, <1>7, OneProgram

LEMMA EndsKeeps ==
    ASSUME ConfigIInv, NEW p \in Programs, Ends(p)
    PROVE  ConfigIInv'
  <1> USE DEF ConfigIInv
  <1>1. /\ pc' = [pc EXCEPT ![p] = "none"]
        /\ layers' = [layers EXCEPT ![p] = [inlined |-> NoKeys, external |-> NoKeys, injected |-> NoKeys]]
        /\ high' = [high EXCEPT ![p] = {}] /\ hasPath' = [hasPath EXCEPT ![p] = FALSE]
        /\ lastSet' = [lastSet EXCEPT ![p] = None] /\ outcome' = [outcome EXCEPT ![p] = None]
        /\ UNCHANGED <<file, sets, edits>>
    BY DEF Ends
  <1>2. IsLayer(NoKeys)
    BY NothingIsTyped
  <1>3. ConfigTypeOK'
    BY <1>1, <1>2, LayersReplaced DEF ConfigTypeOK
  <1>4. OthersKeep(p)
    BY <1>1, <1>2, LayersReplaced DEF ConfigTypeOK, OthersKeep
  <1>5. pc'[p] = "none" /\ outcome'[p] = None
    BY <1>1 DEF ConfigTypeOK
  <1>6. ProgramSafe(p)'
    BY <1>5, NoneAssumption DEF ProgramSafe, Errors
  <1> QED
    BY <1>3, <1>4, <1>6, OneProgram

LEMMA EditKeeps ==
    ASSUME ConfigIInv, Edit
    PROVE  ConfigIInv'
  <1>1. /\ edits < MaxSaves /\ edits' = edits + 1 /\ file' \in Edits
        /\ UNCHANGED <<layers, high, hasPath, pc, lastSet, outcome, sets>>
    BY DEF Edit
  <1>2. edits' \in 0 .. MaxSaves
    BY <1>1, BoundAssumption DEF ConfigIInv, ConfigTypeOK
  <1>3. IsFile(file')
    BY <1>1, EditAssumption
  <1>4. ConfigTypeOK'
    BY <1>1, <1>2, <1>3 DEF ConfigIInv, ConfigTypeOK
  <1>5. \A q \in Programs : ProgramSafe(q)'
    BY <1>1 DEF ConfigIInv, ProgramSafe, resolve
  <1> QED
    BY <1>4, <1>5 DEF ConfigIInv

LEMMA ConfigStarts == ConfigInit => ConfigIInv
  <1> SUFFICES ASSUME ConfigInit PROVE ConfigIInv
    OBVIOUS
  <1>1. ConfigTypeOK
    <2>1. sets \in 0 .. MaxSets /\ edits \in 0 .. MaxSaves
      BY BoundAssumption DEF ConfigInit
    <2> QED
      BY <2>1, NothingIsTyped DEF ConfigInit, ConfigTypeOK
  <1>2. \A p \in Programs : pc[p] = "none" /\ outcome[p] = None
    BY DEF ConfigInit
  <1>3. \A p \in Programs : ProgramSafe(p)
    BY <1>2, NoneAssumption DEF ProgramSafe, Errors
  <1> QED
    BY <1>1, <1>3 DEF ConfigIInv

LEMMA ConfigSteps == ConfigIInv /\ [ConfigNext]_configVars => ConfigIInv'
  <1> SUFFICES ASSUME ConfigIInv, [ConfigNext]_configVars PROVE ConfigIInv'
    OBVIOUS
  <1>1. CASE UNCHANGED configVars
    <2>1. UNCHANGED <<file, layers, high, hasPath, pc, lastSet, outcome, sets, edits>>
      BY <1>1 DEF configVars
    <2>2. ConfigTypeOK'
      BY <2>1 DEF ConfigIInv, ConfigTypeOK
    <2>3. \A q \in Programs : ProgramSafe(q)'
      BY <2>1 DEF ConfigIInv, ProgramSafe, resolve
    <2> QED
      BY <2>2, <2>3 DEF ConfigIInv
  <1>2. CASE Edit
    BY <1>2, EditKeeps
  <1>3. ASSUME NEW p \in Programs, Open(p) \/ Write(p) \/ Ends(p) PROVE ConfigIInv'
    BY <1>3, OpenKeeps, WriteKeeps, EndsKeeps
  <1>4. ASSUME NEW p \in Programs, NEW k \in Protected, declare(p, k) PROVE ConfigIInv'
    BY <1>4, DeclareKeeps
  <1>5. ASSUME NEW p \in Programs, NEW D \in SUBSET Injectable, NEW h \in SUBSET Protected,
               Construct(p, [k \in D |-> Scalar("two")], h)
        PROVE  ConfigIInv'
    BY <1>5, ConstructKeeps
  <1>6. ASSUME NEW p \in Programs, NEW k \in Keys \cup BuildKeys, NEW v \in Values \ {Scalar("two")},
               NEW level \in {0, 1}, set(p, k, v, level)
        PROVE  ConfigIInv'
    BY <1>6, SetKeeps
  <1> QED
    BY <1>1, <1>2, <1>3, <1>4, <1>5, <1>6 DEF ConfigNext

LEMMA ConfigInvariant == ConfigSpec => []ConfigIInv
  BY ConfigStarts, ConfigSteps, PTL DEF ConfigSpec

(* The file and the layers of every program hold whole values, whatever programs *)
(* set, whatever the user saves, and wherever a program ends.                    *)
THEOREM ConfigTypeCorrect == ConfigSpec => []ConfigTypeOK
  <1>1. ConfigIInv => ConfigTypeOK
    BY DEF ConfigIInv
  <1> QED
    BY <1>1, ConfigInvariant, PTL

(* ConfigStore::set() (config_model.h:590-602): rejected by any of its checks it *)
(* leaves the layer as it was, and returned it is what the next get() sees,      *)
(* whether or not the file could be opened.                                      *)
THEOREM SetAllOrNothing == ConfigSpec => []SetIsAllOrNothing
  <1>1. ConfigIInv => SetIsAllOrNothing
    BY DEF ConfigIInv, ProgramSafe, SetIsAllOrNothing, RejectedSetChangesNothing, NextGetSeesTheSet
  <1> QED
    BY <1>1, ConfigInvariant, PTL

(* write_external() and from_file() (config.h:429-459, 581-600): what is written *)
(* reads back as the layer exactly if no value is a record, an infinity or an    *)
(* integer of ten characters with a dash, and no key is below another.           *)
THEOREM PlainLayersReadBack == ConfigSpec => ReadsBackAsWritten
  <1>1. ConfigIInv => \A p \in Programs : Write(p) /\ outcome'[p] = "ok" =>
            ((~ParseThrows(file') /\ parse_toml(file') = layers[p].external) <=> Plain(layers[p].external))
    <2> SUFFICES ASSUME ConfigIInv, NEW p \in Programs, Write(p), outcome'[p] = "ok"
                 PROVE  (~ParseThrows(file') /\ parse_toml(file') = layers[p].external) <=> Plain(layers[p].external)
      OBVIOUS
    <2>1. IsLayer(layers[p].external)
      BY DEF ConfigIInv, ConfigTypeOK
    <2>2. p \in DOMAIN outcome
      BY DEF ConfigIInv, ConfigTypeOK
    <2>3. file' = emit_toml(layers[p].external)
      BY <2>2 DEF Write
    <2> QED
      BY <2>1, <2>3, PlainReadsBack, ReadBackIsPlain
  <1>2. ConfigIInv /\ [ConfigNext]_configVars =>
            [\A p \in Programs : Write(p) /\ outcome'[p] = "ok" =>
               LET layer == layers[p].external
               IN  (~ParseThrows(file') /\ parse_toml(file') = layer) <=> Plain(layer)]_configVars
    BY <1>1
  <1> QED
    BY <1>2, ConfigInvariant, PTL DEF ConfigSpec, ReadsBackAsWritten

--------------------------------------------------------------------------------
(* The projects of check().  The files of a call that nothing disturbs are those *)
(* it has written so far; nobody else has its number.                            *)
SoFar(files, c, n) ==
    /\ DOMAIN files = {Project(c)[i].path : i \in 1 .. n}
    /\ \A i \in 1 .. n : files[Project(c)[i].path] = Project(c)[i].body
CallSafe(c) ==
    Undisturbed(c) /\ DifferentNames(job[c].sources) =>
        /\ stage[c] = "numbered" => nonce[c] \notin DOMAIN directory
        /\ stage[c] = "writing" => SoFar(directory[nonce[c]], c, written[c])
        /\ stage[c] = "done" => SoFar(checked[c], c, Len(Project(c)))
Counted == \A c \in Calls : stage[c] # "ready" => nonce[c] < counter[job[c].process]
OneEach ==
    \A c, d \in Calls : c # d /\ job[c].process = job[d].process /\ stage[c] # "ready" /\ stage[d] # "ready" =>
        nonce[c] # nonce[d]
DirectoriesOK ==
    \A n \in DOMAIN directory : n \in left \/ \E d \in Calls : nonce[d] = n /\ stage[d] \notin {"ready", "numbered"}
WrittenOK ==
    \A c \in Calls : /\ stage[c] \in {"ready", "numbered"} => written[c] = 0
                     /\ stage[c] = "writing" => written[c] <= Len(Project(c))
NumbersOK == Counted /\ OneEach /\ DirectoriesOK /\ WrittenOK
CheckIInv == CheckTypeOK /\ NumbersOK /\ \A c \in Calls : CallSafe(c)

--------------------------------------------------------------------------------
(* The files of a project have paths of their own if the basenames differ. *)

LEMMA BehindTwo ==
    ASSUME NEW S, NEW s \in Seq(S), NEW r \in Seq(S), NEW n \in Nat
    PROVE  Len(s) = 2 /\ Len(r) = n =>
             /\ Len(s \o r) = 2 + n /\ DOMAIN (s \o r) = 1 .. 2 + n
             /\ (s \o r)[1] = s[1] /\ (s \o r)[2] = s[2]
             /\ \A i \in 1 .. n : (s \o r)[i + 2] = r[i]
  <1>1. s \o r \in Seq(S) /\ Len(s \o r) = Len(s) + Len(r)
    OBVIOUS
  <1>2. \A i \in 1 .. Len(s) : (s \o r)[i] = s[i]
    OBVIOUS
  <1>3. \A i \in 1 .. Len(r) : (s \o r)[i + Len(s)] = r[i]
    OBVIOUS
  <1> DEFINE t == s \o r
  <1> HIDE DEF t
  <1> SUFFICES ASSUME Len(s) = 2, Len(r) = n
               PROVE  /\ Len(t) = 2 + n /\ DOMAIN t = 1 .. 2 + n
                      /\ t[1] = s[1] /\ t[2] = s[2]
                      /\ \A i \in 1 .. n : t[i + 2] = r[i]
    BY DEF t
  <1>4. Len(t) = 2 + n /\ t \in Seq(S)
    BY <1>1 DEF t
  <1>5. t[1] = s[1] /\ t[2] = s[2]
    <2>1. 1 \in 1 .. Len(s) /\ 2 \in 1 .. Len(s)
      OBVIOUS
    <2> QED
      BY <1>2, <2>1 DEF t
  <1>6. \A i \in 1 .. n : t[i + 2] = r[i]
    BY <1>3 DEF t
  <1> QED
    BY <1>4, <1>5, <1>6

LEMMA ProjectFiles ==
    ASSUME CheckTypeOK, NEW c \in Calls
    PROVE  /\ job[c].sources \in Seq(SourcePaths)
           /\ Len(Project(c)) = 2 + Len(job[c].sources) /\ Len(Project(c)) \in Nat
           /\ DOMAIN Project(c) = 1 .. Len(Project(c))
           /\ Project(c)[1].path = Toml /\ Project(c)[2].path = Topo
           /\ \A i \in 1 .. Len(job[c].sources) : Project(c)[i + 2].path = InSrc(job[c].sources[i].base)
  <1> DEFINE s == job[c].sources
             first == <<[path |-> Toml, body |-> c], [path |-> Topo, body |-> c]>>
             rest == [i \in DOMAIN s |-> [path |-> InSrc(s[i].base), body |-> s[i]]]
  <1>1. job[c] \in Jobs
    BY DEF CheckTypeOK
  <1>2. PICK n \in 0 .. MaxSources : s \in [1 .. n -> SourcePaths]
    BY <1>1 DEF Jobs
  <1>3. n \in Nat
    BY <1>2, TroubleAssumption
  <1>4. s \in Seq(SourcePaths) /\ Len(s) = n
    BY <1>2, <1>3
  <1> HIDE DEF s
  <1> DEFINE F == {first[1], first[2]} \cup {rest[i] : i \in 1 .. n}
  <1>5. rest \in Seq(F) /\ Len(rest) = n
    BY <1>3, <1>4
  <1>6. first \in Seq(F) /\ Len(first) = 2
    OBVIOUS
  <1>7. Project(c) = first \o rest
    BY DEF Project, s
  <1>8. first[1].path = Toml /\ first[2].path = Topo
    OBVIOUS
  <1>9. \A i \in 1 .. n : rest[i].path = InSrc(s[i].base)
    BY <1>4
  <1> HIDE DEF first, rest, F
  <1>10. /\ Len(first \o rest) = 2 + n /\ DOMAIN (first \o rest) = 1 .. 2 + n
         /\ (first \o rest)[1] = first[1] /\ (first \o rest)[2] = first[2]
         /\ \A i \in 1 .. n : (first \o rest)[i + 2] = rest[i]
    <2>1. Len(first) = 2 /\ Len(rest) = n =>
            /\ Len(first \o rest) = 2 + n /\ DOMAIN (first \o rest) = 1 .. 2 + n
            /\ (first \o rest)[1] = first[1] /\ (first \o rest)[2] = first[2]
            /\ \A i \in 1 .. n : (first \o rest)[i + 2] = rest[i]
      <3>1. first \in Seq(F) /\ rest \in Seq(F)
        BY <1>5, <1>6
      <3> QED
        BY <1>3, <3>1, BehindTwo
    <2> QED
      BY <1>5, <1>6, <2>1
  <1>11. Project(c)[1] = first[1] /\ Project(c)[2] = first[2] /\ \A i \in 1 .. n : Project(c)[i + 2] = rest[i]
    BY <1>7, <1>10
  <1>12. Len(Project(c)) = 2 + n /\ DOMAIN Project(c) = 1 .. 2 + n
    BY <1>7, <1>10
  <1>13. \A i \in 1 .. n : Project(c)[i + 2].path = InSrc(s[i].base)
    BY <1>9, <1>11
  <1> QED
    BY <1>3, <1>4, <1>8, <1>11, <1>12, <1>13 DEF s

LEMMA DistinctPaths ==
    ASSUME CheckTypeOK, NEW c \in Calls, DifferentNames(job[c].sources),
           NEW i \in 1 .. Len(Project(c)), NEW j \in 1 .. Len(Project(c)), Project(c)[i].path = Project(c)[j].path
    PROVE  i = j
  <1> DEFINE s == job[c].sources
             path(k) == Project(c)[k].path
  <1>1. s \in Seq(SourcePaths) /\ Len(Project(c)) = 2 + Len(s) /\ path(1) = Toml /\ path(2) = Topo
    BY ProjectFiles
  <1>2. Len(s) \in Nat /\ DOMAIN s = 1 .. Len(s) /\ \A k \in 1 .. Len(s) : path(k + 2) = InSrc(s[k].base)
    BY <1>1, ProjectFiles
  <1>3. /\ Toml # Topo /\ \A b : Toml # InSrc(b) /\ Topo # InSrc(b)
        /\ \A a, b : InSrc(a) = InSrc(b) => a = b
    BY DEF Toml, Topo, InSrc
  <1>4. \A k, l \in 1 .. Len(s) : s[k].base = s[l].base => k = l
    BY <1>2 DEF DifferentNames
  <1>5. path(i) = path(j)
    OBVIOUS
  <1> HIDE DEF s, path
  <1>6. ASSUME NEW k \in 1 .. Len(Project(c)), k # 1, k # 2 PROVE k - 2 \in 1 .. Len(s) /\ path(k) = InSrc(s[k - 2].base)
    <2>1. k - 2 \in 1 .. Len(s) /\ (k - 2) + 2 = k
      BY <1>1, <1>2, <1>6
    <2> QED
      BY <1>2, <2>1
  <1>7. CASE i \in {1, 2} \/ j \in {1, 2}
    BY <1>1, <1>3, <1>5, <1>6, <1>7
  <1>8. CASE i \notin {1, 2} /\ j \notin {1, 2}
    <2>1. i - 2 \in 1 .. Len(s) /\ j - 2 \in 1 .. Len(s) /\ s[i - 2].base = s[j - 2].base
      BY <1>3, <1>5, <1>6, <1>8
    <2>2. i - 2 = j - 2
      BY <1>4, <2>1
    <2> QED
      BY <2>2
  <1> QED
    BY <1>7, <1>8

(* One file more. *)
LEMMA OneMore ==
    ASSUME CheckTypeOK, NEW c \in Calls, DifferentNames(job[c].sources), NEW n \in Nat, n < Len(Project(c)),
           NEW files, SoFar(files, c, n)
    PROVE  SoFar(write_file(files, Project(c)[n + 1].path, Project(c)[n + 1].body), c, n + 1)
  <1> DEFINE f == write_file(files, Project(c)[n + 1].path, Project(c)[n + 1].body)
  <1>1. 1 .. n + 1 = (1 .. n) \cup {n + 1} /\ Len(Project(c)) \in Nat
    BY ProjectFiles
  <1>2. DOMAIN f = {Project(c)[i].path : i \in 1 .. n + 1}
    BY <1>1 DEF SoFar, write_file
  <1>3. ASSUME NEW i \in 1 .. n PROVE f[Project(c)[i].path] = Project(c)[i].body
    <2>1. i \in 1 .. Len(Project(c)) /\ n + 1 \in 1 .. Len(Project(c)) /\ i # n + 1
      BY <1>1
    <2>2. Project(c)[i].path # Project(c)[n + 1].path
      BY <2>1, DistinctPaths
    <2> QED
      BY <2>2 DEF SoFar, write_file
  <1>4. f[Project(c)[n + 1].path] = Project(c)[n + 1].body
    BY DEF write_file
  <1> QED
    BY <1>1, <1>2, <1>3, <1>4 DEF SoFar

--------------------------------------------------------------------------------
(* What the step of one call, d, leaves of the other calls. *)
OtherCalls(d) ==
    /\ job' = job /\ left' = left /\ troubled \subseteq troubled'
    /\ \A c \in Calls \ {d} : /\ nonce'[c] = nonce[c] /\ stage'[c] = stage[c]
                              /\ written'[c] = written[c] /\ checked'[c] = checked[c]

LEMMA NobodyHasItsNumber ==
    ASSUME CheckIInv, NEW c \in Calls, NEW d \in Calls, c # d, stage[c] # "ready", stage[d] # "ready", Undisturbed(c)
    PROVE  nonce[d] # nonce[c]
  BY DEF CheckIInv, NumbersOK, OneEach, Undisturbed, Collides

LEMMA StillUndisturbed ==
    ASSUME CheckIInv, NEW d \in Calls, OtherCalls(d), nonce[d] = NoNumber \/ nonce'[d] = nonce[d],
           NEW c \in Calls, nonce'[c] = nonce[c], stage[c] # "ready", Undisturbed(c)'
    PROVE  Undisturbed(c)
  <1>1. nonce[c] # NoNumber
    BY DEF CheckIInv, CheckTypeOK
  <1>2. ASSUME Collides(c) PROVE Collides(c)'
    <2>1. PICK e \in Calls : job[e].process # job[c].process /\ nonce[e] = nonce[c]
      BY <1>2 DEF Collides
    <2>2. nonce'[e] = nonce[e]
      BY <1>1, <2>1 DEF OtherCalls
    <2> QED
      BY <2>1, <2>2 DEF Collides, OtherCalls
  <1> QED
    BY <1>2 DEF Undisturbed, OtherCalls

(* A directory is there only once somebody has made it, and only one call writes *)
(* in it: the others find theirs as they left it.                                *)
LEMMA OthersSafe ==
    ASSUME CheckIInv, NEW d \in Calls, OtherCalls(d), stage[d] # "ready" \/ directory' = directory,
           nonce[d] = NoNumber \/ nonce'[d] = nonce[d],
           \A n : n # nonce[d] => /\ n \in DOMAIN directory' <=> n \in DOMAIN directory
                                  /\ n \in DOMAIN directory => directory'[n] = directory[n],
           NEW c \in Calls \ {d}
    PROVE  CallSafe(c)'
  <1> SUFFICES ASSUME Undisturbed(c)', DifferentNames(job[c].sources)'
               PROVE  /\ stage'[c] = "numbered" => nonce'[c] \notin DOMAIN directory'
                      /\ stage'[c] = "writing" => SoFar(directory[nonce[c]], c, written[c])'
                      /\ stage'[c] = "done" => SoFar(checked[c], c, Len(Project(c)))'
    BY DEF CallSafe
  <1>1. /\ nonce'[c] = nonce[c] /\ stage'[c] = stage[c] /\ written'[c] = written[c] /\ checked'[c] = checked[c]
        /\ job' = job
    BY DEF OtherCalls
  <1>2. Project(c)' = Project(c)
    BY <1>1 DEF Project
  <1>3. CASE stage[c] = "ready"
    BY <1>1, <1>3
  <1>4. CASE stage[c] # "ready"
    <2>1. Undisturbed(c)
      BY <1>1, <1>4, StillUndisturbed
    <2>2. CallSafe(c) /\ DifferentNames(job[c].sources)
      BY <1>1 DEF CheckIInv
    <2>3. /\ stage[c] = "numbered" => nonce[c] \notin DOMAIN directory
          /\ stage[c] = "writing" => SoFar(directory[nonce[c]], c, written[c])
          /\ stage[c] = "done" => SoFar(checked[c], c, Len(Project(c)))
      BY <2>1, <2>2 DEF CallSafe
    <2>4. stage[c] = "writing" => nonce[c] \in DOMAIN directory
      BY DEF CheckIInv, CheckTypeOK
    <2>5. nonce[c] # nonce[d] \/ directory' = directory
      BY <1>4, <2>1, NobodyHasItsNumber
    <2>6. /\ nonce[c] \in DOMAIN directory' <=> nonce[c] \in DOMAIN directory
          /\ nonce[c] \in DOMAIN directory => directory'[nonce[c]] = directory[nonce[c]]
      BY <2>5
    <2> QED
      BY <1>1, <1>2, <2>3, <2>4, <2>6 DEF SoFar
  <1> QED
    BY <1>3, <1>4

(* The directories and numbers of the calls, whichever of them, d, takes a step. *)
LEMMA NumbersKeep ==
    ASSUME CheckIInv, NEW d \in Calls, OtherCalls(d), stage[d] # "ready", nonce'[d] = nonce[d], counter' = counter,
           stage'[d] \notin {"ready", "numbered"}, stage'[d] = "writing" => written'[d] <= Len(Project(d)),
           \A n \in DOMAIN directory' : n \in DOMAIN directory \/ n = nonce[d]
    PROVE  NumbersOK'
  <1>1. /\ job' = job /\ left' = left
        /\ \A c \in Calls : nonce'[c] = nonce[c] /\ (stage'[c] = "ready" <=> stage[c] = "ready")
    BY DEF OtherCalls
  <1>2. Counted' /\ OneEach'
    BY <1>1 DEF CheckIInv, NumbersOK, Counted, OneEach
  <1>3. DirectoriesOK'
    <2> SUFFICES ASSUME NEW n \in DOMAIN directory'
                 PROVE  n \in left' \/ \E e \in Calls : nonce'[e] = n /\ stage'[e] \notin {"ready", "numbered"}
      BY DEF DirectoriesOK
    <2>1. CASE n \in DOMAIN directory
      <3>1. n \in left \/ \E e \in Calls : nonce[e] = n /\ stage[e] \notin {"ready", "numbered"}
        BY <2>1 DEF CheckIInv, NumbersOK, DirectoriesOK
      <3>2. ASSUME NEW e \in Calls, stage[e] \notin {"ready", "numbered"} PROVE stage'[e] \notin {"ready", "numbered"}
        BY <3>2, <1>1 DEF OtherCalls
      <3> QED
        BY <1>1, <3>1, <3>2
    <2>2. CASE n = nonce[d]
      BY <1>1, <2>2
    <2> QED
      BY <2>1, <2>2
  <1>4. \A c \in Calls : Project(c)' = Project(c)
    BY <1>1 DEF Project
  <1>5. WrittenOK'
    BY <1>4 DEF CheckIInv, NumbersOK, WrittenOK, OtherCalls
  <1> QED
    BY <1>2, <1>3, <1>5 DEF NumbersOK

(* One lemma per action. *)

LEMMA TakeNumberKeeps ==
    ASSUME CheckIInv, NEW d \in Calls, TakeNumber(d)
    PROVE  CheckIInv'
  <1> DEFINE p == job[d].process
  <1>1. /\ stage[d] = "ready" /\ stage' = [stage EXCEPT ![d] = "numbered"]
        /\ nonce' = [nonce EXCEPT ![d] = counter[p]]
        /\ counter' = [counter EXCEPT ![p] = counter[p] + 1]
        /\ UNCHANGED <<job, left, written, directory, checked, troubled, troubles>>
    BY DEF TakeNumber, Nonce
  <1>2. p \in Processes /\ counter[p] \in Nat
    BY DEF CheckIInv, CheckTypeOK, Jobs
  <1> HIDE DEF p
  <1>3. /\ nonce'[d] = counter[p] /\ stage'[d] = "numbered" /\ counter'[p] = counter[p] + 1
        /\ \A c \in Calls \ {d} : nonce'[c] = nonce[c] /\ stage'[c] = stage[c]
        /\ \A q \in Processes \ {p} : counter'[q] = counter[q]
    BY <1>1, <1>2 DEF CheckIInv, CheckTypeOK
  <1>4. CheckTypeOK'
    <2>1. /\ counter' \in [Processes -> Nat] /\ nonce' \in [Calls -> Nat \cup {NoNumber}]
          /\ stage' \in [Calls -> {"ready", "numbered", "writing", "threw", "done"}]
      BY <1>1, <1>2 DEF CheckIInv, CheckTypeOK
    <2>2. \A c \in Calls : /\ stage'[c] = "ready" <=> nonce'[c] = NoNumber
                           /\ stage'[c] = "writing" => nonce'[c] \in DOMAIN directory'
      BY <1>1, <1>2, <1>3, NumberAssumption DEF CheckIInv, CheckTypeOK
    <2> QED
      BY <1>1, <2>1, <2>2 DEF CheckIInv, CheckTypeOK
  <1>5. OtherCalls(d)
    BY <1>1, <1>3 DEF OtherCalls
  <1>6. \A c \in Calls : stage[c] # "ready" => nonce[c] \in Nat /\ nonce[c] < counter[job[c].process]
                                               /\ job[c].process \in Processes
    BY DEF CheckIInv, CheckTypeOK, NumbersOK, Counted, Jobs
  <1>7. NumbersOK'
    <2>1. ASSUME NEW c \in Calls, stage'[c] # "ready" PROVE nonce'[c] < counter'[job'[c].process]
      <3>1. CASE c = d
        BY <1>1, <1>2, <1>3, <3>1 DEF p
      <3>2. CASE c # d
        <4>1. nonce'[c] = nonce[c] /\ nonce[c] < counter[job[c].process] /\ nonce[c] \in Nat
          BY <1>3, <1>6, <2>1, <3>2
        <4>2. counter'[job[c].process] = counter[job[c].process] \/ (job[c].process = p /\ counter'[p] = counter[p] + 1)
          BY <1>3, <1>6, <2>1, <3>2
        <4> QED
          BY <1>1, <1>2, <4>1, <4>2
      <3> QED
        BY <3>1, <3>2
    <2>2. ASSUME NEW c \in Calls, NEW e \in Calls, c # e, job'[c].process = job'[e].process,
                 stage'[c] # "ready", stage'[e] # "ready"
          PROVE  nonce'[c] # nonce'[e]
      <3>1. CASE c # d /\ e # d
        BY <1>1, <1>3, <2>2, <3>1 DEF CheckIInv, NumbersOK, OneEach
      <3>2. ASSUME NEW x \in Calls, x # d, stage[x] # "ready", job[x].process = p PROVE nonce[x] # counter[p]
        BY <1>2, <1>6, <3>2
      <3>3. CASE c = d
        BY <1>1, <1>3, <2>2, <3>2, <3>3 DEF p
      <3>4. CASE e = d
        BY <1>1, <1>3, <2>2, <3>2, <3>4 DEF p
      <3> QED
        BY <3>1, <3>3, <3>4
    <2>3. DirectoriesOK'
      BY <1>1, <1>3 DEF CheckIInv, NumbersOK, DirectoriesOK
    <2>4. WrittenOK'
      BY <1>1, <1>3 DEF CheckIInv, NumbersOK, WrittenOK, Project
    <2> QED
      BY <2>1, <2>2, <2>3, <2>4 DEF NumbersOK, Counted, OneEach
  <1>8. \A c \in Calls \ {d} : CallSafe(c)'
    <2>1. nonce[d] = NoNumber
      BY <1>1 DEF CheckIInv, CheckTypeOK
    <2> QED
      BY <1>1, <1>5, <2>1, OthersSafe
  <1>9. CallSafe(d)'
    <2> SUFFICES ASSUME Undisturbed(d)' PROVE nonce'[d] \notin DOMAIN directory'
      BY <1>3 DEF CallSafe
    <2>1. nonce'[d] \notin left
      BY <1>1 DEF Undisturbed
    <2>2. SUFFICES ASSUME NEW e \in Calls, nonce[e] = nonce'[d], stage[e] \notin {"ready", "numbered"} PROVE FALSE
      BY <1>1, <2>1 DEF CheckIInv, NumbersOK, DirectoriesOK
    <2>3. e # d /\ nonce'[e] = nonce'[d] /\ stage'[e] # "ready" /\ stage'[d] # "ready"
      BY <1>1, <1>3, <2>2
    <2>4. job'[e].process = job'[d].process
      BY <2>3 DEF Undisturbed, Collides
    <2> QED
      BY <1>7, <2>3, <2>4 DEF NumbersOK, OneEach
  <1> QED
    BY <1>4, <1>7, <1>8, <1>9 DEF CheckIInv

LEMMA CreateDirectoriesKeeps ==
    ASSUME CheckIInv, NEW d \in Calls, CreateDirectories(d)
    PROVE  CheckIInv'
  <1>1. /\ stage[d] = "numbered"
        /\ UNCHANGED <<job, left, counter, nonce, written, checked, troubled, troubles>>
    BY DEF CreateDirectories
  <1>2. PICK s \in {"writing", "threw"} : stage' = [stage EXCEPT ![d] = s]
    BY DEF CreateDirectories
  <1>3. stage'[d] = s /\ \A c \in Calls \ {d} : stage'[c] = stage[c]
    BY <1>2 DEF CheckIInv, CheckTypeOK
  <1>4. /\ \A n \in DOMAIN directory : n \in DOMAIN directory' /\ directory'[n] = directory[n]
        /\ \A n \in DOMAIN directory' : n \in DOMAIN directory \/ n = nonce[d]
        /\ s = "writing" => nonce[d] \in DOMAIN directory'
        /\ s = "writing" /\ nonce[d] \notin DOMAIN directory => directory'[nonce[d]] = NoFiles
    <2>1. directory' = Made(d) \/ (s = "threw" /\ directory' = directory)
      BY <1>2, <1>3 DEF CreateDirectories, CheckIInv, CheckTypeOK
    <2>2. CASE directory' = Made(d)
      BY <2>2 DEF Made
    <2>3. CASE s = "threw" /\ directory' = directory
      BY <2>3
    <2> QED
      BY <2>1, <2>2, <2>3
  <1>5. OtherCalls(d)
    BY <1>1, <1>3 DEF OtherCalls
  <1>6. CheckTypeOK'
    <2>1. stage' \in [Calls -> {"ready", "numbered", "writing", "threw", "done"}]
      BY <1>2 DEF CheckIInv, CheckTypeOK
    <2>2. \A c \in Calls : /\ stage'[c] = "ready" <=> nonce'[c] = NoNumber
                           /\ stage'[c] = "writing" => nonce'[c] \in DOMAIN directory'
      BY <1>1, <1>3, <1>4 DEF CheckIInv, CheckTypeOK
    <2> QED
      BY <1>1, <2>1, <2>2 DEF CheckIInv, CheckTypeOK
  <1>7. written[d] \in Nat /\ Len(Project(d)) \in Nat
    BY ProjectFiles DEF CheckIInv, CheckTypeOK
  <1>8. written[d] = 0 /\ nonce[d] \in Nat
    BY <1>1 DEF CheckIInv, CheckTypeOK, NumbersOK, WrittenOK
  <1>9. NumbersOK'
    <2>1. nonce'[d] = nonce[d] /\ counter' = counter /\ written'[d] <= Len(Project(d))
      BY <1>1, <1>7, <1>8
    <2>2. stage[d] # "ready" /\ stage'[d] \notin {"ready", "numbered"}
      BY <1>1, <1>3
    <2> QED
      BY <1>4, <1>5, <2>1, <2>2, NumbersKeep
  <1>10. \A c \in Calls \ {d} : CallSafe(c)'
    <2>1. \A n : n # nonce[d] => /\ n \in DOMAIN directory' <=> n \in DOMAIN directory
                                 /\ n \in DOMAIN directory => directory'[n] = directory[n]
      BY <1>4
    <2> QED
      BY <1>1, <1>5, <2>1, OthersSafe
  <1>11. CallSafe(d)'
    <2> SUFFICES ASSUME Undisturbed(d)', DifferentNames(job[d].sources)', stage'[d] = "writing"
                 PROVE  SoFar(directory[nonce[d]], d, written[d])'
      BY <1>3 DEF CallSafe
    <2>1. Undisturbed(d) /\ DifferentNames(job[d].sources)
      BY <1>1 DEF Undisturbed, Collides
    <2>2. directory'[nonce[d]] = NoFiles
      BY <1>1, <1>3, <1>4, <2>1 DEF CheckIInv, CallSafe
    <2>3. directory'[nonce'[d]] = NoFiles /\ written'[d] = 0
      BY <1>1, <1>8, <2>2
    <2>4. DOMAIN NoFiles = {} /\ 1 .. 0 = {}
      BY DEF NoFiles
    <2> QED
      BY <2>3, <2>4 DEF SoFar
  <1> QED
    BY <1>6, <1>9, <1>10, <1>11 DEF CheckIInv

(* Writing one file: of the others only the count of troubles can change. *)
LEMMA WritingKeeps ==
    ASSUME CheckIInv, NEW d \in Calls, stage[d] = "writing", written[d] < Len(Project(d)),
           written' = [written EXCEPT ![d] = written[d] + 1],
           UNCHANGED <<job, left, counter, nonce, stage, checked>>,
           troubled \subseteq troubled', troubled' \subseteq Calls, troubles' \in 0 .. MaxTroubles,
           \/ directory' = directory
           \/ \E files : directory' = [directory EXCEPT ![nonce[d]] = files],
           CallSafe(d)'
    PROVE  CheckIInv'
  <1>1. nonce[d] \in DOMAIN directory
    BY DEF CheckIInv, CheckTypeOK
  <1>2. DOMAIN directory' = DOMAIN directory /\ \A n \in DOMAIN directory : n # nonce[d] => directory'[n] = directory[n]
    BY <1>1
  <1>3. written[d] \in Nat /\ Len(Project(d)) \in Nat
    BY ProjectFiles DEF CheckIInv, CheckTypeOK
  <1>4. written'[d] = written[d] + 1 /\ written' \in [Calls -> Nat]
        /\ \A c \in Calls \ {d} : written'[c] = written[c]
    BY <1>3 DEF CheckIInv, CheckTypeOK
  <1>5. OtherCalls(d)
    BY <1>4 DEF OtherCalls
  <1>6. CheckTypeOK'
    BY <1>2, <1>4 DEF CheckIInv, CheckTypeOK
  <1>7. NumbersOK'
    <2>1. written'[d] <= Len(Project(d))
      BY <1>3, <1>4
    <2> QED
      BY <1>2, <1>5, <2>1, NumbersKeep
  <1>8. \A c \in Calls \ {d} : CallSafe(c)'
    <2>1. \A n : n # nonce[d] => /\ n \in DOMAIN directory' <=> n \in DOMAIN directory
                                 /\ n \in DOMAIN directory => directory'[n] = directory[n]
      BY <1>2
    <2> QED
      BY <1>5, <2>1, OthersSafe
  <1> QED
    BY <1>6, <1>7, <1>8 DEF CheckIInv

LEMMA WriteFileKeeps ==
    ASSUME CheckIInv, NEW d \in Calls, WriteFile(d)
    PROVE  CheckIInv'
  <1>1. /\ stage[d] = "writing" /\ written[d] < Len(Project(d))
        /\ written' = [written EXCEPT ![d] = written[d] + 1]
        /\ directory' = [directory EXCEPT ![nonce[d]] = write_file(directory[nonce[d]], File(d).path, File(d).body)]
        /\ UNCHANGED <<job, left, counter, nonce, stage, checked, troubled, troubles>>
    BY DEF WriteFile
  <1>2. CallSafe(d)'
    <2> SUFFICES ASSUME Undisturbed(d)', DifferentNames(job[d].sources)'
                 PROVE  SoFar(directory[nonce[d]], d, written[d])'
      BY <1>1 DEF CallSafe
    <2>1. Undisturbed(d) /\ DifferentNames(job[d].sources)
      BY <1>1 DEF Undisturbed, Collides
    <2>2. SoFar(directory[nonce[d]], d, written[d])
      BY <1>1, <2>1 DEF CheckIInv, CallSafe
    <2>3. written[d] \in Nat /\ nonce[d] \in DOMAIN directory /\ written'[d] = written[d] + 1
      BY <1>1 DEF CheckIInv, CheckTypeOK
    <2>4. CheckTypeOK
      BY DEF CheckIInv
    <2>5. SoFar(write_file(directory[nonce[d]], File(d).path, File(d).body), d, written[d] + 1)
      BY <1>1, <2>1, <2>2, <2>3, <2>4, OneMore DEF File
    <2>6. directory'[nonce'[d]] = write_file(directory[nonce[d]], File(d).path, File(d).body)
      BY <1>1, <2>3
    <2>7. Project(d)' = Project(d)
      BY <1>1 DEF Project
    <2> QED
      BY <2>3, <2>5, <2>6, <2>7 DEF SoFar
  <1>3. troubled \subseteq troubled' /\ troubled' \subseteq Calls /\ troubles' \in 0 .. MaxTroubles
    BY <1>1 DEF CheckIInv, CheckTypeOK
  <1> QED
    BY <1>1, <1>2, <1>3, WritingKeeps

LEMMA FailToWriteKeeps ==
    ASSUME CheckIInv, NEW d \in Calls, FailToWrite(d)
    PROVE  CheckIInv'
  <1>1. /\ stage[d] = "writing" /\ written[d] < Len(Project(d))
        /\ troubles < MaxTroubles /\ troubles' = troubles + 1 /\ troubled' = troubled \cup {d}
        /\ written' = [written EXCEPT ![d] = written[d] + 1]
        /\ UNCHANGED <<job, left, counter, nonce, stage, checked>>
    BY DEF FailToWrite
  <1>2. \/ directory' = directory
        \/ \E files : directory' = [directory EXCEPT ![nonce[d]] = files]
    BY DEF FailToWrite
  <1>3. troubled \subseteq troubled' /\ troubled' \subseteq Calls /\ troubles' \in 0 .. MaxTroubles
    BY <1>1, TroubleAssumption DEF CheckIInv, CheckTypeOK
  <1>4. CallSafe(d)'
    BY <1>1 DEF CallSafe, Undisturbed
  <1> QED
    BY <1>1, <1>2, <1>3, <1>4, WritingKeeps

LEMMA RunCheckKeeps ==
    ASSUME CheckIInv, NEW d \in Calls, RunCheck(d)
    PROVE  CheckIInv'
  <1>1. /\ stage[d] = "writing" /\ written[d] = Len(Project(d))
        /\ stage' = [stage EXCEPT ![d] = "done"]
        /\ checked' = [checked EXCEPT ![d] = directory[nonce[d]]]
        /\ UNCHANGED <<job, left, counter, nonce, written, directory, troubled, troubles>>
    BY DEF RunCheck
  <1>2. /\ stage'[d] = "done" /\ checked'[d] = directory[nonce[d]] /\ DOMAIN checked' = Calls
        /\ \A c \in Calls \ {d} : stage'[c] = stage[c] /\ checked'[c] = checked[c]
    BY <1>1 DEF CheckIInv, CheckTypeOK
  <1>3. OtherCalls(d)
    BY <1>1, <1>2 DEF OtherCalls
  <1>4. CheckTypeOK'
    <2>1. stage' \in [Calls -> {"ready", "numbered", "writing", "threw", "done"}]
      BY <1>1 DEF CheckIInv, CheckTypeOK
    <2>2. \A c \in Calls : /\ stage'[c] = "ready" <=> nonce'[c] = NoNumber
                           /\ stage'[c] = "writing" => nonce'[c] \in DOMAIN directory'
      BY <1>1, <1>2 DEF CheckIInv, CheckTypeOK
    <2> QED
      BY <1>1, <1>2, <2>1, <2>2 DEF CheckIInv, CheckTypeOK
  <1>5. NumbersOK'
    BY <1>1, <1>2, <1>3, NumbersKeep
  <1>6. \A c \in Calls \ {d} : CallSafe(c)'
    BY <1>1, <1>3, OthersSafe
  <1>7. CallSafe(d)'
    <2> SUFFICES ASSUME Undisturbed(d)', DifferentNames(job[d].sources)'
                 PROVE  SoFar(checked[d], d, Len(Project(d)))'
      BY <1>2 DEF CallSafe
    <2>1. Undisturbed(d) /\ DifferentNames(job[d].sources)
      BY <1>1 DEF Undisturbed, Collides
    <2>2. SoFar(directory[nonce[d]], d, Len(Project(d)))
      BY <1>1, <2>1 DEF CheckIInv, CallSafe
    <2>3. Project(d)' = Project(d)
      BY <1>1 DEF Project
    <2> QED
      BY <1>2, <2>2, <2>3 DEF SoFar
  <1> QED
    BY <1>4, <1>5, <1>6, <1>7 DEF CheckIInv

LEMMA CheckStarts == CheckInit => CheckIInv
  <1> SUFFICES ASSUME CheckInit PROVE CheckIInv
    OBVIOUS
  <1>1. \A c \in Calls : stage[c] = "ready" /\ nonce[c] = NoNumber /\ written[c] = 0
    BY DEF CheckInit
  <1>2. CheckTypeOK
    BY <1>1, LeftoverAssumption, TroubleAssumption DEF CheckInit, CheckTypeOK
  <1>3. NumbersOK
    BY <1>1 DEF CheckInit, NumbersOK, Counted, OneEach, DirectoriesOK, WrittenOK
  <1>4. \A c \in Calls : CallSafe(c)
    BY <1>1 DEF CallSafe
  <1> QED
    BY <1>2, <1>3, <1>4 DEF CheckIInv

LEMMA CheckSteps == CheckIInv /\ [CheckNext]_checkVars => CheckIInv'
  <1> SUFFICES ASSUME CheckIInv, [CheckNext]_checkVars PROVE CheckIInv'
    OBVIOUS
  <1>1. CASE UNCHANGED checkVars
    <2>1. UNCHANGED <<job, left, counter, nonce, stage, written, directory, checked, troubled, troubles>>
      BY <1>1 DEF checkVars
    <2>2. CheckTypeOK'
      BY <2>1 DEF CheckIInv, CheckTypeOK
    <2>3. NumbersOK'
      BY <2>1 DEF CheckIInv, NumbersOK, Counted, OneEach, DirectoriesOK, WrittenOK, Project
    <2>4. ASSUME NEW c \in Calls PROVE CallSafe(c)'
      <3>1. Project(c)' = Project(c)
        BY <2>1 DEF Project
      <3>2. Undisturbed(c)' <=> Undisturbed(c)
        BY <2>1 DEF Undisturbed, Collides
      <3>3. CallSafe(c)
        BY DEF CheckIInv
      <3> QED
        BY <2>1, <3>1, <3>2, <3>3 DEF CallSafe, SoFar
    <2> QED
      BY <2>2, <2>3, <2>4 DEF CheckIInv
  <1>2. ASSUME NEW c \in Calls,
               TakeNumber(c) \/ CreateDirectories(c) \/ WriteFile(c) \/ FailToWrite(c) \/ RunCheck(c)
        PROVE  CheckIInv'
    BY <1>2, TakeNumberKeeps, CreateDirectoriesKeeps, WriteFileKeeps, FailToWriteKeeps, RunCheckKeeps
  <1> QED
    BY <1>1, <1>2 DEF CheckNext

LEMMA CheckInvariant == CheckSpec => []CheckIInv
  BY CheckStarts, CheckSteps, PTL DEF CheckSpec

(* Numbers, directories and stages of any number of calls keep their types. *)
THEOREM CheckTypeCorrect == CheckSpec => []CheckTypeOK
  <1>1. CheckIInv => CheckTypeOK
    BY DEF CheckIInv
  <1> QED
    BY <1>1, CheckInvariant, PTL

(* app_check.h:56-108: topo-check reads the graph and all sources of the call    *)
(* and nothing else, unless another process has its number, the directory was    *)
(* there, two sources share a basename, or a read or a write failed.             *)
THEOREM OwnProject == CheckSpec => []ChecksItsOwnProject
  <1>1. ASSUME CheckIInv PROVE ChecksItsOwnProject
    <2> SUFFICES ASSUME NEW c \in Calls, stage[c] = "done", Undisturbed(c), DifferentNames(job[c].sources)
                 PROVE  /\ DOMAIN checked[c] = PathsOf(c)
                        /\ \A i \in DOMAIN Project(c) : checked[c][Project(c)[i].path] = Project(c)[i].body
      BY DEF ChecksItsOwnProject
    <2>1. SoFar(checked[c], c, Len(Project(c)))
      BY <1>1 DEF CheckIInv, CallSafe
    <2>2. DOMAIN Project(c) = 1 .. Len(Project(c))
      BY <1>1, ProjectFiles DEF CheckIInv
    <2> QED
      BY <2>1, <2>2 DEF SoFar, PathsOf
  <1> QED
    BY <1>1, CheckInvariant, PTL
================================================================================
