-------------------------- MODULE SelectionProofs ---------------------------
(***************************************************************************)
(* Proofs about Selection.  IInv is the inductive invariant.  Dialogue     *)
(* says for each stage of xcout what has been read, what is in the         *)
(* property, which events wait and what the owner is still going to write: *)
(* together always the contents of one offer for one target.  Purpose says *)
(* what a call of doOut was made for, and which offer the request relies   *)
(* on.  Named says how the list and what is sent follow from the contents. *)
(*                                                                         *)
(* RecurseDir is a recursive function: that it exists, and that it gives   *)
(* files and directories of the tree, is by induction over the levels, in  *)
(* the form of SetInduction.                                               *)
(*                                                                         *)
(* The second half is about what is sent of a list of files.  LevelFiles   *)
(* is the same induction for which files RecurseDir finds, Collected the   *)
(* loop invariant over the entries, and Transferred says that what is sent *)
(* is the beginning of the list.                                           *)
(***************************************************************************)
EXTENDS Selection, FiniteSetTheorems, SequenceTheorems, WellFoundedInduction, TLAPS

-----------------------------------------------------------------------------
(* The invariant *)

\* What is still to be written after n pieces: one by one, and the end.
Rest(o, t, n) ==
    LET size == Len(Contents(o, t))
    IN  [k \in 1 .. size - n + 1 |-> IF k <= size - n THEN <<Contents(o, t)[n + k]>> ELSE <<>>]

\* The program that was asked has the target.
Given == asked # 0 /\ target \in offers[asked].targets \cup {"TARGETS"}

Data(d) == [kind |-> "data", data |-> d]

Waiting ==
    /\ buf = <<>>
    /\ \/ events \in {<<>>, <<"refused">>} /\ serving = <<>> /\ pty = Nothing
       \/ /\ events \in {<<"new", "notify">>, <<"notify">>} /\ Given
          /\ \/ pty = Data(Contents(asked, target)) /\ serving = <<>>
             \/ pty = [kind |-> "incr", data |-> <<>>] /\ serving = Rest(asked, target, 0)

InChunks ==
    /\ Given
    /\ \E n \in 0 .. Len(Contents(asked, target)) :
         /\ buf = SubSeq(Contents(asked, target), 1, n)
         /\ \/ /\ events \in {<<>>, <<"deleted">>}
               /\ pty = Nothing /\ serving = Rest(asked, target, n)
            \/ /\ events \in {<<"new">>, <<"deleted", "new">>}
               /\ \/ /\ n < Len(Contents(asked, target))
                     /\ pty = Data(<<Contents(asked, target)[n + 1]>>) /\ serving = Rest(asked, target, n + 1)
                  \/ /\ n = Len(Contents(asked, target))
                     /\ pty = Data(<<>>) /\ serving = <<>>

Dialogue ==
    /\ context = "SENTCONVSEL" => Waiting
    /\ context = "INCR" => InChunks
    /\ context = "READ" => Given /\ buf = Contents(asked, target)
    /\ context \in {"NONE", "READ", "FAILED"} => serving = <<>>

\* The list is made and sent of contents that were read completely.
Used == pc \in {"list", "announce", "transfer"} \/ (pc = "done" /\ response # "NO_DATA")

Purpose ==
    /\ pc # "done" => response = "none"
    /\ pc = "connect" => context = "NONE"
    /\ pc \in {"type", "retype"} /\ context # "NONE" => target = "TARGETS"
    /\ pc = "data" \/ Used =>
          /\ context # "NONE" /\ setup.wanted = "FILE" => target = FILES
    /\ pc \in {"connect", "retype", "data"} \/ Used =>
          typed # 0 /\ TypeOf(offers[typed].targets) = setup.wanted
    /\ (pc \in {"retype", "data"} /\ context # "NONE") \/ Used => asked = 0 \/ asked >= typed
    /\ Used => context = "READ" /\ buf # <<>>
    /\ pc \in {"list", "announce", "transfer"} => setup.wanted = "FILE"

Items == [path : DOMAIN Tree, dir : BOOLEAN]

\* The files are listed once their names have been read, and sent once they are
\* listed; the directory of the first is what path_len counts.
SentFiles == {[name |-> NameOf(s.path), path |-> s.path, dir |-> s.dir] : s \in Items}

Named ==
    /\ pc \notin {"list", "announce", "transfer", "done"} => i = 1 /\ lst = <<>>
    /\ pc \notin {"transfer", "done"} => sent = <<>>
    /\ pc \in {"announce", "transfer"} => lst # <<>>
    /\ i = 1 => lst = <<>>
    /\ i > 1 => /\ context = "READ"
                /\ setup.version > 1 => entries # <<>> /\ path_len = Len(entries[1].path) - 1
    /\ setup.wanted = "FILE" =>
          sent \in Seq(SentFiles) /\ (sent # <<>> => Used /\ lst # <<>>)

IInv == TypeOK /\ Dialogue /\ Purpose /\ Named

-----------------------------------------------------------------------------
(* What is written in chunks *)

LEMMA OffersType ==
  ASSUME setup \in Setups
  PROVE  /\ setup.wanted \in {"TEXT", "FILE"} /\ setup.version \in 1 .. 4
         /\ setup.auto \in BOOLEAN /\ setup.removes \in BOOLEAN
         /\ offers \in Seq(Offer) /\ Len(offers) \in Nat \ {0} /\ DOMAIN offers = 1 .. Len(offers)
         /\ \A o \in DOMAIN offers : /\ offers[o] \in Offer
                                     /\ offers[o].text \in Nat /\ offers[o].files \in Seq(FileEntry)
                                     /\ offers[o].large \in BOOLEAN /\ offers[o].targets \subseteq STRING
<1>1. setup \in [wanted : {"TEXT", "FILE"}, version : 1 .. 4, auto : BOOLEAN,
                 removes : BOOLEAN, offers : Seq(Offer) \ {<<>>}]
  BY SetupsAssumption
<1>2. offers \in Seq(Offer) /\ offers # <<>>
  BY <1>1 DEF offers
<1>3. Len(offers) \in Nat \ {0} /\ DOMAIN offers = 1 .. Len(offers)
  BY <1>2
<1>4. ASSUME NEW o \in DOMAIN offers
      PROVE  /\ offers[o] \in Offer
             /\ offers[o].text \in Nat /\ offers[o].files \in Seq(FileEntry)
             /\ offers[o].large \in BOOLEAN /\ offers[o].targets \subseteq STRING
  <2>1. offers[o] \in Offer
    BY <1>2
  <2> QED
    BY <2>1 DEF Offer
<1> QED
  BY <1>1, <1>2, <1>3, <1>4

LEMMA ContentsType ==
  ASSUME setup \in Setups, NEW o \in DOMAIN offers, NEW t
  PROVE  /\ Len(Contents(o, t)) \in Nat
         /\ Contents(o, t) = [k \in 1 .. Len(Contents(o, t)) |-> <<o, t, k>>]
         /\ DOMAIN Contents(o, t) = 1 .. Len(Contents(o, t))
         /\ Contents(o, t) \in Seq({o} \X {t} \X Nat)
         /\ t = FILES => Len(Contents(o, t)) = 1 + Len(offers[o].files)
<1> DEFINE size == CASE t = "TARGETS" -> 1
                     [] t = FILES     -> 1 + Len(offers[o].files)
                     [] OTHER         -> offers[o].text
<1>1. size \in Nat /\ (t = FILES => size = 1 + Len(offers[o].files))
  BY OffersType DEF FILES
<1>2. Contents(o, t) = [k \in 1 .. size |-> <<o, t, k>>]
  BY DEF Contents
<1> HIDE DEF size
<1>3. Len(Contents(o, t)) = size
  BY <1>1, <1>2
<1>4. Contents(o, t) \in Seq({o} \X {t} \X Nat)
  BY <1>1, <1>2
<1> QED
  BY <1>1, <1>2, <1>3, <1>4

LEMMA RestType ==
  ASSUME setup \in Setups, NEW o \in DOMAIN offers, NEW t, NEW n \in 0 .. Len(Contents(o, t))
  PROVE  LET C == Contents(o, t)
             R == Rest(o, t, n)
         IN  /\ R \in Seq(Seq({o} \X {t} \X Nat)) /\ Len(R) = Len(C) - n + 1
             /\ \A k \in 1 .. Len(C) - n : R[k] = <<C[n + k]>>
             /\ R[Len(C) - n + 1] = <<>>
<1> DEFINE C == Contents(o, t)
           size == Len(C)
           S == {o} \X {t} \X Nat
           m == size - n + 1
           e == [k \in 1 .. m |-> IF k <= size - n THEN <<C[n + k]>> ELSE <<>>]
<1>1. size \in Nat /\ C \in Seq(S) /\ n \in 0 .. size
  BY ContentsType
<1>2. \A k \in 1 .. size : C[k] \in S
  BY <1>1
<1>3. Rest(o, t, n) = e
  BY DEF Rest
<1> HIDE DEF C, size, S
<1>4. m \in Nat /\ m = size - n + 1
  BY <1>1
<1>5. ASSUME NEW k \in 1 .. m, k <= size - n PROVE e[k] = <<C[n + k]>> /\ e[k] \in Seq(S)
  <2>1. C[n + k] \in S
    BY <1>1, <1>2, <1>5
  <2> QED
    BY <1>5, <2>1
<1>6. ASSUME NEW k \in 1 .. m, k > size - n PROVE e[k] = <<>> /\ e[k] \in Seq(S)
  BY <1>1, <1>6
<1>7. DOMAIN e = 1 .. m /\ e = [k \in 1 .. m |-> e[k]]
  OBVIOUS
<1> HIDE DEF e, m
<1>8. \A k \in 1 .. m : e[k] \in Seq(S)
  BY <1>1, <1>4, <1>5, <1>6
<1>9. e \in [1 .. m -> Seq(S)]
  BY <1>7, <1>8
<1>10. e \in Seq(Seq(S)) /\ Len(e) = m
  BY <1>4, <1>9, SeqDef
<1>11. \A k \in 1 .. size - n : e[k] = <<C[n + k]>>
  BY <1>1, <1>4, <1>5
<1>12. e[m] = <<>>
  BY <1>1, <1>4, <1>6
<1> QED
  BY <1>3, <1>4, <1>10, <1>11, <1>12 DEF S, C, size

LEMMA RestSteps ==
  ASSUME setup \in Setups, NEW o \in DOMAIN offers, NEW t, NEW n \in 0 .. Len(Contents(o, t))
  PROVE  LET C == Contents(o, t)
             R == Rest(o, t, n)
         IN  /\ R # <<>>
             /\ n < Len(C) => Head(R) = <<C[n + 1]>> /\ Tail(R) = Rest(o, t, n + 1)
             /\ n = Len(C) => Head(R) = <<>> /\ Tail(R) = <<>>
             /\ n < Len(C) => SubSeq(C, 1, n) \o <<C[n + 1]>> = SubSeq(C, 1, n + 1)
             /\ SubSeq(C, 1, Len(C)) = C /\ SubSeq(C, 1, 0) = <<>>
<1> DEFINE C == Contents(o, t)
           R == Rest(o, t, n)
           size == Len(C)
           S == {o} \X {t} \X Nat
<1>1. size \in Nat /\ C \in Seq(S) /\ n \in 0 .. size
  BY ContentsType
<1>2. /\ R \in Seq(Seq(S)) /\ Len(R) = size - n + 1
      /\ \A k \in 1 .. size - n : R[k] = <<C[n + k]>>
      /\ R[size - n + 1] = <<>>
  BY RestType
<1>3. size \in Nat /\ n \in Nat /\ n <= size
  BY <1>1
<1>4. \A k \in 1 .. size - n : R[k] = <<C[n + k]>>
  BY <1>2
<1>5. /\ R # <<>> /\ Head(R) = R[1]
      /\ Tail(R) \in Seq(Seq(S)) /\ Len(Tail(R)) = size - n
      /\ \A k \in 1 .. size - n : Tail(R)[k] = R[k + 1]
  <2> HIDE DEF C, size, R, S
  <2>1. R # <<>> /\ Head(R) = R[1]
    BY <1>2, <1>3
  <2> QED
    BY <1>2, <1>3, <2>1, HeadTailProperties
<1>6. n < size => Head(R) = <<C[n + 1]>>
  <2> HIDE DEF C, size, R, S
  <2>1. n < size => 1 \in 1 .. size - n
    BY <1>3
  <2> QED
    BY <1>4, <1>5, <2>1
<1>7. n = size => Head(R) = <<>> /\ Tail(R) = <<>>
  <2> HIDE DEF C, size, R, S
  <2>1. n = size => size - n + 1 = 1 /\ Len(Tail(R)) = 0
    BY <1>3, <1>5
  <2>2. R[size - n + 1] = <<>>
    BY <1>2
  <2> QED
    BY <1>5, <2>1, <2>2, EmptySeq
<1>8. ASSUME n < size PROVE Tail(R) = Rest(o, t, n + 1)
  <2> DEFINE T == Rest(o, t, n + 1)
             l == n + 1
  <2>1. l \in 0 .. Len(Contents(o, t))
    BY <1>3, <1>8
  <2>2. /\ T \in Seq(Seq(S)) /\ Len(T) = size - l + 1
        /\ \A k \in 1 .. size - l : T[k] = <<C[l + k]>>
        /\ T[size - l + 1] = <<>>
    BY <2>1, RestType
  <2> HIDE DEF C, size, R, S, T
  <2>3. Len(T) = size - n /\ size - l + 1 = size - n
    BY <1>3, <2>2
  <2>4. ASSUME NEW k \in 1 .. size - n PROVE Tail(R)[k] = T[k]
    <3>1. CASE k = size - n
      <4>1. k + 1 = size - n + 1
        BY <3>1
      <4>2. R[size - n + 1] = <<>> /\ T[size - n] = <<>>
        BY <1>2, <2>2, <2>3
      <4> QED
        BY <1>5, <3>1, <4>1, <4>2
    <3>2. CASE k # size - n
      <4>1. k + 1 \in 1 .. size - n /\ k \in 1 .. size - l /\ n + (k + 1) = l + k
        BY <1>3, <3>2
      <4>2. R[k + 1] = <<C[n + (k + 1)]>>
        BY <1>4, <4>1
      <4>3. T[k] = <<C[l + k]>>
        BY <2>2, <4>1
      <4> QED
        BY <1>5, <4>1, <4>2, <4>3
    <3> QED
      BY <3>1, <3>2
  <2>5. T \in Seq(Seq(S))
    BY <2>2
  <2>6. Tail(R) = T
    BY <1>5, <2>3, <2>4, <2>5, SeqEqual
  <2> QED
    BY <2>6 DEF T
<1>9. n < size => SubSeq(C, 1, n) \o <<C[n + 1]>> = SubSeq(C, 1, n + 1)
  <2> HIDE DEF C, S
  <2> QED
    BY <1>1, <1>3
<1>10. SubSeq(C, 1, Len(C)) = C /\ SubSeq(C, 1, 0) = <<>>
  <2> HIDE DEF C, S
  <2> QED
    BY <1>1, <1>3
<1> QED
  BY <1>5, <1>6, <1>7, <1>8, <1>9, <1>10

\* The chunks a program that starts to answer is going to write.
LEMMA RestStart ==
  ASSUME setup \in Setups, NEW o \in DOMAIN offers, NEW t
  PROVE  [k \in 1 .. Len(Contents(o, t)) |-> <<Contents(o, t)[k]>>] \o << <<>> >> = Rest(o, t, 0)
<1> DEFINE C == Contents(o, t)
           size == Len(C)
           S == {o} \X {t} \X Nat
           W == [k \in 1 .. size |-> <<C[k]>>]
           R == Rest(o, t, 0)
<1>1. size \in Nat /\ C \in Seq(S) /\ 0 \in 0 .. size
  BY ContentsType
<1>2. /\ R \in Seq(Seq(S)) /\ Len(R) = size - 0 + 1
      /\ \A k \in 1 .. size - 0 : R[k] = <<C[0 + k]>>
      /\ R[size - 0 + 1] = <<>>
  BY <1>1, RestType
<1>3. \A k \in 1 .. size : C[k] \in S
  BY <1>1
<1> HIDE DEF C, size, S, R
<1>4. W \in [1 .. size -> Seq(S)]
  BY <1>3
<1>5. W \in Seq(Seq(S)) /\ Len(W) = size
  BY <1>1, <1>4, SeqDef
<1>6. \A k \in 1 .. size : W[k] = <<C[k]>>
  OBVIOUS
<1> HIDE DEF W
<1>7. << <<>> >> \in Seq(Seq(S)) /\ Len(<< <<>> >>) = 1
  OBVIOUS
<1>8. /\ W \o << <<>> >> \in Seq(Seq(S)) /\ Len(W \o << <<>> >>) = size + 1
      /\ \A k \in 1 .. size + 1 : (W \o << <<>> >>)[k] = IF k <= size THEN W[k] ELSE << <<>> >>[k - size]
  BY <1>5, <1>7, ConcatProperties
<1>9. ASSUME NEW k \in 1 .. size + 1 PROVE (W \o << <<>> >>)[k] = R[k]
  <2>1. CASE k <= size
    <3>1. k \in 1 .. size /\ k \in 1 .. size - 0 /\ 0 + k = k
      BY <1>1, <2>1
    <3>2. R[k] = <<C[0 + k]>>
      BY <1>2, <3>1
    <3> QED
      BY <1>6, <1>8, <2>1, <3>1, <3>2
  <2>2. CASE k = size + 1
    <3>1. k - size = 1 /\ ~(k <= size) /\ size - 0 + 1 = k
      BY <1>1, <2>2
    <3>2. R[k] = <<>>
      BY <1>2, <3>1
    <3> QED
      BY <1>8, <3>1, <3>2
  <2>3. k <= size \/ k = size + 1
    BY <1>1
  <2> QED
    BY <2>1, <2>2, <2>3
<1>10. Len(R) = size + 1
  BY <1>1, <1>2
<1>11. W \o << <<>> >> = R
  BY <1>2, <1>8, <1>9, <1>10, SeqEqual
<1> QED
  BY <1>11 DEF W, R, size, C

-----------------------------------------------------------------------------
(* The list of files *)

LEMMA LeastNumber ==
  ASSUME NEW T \in SUBSET Nat, T # {}
  PROVE  \E x \in T : \A y \in T : x <= y
<1> DEFINE Less == {s \in Nat \X Nat : s[1] < s[2]}
<1>1. IsWellFoundedOn(Less, Nat)
  BY NatLessThanWellFounded DEF OpToRel
<1>2. PICK x \in T : \A y \in T : ~(<<y, x>> \in Less)
  <2> HIDE DEF Less
  <2> QED
    BY <1>1, WFMin
<1>3. ASSUME NEW y \in T PROVE x <= y
  <2>1. <<y, x>> \in Nat \X Nat /\ <<y, x>> \notin Less
    BY <1>2
  <2>2. ~(<<y, x>>[1] < <<y, x>>[2])
    BY <2>1
  <2> QED
    BY <2>2
<1> QED
  BY <1>3

LEMMA SetInduction ==
  ASSUME NEW T, 0 \in T, \A n \in Nat : n \in T => n + 1 \in T
  PROVE  \A n \in Nat : n \in T
<1> SUFFICES ASSUME NEW m \in Nat, m \notin T PROVE FALSE
  OBVIOUS
<1> DEFINE B == {n \in Nat : n \notin T}
<1>1. PICK x \in B : \A y \in B : x <= y
  <2>1. B \in SUBSET Nat /\ B # {}
    OBVIOUS
  <2> QED
    BY <2>1, LeastNumber
<1>2. x # 0 /\ x - 1 \in Nat
  BY <1>1
<1>3. x - 1 \in T
  BY <1>1, <1>2
<1>4. x \in T
  BY <1>2, <1>3
<1> QED
  BY <1>1, <1>4

\* RecurseDir is defined by recursion over the levels.
LEMMA RecurseDirLevels ==
  RecurseDir = [levels \in 0 .. MAX_RECURSE_DEPTH |->
                  IF levels = 0 THEN [p \in DOMAIN Tree |-> {}] ELSE OneLevel(RecurseDir[levels - 1])]
<1> DEFINE zero == [p \in DOMAIN Tree |-> {}]
           Upto(n) == \E g : g = [k \in 0 .. n |-> IF k = 0 THEN zero ELSE OneLevel(g[k - 1])]
           T == {n \in Nat : Upto(n)}
<1>1. 0 \in T
  <2>1. [k \in 0 .. 0 |-> zero] = [k \in 0 .. 0 |-> IF k = 0 THEN zero ELSE OneLevel([j \in 0 .. 0 |-> zero][k - 1])]
    OBVIOUS
  <2> QED
    BY <2>1
<1>2. ASSUME NEW n \in Nat, n \in T PROVE n + 1 \in T
  <2>1. PICK g : g = [k \in 0 .. n |-> IF k = 0 THEN zero ELSE OneLevel(g[k - 1])]
    BY <1>2
  <2> DEFINE h == [k \in 0 .. n + 1 |-> IF k <= n THEN g[k] ELSE OneLevel(g[n])]
  <2>2. ASSUME NEW k \in 0 .. n + 1 PROVE h[k] = IF k = 0 THEN zero ELSE OneLevel(h[k - 1])
    <3>1. CASE k = 0
      BY <2>1, <3>1
    <3>2. CASE k \in 1 .. n
      <4>1. h[k] = g[k] /\ h[k - 1] = g[k - 1]
        BY <3>2
      <4>2. k \in 0 .. n /\ k # 0
        BY <3>2
      <4>3. g[k] = OneLevel(g[k - 1])
        BY <2>1, <4>2
      <4> QED
        BY <4>1, <4>2, <4>3
    <3>3. CASE k = n + 1
      <4>1. h[k] = OneLevel(g[n]) /\ h[k - 1] = g[n] /\ k # 0
        BY <3>3
      <4> QED
        BY <4>1
    <3> QED
      BY <3>1, <3>2, <3>3
  <2>3. h = [k \in 0 .. n + 1 |-> h[k]]
    OBVIOUS
  <2> HIDE DEF h
  <2>4. h = [k \in 0 .. n + 1 |-> IF k = 0 THEN zero ELSE OneLevel(h[k - 1])]
    BY <2>2, <2>3
  <2>5. Upto(n + 1)
    BY <2>4
  <2> QED
    BY <2>5
<1> HIDE DEF T
<1>3. MAX_RECURSE_DEPTH \in T
  BY <1>1, <1>2, SetInduction, LimitsAssumption
<1>4. Upto(MAX_RECURSE_DEPTH)
  BY <1>3 DEF T
<1> QED
  BY <1>4 DEF RecurseDir

LEMMA ItemsFinite == IsFiniteSet(Items)
<1> DEFINE Of(b) == {s \in Items : s.dir = b}
<1>1. ASSUME NEW b \in BOOLEAN PROVE IsFiniteSet(Of(b))
  <2> DEFINE f == [p \in DOMAIN Tree |-> [path |-> p, dir |-> b]]
  <2>1. f \in [DOMAIN Tree -> Of(b)]
    BY DEF Items
  <2>2. ASSUME NEW s \in Of(b) PROVE \E p \in DOMAIN Tree : f[p] = s
    <3>1. s.path \in DOMAIN Tree /\ s = [path |-> s.path, dir |-> b]
      BY DEF Items
    <3> QED
      BY <3>1
  <2>3. f \in Surjection(DOMAIN Tree, Of(b))
    BY <2>1, <2>2 DEF Surjection
  <2> QED
    BY <2>3, TreeAssumption, FS_Surjection
<1>2. Items = Of(TRUE) \cup Of(FALSE)
  BY DEF Items
<1> HIDE DEF Of
<1>3. IsFiniteSet(Of(TRUE)) /\ IsFiniteSet(Of(FALSE))
  BY <1>1
<1> QED
  BY <1>2, <1>3, FS_Union

LEMMA OneLevelType ==
  ASSUME NEW below \in [DOMAIN Tree -> SUBSET Items]
  PROVE  OneLevel(below) \in [DOMAIN Tree -> SUBSET Items]
<1>1. \A q \in DOMAIN Tree : File(q) \in Items /\ LeafDir(q) \in Items
  BY DEF File, LeafDir, Items
<1>2. \A p : Children(p) \subseteq DOMAIN Tree
  BY DEF Children
<1> QED
  BY <1>1, <1>2 DEF OneLevel

LEMMA RecurseDirType ==
  ASSUME NEW levels \in 0 .. MAX_RECURSE_DEPTH
  PROVE  RecurseDir[levels] \in [DOMAIN Tree -> SUBSET Items]
<1> DEFINE T == {n \in Nat : n <= MAX_RECURSE_DEPTH => RecurseDir[n] \in [DOMAIN Tree -> SUBSET Items]}
<1>0. MAX_RECURSE_DEPTH \in Nat
  BY LimitsAssumption
<1>1. 0 \in T
  <2>1. RecurseDir[0] = [p \in DOMAIN Tree |-> {}]
    BY <1>0, RecurseDirLevels
  <2> QED
    BY <2>1
<1>2. ASSUME NEW n \in Nat, n \in T PROVE n + 1 \in T
  <2> SUFFICES ASSUME n + 1 <= MAX_RECURSE_DEPTH
               PROVE  RecurseDir[n + 1] \in [DOMAIN Tree -> SUBSET Items]
    OBVIOUS
  <2>1. n + 1 \in 0 .. MAX_RECURSE_DEPTH /\ n + 1 # 0 /\ (n + 1) - 1 = n
    BY <1>0
  <2>2. RecurseDir[n + 1] = OneLevel(RecurseDir[n])
    BY <2>1, RecurseDirLevels
  <2>3. RecurseDir[n] \in [DOMAIN Tree -> SUBSET Items]
    BY <1>0, <1>2
  <2> QED
    BY <2>2, <2>3, OneLevelType
<1> HIDE DEF T
<1>3. levels \in T
  BY <1>0, <1>1, <1>2, SetInduction
<1> QED
  BY <1>0, <1>3 DEF T

LEMMA FoundInTree ==
  ASSUME NEW p
  PROVE  Found(p) \subseteq Items
<1>1. Kind(p) # "missing" => p \in DOMAIN Tree
  BY DEF Kind
<1>2. p \in DOMAIN Tree => File(p) \in Items /\ RecurseDir[MAX_RECURSE_DEPTH][p] \subseteq Items
  <2>1. MAX_RECURSE_DEPTH \in 0 .. MAX_RECURSE_DEPTH
    BY LimitsAssumption
  <2> QED
    BY <2>1, RecurseDirType DEF File, Items
<1>3. CASE Kind(p) \in {"file", "link"}
  BY <1>1, <1>2, <1>3 DEF Found
<1>4. CASE Kind(p) \in {"dir", "locked"} /\ setup.version > 1
  BY <1>1, <1>2, <1>4 DEF Found
<1>5. CASE ~(Kind(p) \in {"file", "link"}) /\ ~(Kind(p) \in {"dir", "locked"} /\ setup.version > 1)
  BY <1>5 DEF Found
<1> QED
  BY <1>3, <1>4, <1>5

\* What is found becomes a list, each entry of it once.
LEMMA FoundOnce ==
  ASSUME NEW p
  PROVE  LET L == SetToSeq(Found(p))
         IN  /\ L \in Seq(Items) /\ Len(L) \in Nat /\ DOMAIN L = 1 .. Len(L)
             /\ \A n \in DOMAIN L : L[n] \in Found(p)
             /\ \A s \in Found(p) : \E n \in DOMAIN L : L[n] = s
             /\ \A m, n \in DOMAIN L : L[m] = L[n] => m = n
<1> DEFINE F == Found(p)
           L == SetToSeq(F)
           c == Cardinality(F)
<1>1. F \subseteq Items /\ IsFiniteSet(F)
  BY FoundInTree, ItemsFinite, FS_Subset
<1> HIDE DEF F
<1>2. c \in Nat
  BY <1>1, FS_CardinalityType
<1>3. PICK f \in [1 .. c -> F] : IsInjective(f)
  BY <1>1, FS_CardinalityType DEF ExistsBijection, Bijection, Injection
<1>4. L \in [1 .. c -> F] /\ IsInjective(L)
  BY <1>3 DEF SetToSeq
<1> HIDE DEF L
<1>5. L \in [1 .. c -> Items]
  BY <1>1, <1>4
<1>6. L \in Seq(Items) /\ Len(L) = c /\ DOMAIN L = 1 .. c
  BY <1>2, <1>5, SeqDef
<1>7. \A m, n \in 1 .. c : L[m] = L[n] => m = n
  BY <1>4 DEF IsInjective
<1>8. L \in Injection(1 .. c, F)
  BY <1>4 DEF Injection
<1>9. Cardinality(1 .. c) = c
  BY <1>2, FS_Interval
<1>10. L \in Surjection(1 .. c, F)
  BY <1>1, <1>8, <1>9, FS_Injection
<1>11. \A s \in F : \E n \in 1 .. c : L[n] = s
  BY <1>10 DEF Surjection
<1> QED
  BY <1>2, <1>4, <1>6, <1>7, <1>11 DEF L, F

LEMMA FoundType ==
  ASSUME NEW p
  PROVE  SetToSeq(Found(p)) \in Seq(Items)
  BY FoundOnce

\* Once a list of files has been read, its entries are the copied files.
LEMMA EntriesAreFiles ==
  ASSUME TypeOK, Dialogue, context = "READ", target = FILES
  PROVE  /\ entries = offers[asked].files /\ entries \in Seq(FileEntry)
         /\ Len(buf) = Len(entries) + 1
<1>1. asked \in DOMAIN offers /\ setup \in Setups
  <2>1. asked \in 0 .. copied /\ copied \in DOMAIN offers /\ asked # 0 /\ setup \in Setups
    BY DEF TypeOK, Dialogue, Given
  <2> QED
    BY <2>1, OffersType
<1>2. buf = [k \in 1 .. Len(buf) |-> <<asked, FILES, k>>] /\ Len(buf) = 1 + Len(offers[asked].files)
  BY <1>1, ContentsType DEF Dialogue
<1>3. offers[asked].files \in Seq(FileEntry) /\ Len(offers[asked].files) \in Nat
  BY <1>1, OffersType
<1> DEFINE files == offers[asked].files
<1> HIDE DEF files
<1>4. Len(buf) - 1 = Len(files) /\ files \in Seq(FileEntry) /\ Len(files) \in Nat
  BY <1>2, <1>3 DEF files
<1>5. ASSUME NEW k \in 1 .. Len(files)
      PROVE  offers[buf[k + 1][1]].files[buf[k + 1][3] - 1] = files[k]
  <2>1. k + 1 \in 1 .. Len(buf) /\ (k + 1) - 1 = k
    BY <1>4
  <2>2. buf[k + 1] = <<asked, FILES, k + 1>>
    BY <1>2, <2>1
  <2>3. buf[k + 1][1] = asked /\ buf[k + 1][3] - 1 = k
    BY <2>1, <2>2
  <2> QED
    BY <2>3 DEF files
<1>6. entries = [k \in 1 .. Len(files) |-> files[k]]
  BY <1>4, <1>5 DEF entries
<1>7. files = [k \in 1 .. Len(files) |-> files[k]]
  BY <1>4
<1>8. entries = files
  BY <1>6, <1>7
<1> QED
  BY <1>3, <1>4, <1>8 DEF files

-----------------------------------------------------------------------------
(* The steps *)

LEMMA StartIInv == Init => IInv
<1> SUFFICES ASSUME Init PROVE IInv
  OBVIOUS
<1>1. offers \in Seq(Offer) /\ DOMAIN offers = 1 .. Len(offers) /\ Len(offers) \in Nat \ {0}
  BY OffersType DEF Init
<1>2. 1 \in DOMAIN offers
  BY <1>1
<1>3. TypeOK
  BY <1>2 DEF Init, TypeOK, Nothing
<1>4. Dialogue
  BY DEF Init, Dialogue
<1>5. Purpose
  BY DEF Init, Purpose, Used
<1>6. Named
  BY DEF Init, Named
<1> QED
  BY <1>3, <1>4, <1>5, <1>6 DEF IInv

LEMMA FirstTargetType == FirstTarget \in {"TARGETS", "UTF8_STRING", FILES}
  BY DEF FirstTarget

\* A list that is being made or sent has the entries of one offer.
LEMMA UsedEntries ==
  ASSUME IInv, Used, setup.wanted = "FILE"
  PROVE  /\ entries = offers[asked].files /\ entries \in Seq(FileEntry)
         /\ Len(entries) \in Nat
<1>1. context = "READ" /\ target = FILES
  BY DEF IInv, Purpose
<1> QED
  BY <1>1, EntriesAreFiles DEF IInv

LEMMA TypeStep == IInv /\ [Next]_vars => TypeOK'
<1> SUFFICES ASSUME IInv, [Next]_vars PROVE TypeOK'
  OBVIOUS
<1> USE DEF IInv
<1>0. offers \in Seq(Offer) /\ DOMAIN offers = 1 .. Len(offers) /\ Len(offers) \in Nat \ {0}
  BY OffersType DEF TypeOK
<1>1. copied \in Nat \ {0} /\ copied <= Len(offers) /\ owner \in 0 .. copied
  BY <1>0 DEF TypeOK, owner
<1>2. CASE Copy
  <2>1. setup' = setup /\ offers' = offers
    BY <1>2 DEF Copy, offers
  <2>2. copied' \in DOMAIN offers /\ 0 .. copied \subseteq 0 .. copied' /\ 1 .. copied \subseteq 1 .. copied'
    BY <1>0, <1>1, <1>2 DEF Copy
  <2>3. alive' \subseteq 1 .. copied'
    <3>1. alive' = alive \cup {copied'} /\ alive \subseteq 1 .. copied
      BY <1>2 DEF Copy, TypeOK
    <3>2. copied' \in 1 .. copied'
      BY <1>1, <1>2 DEF Copy
    <3> QED
      BY <2>2, <3>1, <3>2
  <2>4. {asked', typed'} \subseteq 0 .. copied'
    BY <1>2, <2>2 DEF Copy, TypeOK, xVars
  <2>5. UNCHANGED <<setup, gone, pc, xVars, typed, listVars, sendVars>>
    BY <1>2 DEF Copy
  <2> QED
    BY <2>1, <2>2, <2>3, <2>4, <2>5 DEF TypeOK, xVars, listVars, sendVars
<1>3. CASE Quit
  BY <1>3 DEF TypeOK, Quit, xVars, listVars, sendVars, offers
<1>4. CASE Delete
  BY <1>4 DEF TypeOK, Delete, xVars, listVars, sendVars, offers
<1>5. CASE Answer
  <2>1. pty'.kind \in {"none", "incr", "data"} /\ events' \in Seq({"new", "deleted", "notify", "refused"})
    <3>1. events' \in {<<"refused">>, <<"new", "notify">>}
      BY <1>5 DEF Answer
    <3>2. pty' = pty \/ pty'.kind \in {"incr", "data"}
      <4>1. CASE pty' = [kind |-> "incr", data |-> <<>>]
        BY <4>1
      <4>2. CASE pty' = [kind |-> "data", data |-> Contents(asked, target)]
        BY <4>2
      <4> QED
        BY <1>5, <4>1, <4>2 DEF Answer
    <3>3. pty.kind \in {"none", "incr", "data"}
      BY DEF TypeOK
    <3>4. pty'.kind \in {"none", "incr", "data"}
      BY <3>2, <3>3
    <3>5. events' \in Seq({"new", "deleted", "notify", "refused"})
      <4>1. <<"refused">> \in Seq({"new", "deleted", "notify", "refused"})
        OBVIOUS
      <4>2. <<"new", "notify">> \in Seq({"new", "deleted", "notify", "refused"})
        OBVIOUS
      <4> QED
        BY <3>1, <4>1, <4>2
    <3> QED
      BY <3>4, <3>5
  <2> QED
    BY <1>5, <2>1 DEF TypeOK, Answer, envVars, listVars, sendVars, offers
<1>6. CASE WriteChunk
  <2>1. pty'.kind = "data"
    BY <1>6 DEF WriteChunk
  <2>2. events' \in Seq({"new", "deleted", "notify", "refused"})
    BY <1>6 DEF WriteChunk, TypeOK
  <2>3. UNCHANGED <<envVars, pc, context, target, asked, buf, typed, listVars, sendVars>>
    BY <1>6 DEF WriteChunk
  <2>4. pty'.kind \in {"none", "incr", "data"}
    BY <2>1
  <2> QED
    BY <2>2, <2>3, <2>4 DEF TypeOK, envVars, listVars, sendVars, offers
<1>7. CASE Open
  <2>1. events' \in {<<>>, <<"refused">>} /\ pty'.kind = "none"
    BY <1>7 DEF Open, Convert, Nothing
  <2>2. events' \in Seq({"new", "deleted", "notify", "refused"})
    <3>1. <<>> \in Seq({"new", "deleted", "notify", "refused"})
      OBVIOUS
    <3>2. <<"refused">> \in Seq({"new", "deleted", "notify", "refused"})
      OBVIOUS
    <3> QED
      BY <2>1, <3>1, <3>2
  <2>3. context' = "SENTCONVSEL" /\ asked' = owner /\ target' = FirstTarget
    BY <1>7 DEF Open, Convert
  <2>4. UNCHANGED <<envVars, pc, typed, listVars, sendVars>>
    BY <1>7 DEF Open
  <2> QED
    BY <1>1, <2>1, <2>2, <2>3, <2>4, FirstTargetType DEF TypeOK, envVars, listVars, sendVars, offers
<1>8. CASE TakeEvent
  <2>1. events # <<>> /\ Tail(events) \in Seq({"new", "deleted", "notify", "refused"})
    BY <1>8 DEF TakeEvent, TypeOK
  <2>2. /\ context' \in {"NONE", "SENTCONVSEL", "INCR", "READ", "FAILED"}
        /\ target' \in {"TARGETS", "UTF8_STRING", "STRING", FILES}
        /\ asked' \in 0 .. copied
        /\ pty'.kind \in {"none", "incr", "data"}
        /\ events' \in Seq({"new", "deleted", "notify", "refused"})
    <3>1. CASE Ignore
      BY <2>1, <3>1 DEF TypeOK, Ignore
    <3>2. CASE Refused
      <4>1. events' \in Seq({"new", "deleted", "notify", "refused"})
        <5>1. events' \in {<<>>, <<"refused">>, Tail(events)}
          BY <3>2 DEF Refused, Convert
        <5>2. <<"refused">> \in Seq({"new", "deleted", "notify", "refused"})
          OBVIOUS
        <5>3. <<>> \in Seq({"new", "deleted", "notify", "refused"})
          OBVIOUS
        <5>4. Tail(events) \in Seq({"new", "deleted", "notify", "refused"})
          BY <2>1
        <5> HIDE <2>1
        <5> QED
          BY <5>1, <5>2, <5>3, <5>4
      <4>2. pty' = pty /\ pty.kind \in {"none", "incr", "data"}
        BY <3>2 DEF Refused, TypeOK
      <4>3. context' \in {"SENTCONVSEL", "FAILED"} /\ target' \in {target, "STRING"} /\ asked' \in {asked, owner}
        BY <3>2 DEF Refused, Convert
      <4> QED
        BY <1>1, <4>1, <4>2, <4>3 DEF TypeOK
    <3>3. CASE ReadProperty
      BY <2>1, <3>3 DEF TypeOK, ReadProperty, TakeProperty, Nothing
    <3>4. CASE ReadChunk
      BY <2>1, <3>4 DEF TypeOK, ReadChunk, TakeProperty, Nothing
    <3> QED
      BY <1>8, <3>1, <3>2, <3>3, <3>4 DEF TakeEvent
  <2> QED
    BY <1>8, <2>2 DEF TypeOK, TakeEvent, envVars, listVars, sendVars, offers
<1>9. CASE CheckType
  BY <1>9 DEF TypeOK, CheckType, Respond, envVars, listVars, offers
<1>10. CASE Connect
  BY <1>10 DEF TypeOK, Connect, envVars, xVars, listVars, sendVars, offers
<1>11. CASE CheckTypeAgain
  BY <1>11 DEF TypeOK, CheckTypeAgain, Respond, envVars, listVars, offers
<1>12. CASE SendText
  BY <1>12 DEF TypeOK, SendText, Respond, envVars, xVars, listVars, offers
<1>13. CASE HaveFiles
  BY <1>13 DEF TypeOK, HaveFiles, Respond, envVars, xVars, listVars, offers
<1>14. CASE ListEntry
  <2> DEFINE p == entries[i].path
  <2>1. Used /\ setup.wanted = "FILE"
    BY <1>14 DEF ListEntry, Used, Purpose
  <2>2. entries \in Seq(FileEntry) /\ Len(entries) \in Nat
    BY <2>1, UsedEntries
  <2>3. i \in 1 .. Len(entries) /\ entries[i].url
    BY <1>14, <2>2 DEF ListEntry, MoreEntries, TypeOK
  <2>4. entries[i] \in FileEntry
    BY <2>2, <2>3
  <2>5. p \in Seq(STRING) /\ p # <<>>
    BY <2>3, <2>4 DEF FileEntry
  <2>6. Len(p) - 1 \in Nat
    BY <2>5
  <2>7. path_len' \in Nat
    BY <1>14, <2>6 DEF ListEntry, PathLen, TypeOK
  <2>8. i' \in Nat \ {0}
    BY <1>14, <2>2, <2>3 DEF ListEntry, AfterEntry
  <2>9. SetToSeq(Found(p)) \in Seq(Items) /\ lst \in Seq(Items)
    BY FoundType DEF TypeOK, Items
  <2>10. lst' = lst \o SetToSeq(Found(p))
    BY <1>14 DEF ListEntry
  <2>11. lst' \in Seq(Items) /\ Len(lst') = Len(lst) + Len(SetToSeq(Found(p)))
    BY <2>9, <2>10, ConcatProperties
  <2>12. announced \in 0 .. Len(lst')
    BY <2>9, <2>11, LenProperties DEF TypeOK
  <2>13. UNCHANGED <<envVars, pc, xVars, typed, sendVars>>
    BY <1>14 DEF ListEntry
  <2> HIDE DEF p
  <2> QED
    BY <2>7, <2>8, <2>11, <2>12, <2>13 DEF TypeOK, Items, envVars, xVars, sendVars, offers
<1>15. CASE EndOfList
  BY <1>15 DEF TypeOK, EndOfList, Respond, envVars, xVars, listVars, offers
<1>16. CASE Announce
  <2>1. announced' \in 0 .. Len(lst)
    BY <1>16 DEF TypeOK, Announce
  <2> QED
    BY <1>16, <2>1 DEF TypeOK, Announce, Respond, envVars, xVars, listVars, offers
<1>17. CASE Transfer
  BY <1>17 DEF TypeOK, Transfer, envVars, xVars, listVars, offers
<1>18. CASE TransferFails
  BY <1>18 DEF TypeOK, TransferFails, envVars, xVars, listVars, offers
<1>19. CASE Finish
  BY <1>19 DEF TypeOK, Finish, Respond, envVars, xVars, listVars, offers
<1>20. CASE UNCHANGED vars
  BY <1>20 DEF TypeOK, vars, envVars, xVars, listVars, sendVars, offers
<1> QED
  BY <1>2, <1>3, <1>4, <1>5, <1>6, <1>7, <1>8, <1>9, <1>10, <1>11, <1>12, <1>13, <1>14, <1>15,
     <1>16, <1>17, <1>18, <1>19, <1>20 DEF Next, UserStep, OwnerStep, RequestStep

\* A step that touches neither the request to the program nor what it writes.
LEMMA DialogueStays ==
  ASSUME Dialogue, UNCHANGED <<setup, xVars>>
  PROVE  Dialogue'
<1>1. \A o, t : Contents(o, t)' = Contents(o, t)
  BY DEF Contents, offers
<1>2. \A o, t, n : Rest(o, t, n)' = Rest(o, t, n)
  BY DEF Rest, Contents, offers
<1>3. UNCHANGED xVars /\ setup' = setup
  OBVIOUS
<1>4. Given' = Given
  BY DEF Given, offers, xVars
<1>5. Waiting => Waiting'
  BY <1>1, <1>2, <1>4 DEF Waiting, Data, Nothing, xVars
<1>6. InChunks => InChunks'
  BY <1>1, <1>2, <1>4 DEF InChunks, Data, Nothing, xVars
<1> QED
  BY <1>1, <1>4, <1>5, <1>6 DEF Dialogue, xVars

LEMMA AskedOffer ==
  ASSUME TypeOK, asked # 0
  PROVE  asked \in DOMAIN offers /\ setup \in Setups
<1>1. asked \in 0 .. copied /\ copied \in DOMAIN offers /\ setup \in Setups
  BY DEF TypeOK
<1> QED
  BY <1>1, OffersType

\* The four events that can be waiting.
LEMMA HeadEvents ==
  /\ Head(<<"new", "notify">>) = "new" /\ Tail(<<"new", "notify">>) = <<"notify">>
  /\ Head(<<"deleted", "new">>) = "deleted" /\ Tail(<<"deleted", "new">>) = <<"new">>
  /\ \A e : Head(<<e>>) = e /\ Tail(<<e>>) = <<>> /\ <<e>> # <<>> /\ Append(<<>>, e) = <<e>>
  /\ Append(<<"deleted">>, "new") = <<"deleted", "new">>
  /\ <<"new", "notify">> # <<>> /\ <<"deleted", "new">> # <<>>
<1>1. ASSUME NEW a, NEW b PROVE Head(<<a, b>>) = a /\ Tail(<<a, b>>) = <<b>> /\ <<a, b>> # <<>>
  <2>1. <<a, b>> \in Seq({a, b}) /\ Len(<<a, b>>) = 2 /\ <<b>> \in Seq({a, b}) /\ Len(<<b>>) = 1
    OBVIOUS
  <2>2. <<a, b>>[1] = a /\ <<a, b>>[2] = b /\ <<b>>[1] = b
    OBVIOUS
  <2> DEFINE s == <<a, b>>
             r == <<b>>
  <2> HIDE DEF s, r
  <2>3. s # <<>>
    BY <2>1 DEF s
  <2>4. Head(s) = a /\ Tail(s) \in Seq({a, b}) /\ Len(Tail(s)) = 1 /\ Tail(s)[1] = b
    BY <2>1, <2>2, <2>3, HeadTailProperties DEF s
  <2>5. r \in Seq({a, b}) /\ Len(r) = 1 /\ r[1] = b
    BY <2>1, <2>2 DEF r
  <2>6. \A k \in 1 .. Len(r) : Tail(s)[k] = r[k]
    BY <2>4, <2>5
  <2>7. Tail(s) = r
    BY <2>4, <2>5, <2>6, SeqEqual
  <2> QED
    BY <2>3, <2>4, <2>7 DEF s, r
<1>2. ASSUME NEW e PROVE Head(<<e>>) = e /\ Tail(<<e>>) = <<>> /\ <<e>> # <<>> /\ Append(<<>>, e) = <<e>>
  OBVIOUS
<1>3. Append(<<"deleted">>, "new") = <<"deleted", "new">>
  <2> DEFINE s == <<"deleted">>
             r == <<"deleted", "new">>
  <2>1. s \in Seq({"deleted", "new"}) /\ Len(s) = 1 /\ s[1] = "deleted"
    OBVIOUS
  <2>2. r \in Seq({"deleted", "new"}) /\ Len(r) = 2 /\ r[1] = "deleted" /\ r[2] = "new"
    OBVIOUS
  <2> HIDE DEF s, r
  <2>3. /\ Append(s, "new") \in Seq({"deleted", "new"}) /\ Len(Append(s, "new")) = Len(s) + 1
        /\ \A k \in 1 .. Len(s) : Append(s, "new")[k] = s[k]
        /\ Append(s, "new")[Len(s) + 1] = "new"
    <3>1. s \in Seq({"deleted", "new"}) /\ "new" \in {"deleted", "new"}
      BY <2>1
    <3> QED
      BY <3>1, AppendProperties
  <2>4. Append(s, "new")[1] = "deleted" /\ Append(s, "new")[2] = "new" /\ Len(Append(s, "new")) = 2
    BY <2>1, <2>3
  <2>5. \A k \in 1 .. 2 : Append(s, "new")[k] = r[k]
    BY <2>2, <2>4
  <2>6. Append(s, "new") = r
    BY <2>2, <2>3, <2>4, <2>5, SeqEqual
  <2> QED
    BY <2>6 DEF s, r
<1> QED
  BY <1>1, <1>2, <1>3

LEMMA AnswerDialogue ==
  ASSUME TypeOK, Dialogue, Answer
  PROVE  Dialogue'
<1>1. context = "SENTCONVSEL" /\ asked \in alive /\ events = <<>> /\ serving = <<>>
  BY DEF Answer, Asked
<1>2. buf = <<>> /\ pty = Nothing
  BY <1>1, HeadEvents DEF Dialogue, Waiting
<1>3. asked # 0
  BY <1>1 DEF TypeOK
<1>4. /\ \A o, t : Contents(o, t)' = Contents(o, t)
      /\ \A o, t, n : Rest(o, t, n)' = Rest(o, t, n)
      /\ context' = context /\ buf' = buf /\ target' = target /\ asked' = asked /\ offers' = offers
  <2>1. UNCHANGED <<envVars, context, target, asked, buf>>
    BY DEF Answer
  <2> QED
    BY <2>1 DEF envVars, Rest, Contents, offers
<1>5. Waiting'
  <2>1. CASE target \notin offers[asked].targets \cup {"TARGETS"}
    BY <1>1, <1>2, <1>4, <2>1 DEF Answer, Waiting, Nothing
  <2>2. CASE target \in offers[asked].targets \cup {"TARGETS"}
    <3>1. events' = <<"new", "notify">>
      BY <2>2 DEF Answer
    <3>2. Given'
      BY <1>3, <1>4, <2>2 DEF Given
    <3>3. CASE offers[asked].large /\ target # "TARGETS"
      <4>1. /\ pty' = [kind |-> "incr", data |-> <<>>]
            /\ serving' = [k \in 1 .. Len(Contents(asked, target)) |-> <<Contents(asked, target)[k]>>] \o << <<>> >>
        BY <2>2, <3>3 DEF Answer
      <4>2. serving' = Rest(asked, target, 0)
        BY <1>3, <4>1, AskedOffer, RestStart
      <4>3. Rest(asked, target, 0)' = Rest(asked, target, 0)
        BY <1>4
      <4> QED
        BY <1>2, <1>4, <3>1, <3>2, <4>1, <4>2, <4>3 DEF Waiting
    <3>4. CASE ~(offers[asked].large /\ target # "TARGETS")
      <4>1. pty' = Data(Contents(asked, target)) /\ serving' = <<>>
        BY <1>1, <2>2, <3>4 DEF Answer, Data
      <4>2. Contents(asked, target)' = Contents(asked, target)
        BY <1>4
      <4> QED
        BY <1>2, <1>4, <3>1, <3>2, <4>1, <4>2 DEF Waiting, Data
    <3> QED
      BY <3>3, <3>4
  <2> QED
    BY <2>1, <2>2
<1> QED
  BY <1>1, <1>4, <1>5 DEF Dialogue

LEMMA WriteChunkDialogue ==
  ASSUME TypeOK, Dialogue, WriteChunk
  PROVE  Dialogue'
<1> DEFINE C == Contents(asked, target)
<1>1. serving # <<>> /\ pty = Nothing
  BY DEF WriteChunk
<1>2. context = "INCR" /\ InChunks
  BY <1>1 DEF Dialogue, Waiting, Nothing, Data, TypeOK
<1>3. PICK n \in 0 .. Len(C) : /\ buf = SubSeq(C, 1, n)
                               /\ events \in {<<>>, <<"deleted">>} /\ serving = Rest(asked, target, n)
  BY <1>1, <1>2 DEF InChunks, Nothing, Data
<1>4. /\ C' = C
      /\ \A k : Rest(asked, target, k)' = Rest(asked, target, k)
      /\ context' = context /\ buf' = buf /\ target' = target /\ asked' = asked /\ offers' = offers
  <2>1. UNCHANGED <<envVars, context, target, asked, buf>>
    BY DEF WriteChunk
  <2> QED
    BY <2>1 DEF envVars, Rest, Contents, offers
<1>5. Given /\ Given'
  BY <1>2, <1>4 DEF InChunks, Given
<1>6. /\ n < Len(C) => Head(serving) = <<C[n + 1]>> /\ Tail(serving) = Rest(asked, target, n + 1)
      /\ n = Len(C) => Head(serving) = <<>> /\ Tail(serving) = <<>>
  BY <1>3, <1>5, AskedOffer, RestSteps DEF Given
<1>7. pty' = Data(Head(serving)) /\ serving' = Tail(serving)
  BY DEF WriteChunk, Data
<1>8. events' \in {<<"new">>, <<"deleted", "new">>}
  BY <1>3, HeadEvents DEF WriteChunk
<1>9. n < Len(C) \/ n = Len(C)
  <2>1. Len(C) \in Nat
    BY <1>5, AskedOffer, ContentsType DEF Given
  <2> HIDE DEF C
  <2> QED
    BY <1>3, <2>1
<1>10. InChunks'
  <2> DEFINE P(m) == /\ buf' = SubSeq(C, 1, m)
                     /\ events' \in {<<"new">>, <<"deleted", "new">>}
                     /\ \/ /\ m < Len(C) /\ pty' = Data(<<C[m + 1]>>)
                           /\ serving' = Rest(asked, target, m + 1)
                        \/ m = Len(C) /\ pty' = Data(<<>>) /\ serving' = <<>>
  <2>1. P(n)
    BY <1>3, <1>4, <1>6, <1>7, <1>8, <1>9
  <2>2. C' = Contents(asked, target)'
    OBVIOUS
  <2>3. Rest(asked, target, n + 1)' = Rest(asked, target, n + 1)
    BY <1>4
  <2> QED
    BY <1>3, <1>4, <1>5, <2>1, <2>2, <2>3 DEF InChunks, Data
<1> QED
  BY <1>2, <1>4, <1>10 DEF Dialogue

LEMMA IgnoreDialogue ==
  ASSUME TypeOK, Dialogue, setup' = setup, events # <<>>, Ignore
  PROVE  Dialogue'
<1>1. UNCHANGED <<context, target, asked, serving, pty, buf>> /\ offers' = offers /\ events' = Tail(events)
  BY DEF Ignore, offers
<1>2. /\ Contents(asked, target)' = Contents(asked, target)
      /\ \A k : Rest(asked, target, k)' = Rest(asked, target, k)
      /\ Given' = Given
  BY <1>1 DEF Rest, Contents, Given, offers
<1>3. CASE context = "SENTCONVSEL"
  <2>1. Head(events) \in {"new", "deleted"}
    BY <1>3 DEF Ignore, Ignored
  <2>2. events = <<"new", "notify">> /\ events' = <<"notify">>
    BY <1>1, <1>3, <2>1, HeadEvents DEF Dialogue, Waiting
  <2>3. Waiting'
    BY <1>1, <1>2, <1>3, <2>2, HeadEvents DEF Dialogue, Waiting, Data, Nothing
  <2> QED
    BY <1>1, <1>3, <2>3 DEF Dialogue
<1>4. CASE context = "INCR"
  <2>1. Head(events) # "new"
    BY <1>4 DEF Ignore, Ignored
  <2>2. \/ events = <<"deleted">> /\ events' = <<>>
        \/ events = <<"deleted", "new">> /\ events' = <<"new">>
    BY <1>1, <1>4, <2>1, HeadEvents DEF Dialogue, InChunks
  <2>3. InChunks'
    BY <1>1, <1>2, <1>4, <2>2, HeadEvents DEF Dialogue, InChunks, Data, Nothing
  <2> QED
    BY <1>1, <1>4, <2>3 DEF Dialogue
<1> QED
  BY <1>3, <1>4 DEF Ignore, Ignored

LEMMA RefusedDialogue ==
  ASSUME TypeOK, Dialogue, setup' = setup, events # <<>>, Refused
  PROVE  Dialogue'
<1>1. context = "SENTCONVSEL" /\ Head(events) = "refused" /\ UNCHANGED <<serving, pty, buf>>
  BY DEF Refused
<1>2. buf = <<>> /\ serving = <<>> /\ pty = Nothing
  BY <1>1, HeadEvents DEF Dialogue, Waiting
<1>3. CASE target = "UTF8_STRING"
  <2>1. context' = "SENTCONVSEL" /\ events' \in {<<>>, <<"refused">>}
    BY <1>3 DEF Refused, Convert
  <2>2. Waiting'
    BY <1>1, <1>2, <2>1 DEF Waiting, Nothing
  <2> QED
    BY <2>1, <2>2 DEF Dialogue
<1>4. CASE target # "UTF8_STRING"
  <2>1. context' = "FAILED"
    BY <1>4 DEF Refused
  <2> QED
    BY <1>1, <1>2, <2>1 DEF Dialogue
<1> QED
  BY <1>3, <1>4

LEMMA ReadPropertyDialogue ==
  ASSUME TypeOK, Dialogue, setup' = setup, events # <<>>, ReadProperty
  PROVE  Dialogue'
<1> DEFINE C == Contents(asked, target)
<1>1. context = "SENTCONVSEL" /\ Head(events) = "notify"
  BY DEF ReadProperty
<1>2. events = <<"notify">> /\ buf = <<>> /\ Given
  BY <1>1, HeadEvents DEF Dialogue, Waiting
<1>3. \/ pty = Data(C) /\ serving = <<>>
      \/ pty = [kind |-> "incr", data |-> <<>>] /\ serving = Rest(asked, target, 0)
  BY <1>1, <1>2, HeadEvents DEF Dialogue, Waiting
<1>4. /\ target' = target /\ asked' = asked /\ serving' = serving /\ offers' = offers
      /\ pty' = Nothing /\ events' = <<"deleted">>
  BY <1>2, HeadEvents DEF ReadProperty, TakeProperty, offers
<1>5. /\ C' = C
      /\ \A k : Rest(asked, target, k)' = Rest(asked, target, k)
      /\ Given'
  BY <1>2, <1>4 DEF Rest, Contents, Given, offers
<1>6. CASE pty = Data(C) /\ serving = <<>>
  <2>1. context' = "READ" /\ buf' = C
    <3>1. pty.kind # "incr" /\ pty.data = C
      BY <1>6 DEF Data
    <3> QED
      BY <3>1 DEF ReadProperty
  <2> QED
    BY <1>4, <1>5, <1>6, <2>1 DEF Dialogue
<1>7. CASE pty = [kind |-> "incr", data |-> <<>>] /\ serving = Rest(asked, target, 0)
  <2>1. context' = "INCR" /\ buf' = <<>>
    BY <1>2, <1>7 DEF ReadProperty
  <2>2. SubSeq(C, 1, 0) = <<>> /\ 0 \in 0 .. Len(C)
    <3>1. Len(C) \in Nat /\ C \in Seq({asked} \X {target} \X Nat)
      BY <1>2, AskedOffer, ContentsType DEF Given
    <3> HIDE DEF C
    <3> QED
      BY <3>1
  <2>3. Rest(asked, target, 0)' = Rest(asked, target, 0)
    BY <1>5
  <2>4. serving' = Rest(asked, target, 0)' /\ C' = Contents(asked, target)'
    BY <1>4, <1>7, <2>3
  <2>5. InChunks'
    BY <1>4, <1>5, <2>1, <2>2, <2>4 DEF InChunks, Nothing
  <2> QED
    BY <2>1, <2>5 DEF Dialogue
<1> QED
  BY <1>3, <1>6, <1>7

LEMMA ReadChunkDialogue ==
  ASSUME TypeOK, Dialogue, setup' = setup, events # <<>>, ReadChunk
  PROVE  Dialogue'
<1> DEFINE C == Contents(asked, target)
<1>1. context = "INCR" /\ Head(events) = "new" /\ InChunks
  BY DEF ReadChunk, Dialogue
<1>2. PICK n \in 0 .. Len(C) :
        /\ buf = SubSeq(C, 1, n) /\ events = <<"new">>
        /\ \/ n < Len(C) /\ pty = Data(<<C[n + 1]>>) /\ serving = Rest(asked, target, n + 1)
           \/ n = Len(C) /\ pty = Data(<<>>) /\ serving = <<>>
  BY <1>1, HeadEvents DEF InChunks
<1>3. Given
  BY <1>1 DEF InChunks
<1>4. /\ target' = target /\ asked' = asked /\ serving' = serving /\ offers' = offers
      /\ pty' = Nothing /\ events' = <<"deleted">>
  BY <1>2, HeadEvents DEF ReadChunk, TakeProperty, offers
<1>5. /\ C' = C
      /\ \A k : Rest(asked, target, k)' = Rest(asked, target, k)
      /\ Given'
  BY <1>3, <1>4 DEF Rest, Contents, Given, offers
<1>6. /\ n < Len(C) => SubSeq(C, 1, n) \o <<C[n + 1]>> = SubSeq(C, 1, n + 1)
      /\ SubSeq(C, 1, Len(C)) = C
  BY <1>3, AskedOffer, RestSteps DEF Given
<1>7. CASE n < Len(C) /\ pty = Data(<<C[n + 1]>>) /\ serving = Rest(asked, target, n + 1)
  <2>1. pty.data = <<C[n + 1]>> /\ pty.data # <<>>
    BY <1>7, HeadEvents DEF Data
  <2>2. context' = "INCR" /\ buf' = SubSeq(C, 1, n + 1)
    BY <1>1, <1>2, <1>6, <1>7, <2>1 DEF ReadChunk
  <2>3. n + 1 \in 0 .. Len(C)
    <3>1. Len(C) \in Nat
      BY <1>3, AskedOffer, ContentsType DEF Given
    <3> HIDE DEF C
    <3> QED
      BY <1>7, <3>1
  <2>4. serving' = Rest(asked, target, n + 1)' /\ C' = Contents(asked, target)'
    BY <1>4, <1>5, <1>7
  <2>5. InChunks'
    BY <1>4, <1>5, <2>2, <2>3, <2>4 DEF InChunks, Nothing
  <2> QED
    BY <2>2, <2>5 DEF Dialogue
<1>8. CASE n = Len(C) /\ pty = Data(<<>>) /\ serving = <<>>
  <2>1. context' = "READ" /\ buf' = C
    BY <1>2, <1>6, <1>8 DEF ReadChunk, Data
  <2> QED
    BY <1>4, <1>5, <1>8, <2>1 DEF Dialogue
<1> QED
  BY <1>2, <1>7, <1>8

LEMMA DialogueStep == IInv /\ [Next]_vars => Dialogue'
<1> SUFFICES ASSUME IInv, [Next]_vars PROVE Dialogue'
  OBVIOUS
<1>0. TypeOK /\ Dialogue
  BY DEF IInv
<1>1. CASE UNCHANGED <<setup, xVars>>
  BY <1>0, <1>1, DialogueStays
<1>2. CASE Answer
  BY <1>0, <1>2, AnswerDialogue
<1>3. CASE WriteChunk
  BY <1>0, <1>3, WriteChunkDialogue
<1>4. CASE Open
  <2>1. /\ context' = "SENTCONVSEL" /\ buf' = <<>> /\ serving' = <<>> /\ pty' = Nothing
        /\ events' \in {<<>>, <<"refused">>}
    BY <1>4 DEF Open, Convert
  <2>2. Waiting'
    BY <2>1 DEF Waiting, Nothing
  <2> QED
    BY <2>1, <2>2 DEF Dialogue
<1>5. CASE TakeEvent
  <2>1. setup' = setup /\ events # <<>>
    BY <1>5 DEF TakeEvent, envVars
  <2> QED
    BY <1>0, <1>5, <2>1, IgnoreDialogue, RefusedDialogue, ReadPropertyDialogue, ReadChunkDialogue DEF TakeEvent
<1>6. CASE CheckType \/ CheckTypeAgain
  <2>1. context' = "NONE" /\ serving' = serving /\ context \in {"READ", "FAILED"}
    BY <1>6 DEF CheckType, CheckTypeAgain, Returned
  <2> QED
    BY <1>0, <2>1 DEF Dialogue
<1>7. CASE Copy \/ Quit \/ Delete
  BY <1>1, <1>7 DEF Copy, Quit, Delete
<1>8. CASE Connect \/ SendText \/ HaveFiles \/ ListEntry
  BY <1>1, <1>8 DEF Connect, SendText, HaveFiles, ListEntry, envVars
<1>9. CASE EndOfList \/ Announce \/ Transfer \/ TransferFails \/ Finish
  BY <1>1, <1>9 DEF EndOfList, Announce, Transfer, TransferFails, Finish, envVars
<1>10. CASE UNCHANGED vars
  BY <1>1, <1>10 DEF vars, envVars
<1> QED
  BY <1>2, <1>3, <1>4, <1>5, <1>6, <1>7, <1>8, <1>9, <1>10 DEF Next, UserStep, OwnerStep, RequestStep

LEMMA PurposeStep == IInv /\ [Next]_vars => Purpose'
<1> SUFFICES ASSUME IInv, [Next]_vars PROVE Purpose'
  OBVIOUS
<1> USE DEF IInv
<1>0. /\ typed \in 0 .. copied /\ owner \in {0, copied} /\ copied \in Nat
      /\ asked \in 0 .. copied
  <2>1. copied \in DOMAIN offers /\ DOMAIN offers = 1 .. Len(offers)
    BY OffersType DEF TypeOK
  <2> QED
    BY <2>1 DEF TypeOK, owner
<1>1. CASE UNCHANGED <<setup, pc, context, target, asked, buf, typed, response>>
  BY <1>1 DEF Purpose, Used, offers
<1>2. CASE Copy \/ Quit \/ Delete
  BY <1>1, <1>2 DEF Copy, Quit, Delete, xVars, sendVars
<1>3. CASE Answer \/ WriteChunk
  BY <1>1, <1>3 DEF Answer, WriteChunk, envVars, sendVars
<1>4. CASE Open
  BY <1>0, <1>4 DEF Purpose, Used, Open, Convert, FirstTarget, Reading, envVars, sendVars, offers
<1>5. CASE TakeEvent
  <2>1. UNCHANGED <<setup, pc, typed, response>> /\ context \in {"SENTCONVSEL", "INCR"} /\ ~Used
    BY <1>5 DEF TakeEvent, envVars, sendVars, Purpose
  <2>2. \/ target' = target /\ asked' = asked
        \/ target = "UTF8_STRING" /\ target' = "STRING" /\ asked' = owner
    BY <1>5 DEF TakeEvent, Ignore, Refused, Convert, ReadProperty, ReadChunk
  <2>3. ~Used'
    BY <2>1 DEF Used
  <2> QED
    BY <1>0, <2>1, <2>2, <2>3 DEF Purpose, offers, FILES
<1>6. CASE CheckType
  <2>1. context' = "NONE" /\ UNCHANGED <<setup, target, asked>> /\ offers' = offers
    BY <1>6 DEF CheckType, envVars, offers
  <2>2. CASE CopiedType = setup.wanted
    <3>1. pc' = "connect" /\ typed' = asked /\ response' = "none"
      BY <1>6, <2>2 DEF CheckType, Purpose
    <3>2. context = "READ" /\ buf # <<>> /\ TypeOf(offers[buf[1][1]].targets) = setup.wanted
      <4>1. setup.wanted # "NONE"
        BY OffersType DEF TypeOK
      <4> QED
        BY <1>6, <2>2, <4>1 DEF CheckType, Returned, CopiedType
    <3>3. asked # 0 /\ buf[1][1] = asked
      <4>1. Given /\ buf = Contents(asked, target)
        BY <3>2 DEF Dialogue
      <4>2. buf = [k \in 1 .. Len(buf) |-> <<asked, target, k>>] /\ Len(buf) \in Nat /\ buf \in Seq({asked} \X {target} \X Nat)
        BY <4>1, AskedOffer, ContentsType DEF Given
      <4>3. 1 \in 1 .. Len(buf)
        BY <3>2, <4>2
      <4>4. buf[1] = <<asked, target, 1>>
        BY <4>2, <4>3
      <4> QED
        BY <4>1, <4>4 DEF Given
    <3> QED
      BY <2>1, <3>1, <3>2, <3>3 DEF Purpose, Used
  <2>3. CASE CopiedType # setup.wanted
    BY <1>6, <2>1, <2>3 DEF CheckType, Respond, Purpose, Used
  <2> QED
    BY <2>2, <2>3
<1>7. CASE Connect
  BY <1>7 DEF Connect, Purpose, Used, envVars, xVars, sendVars, offers
<1>8. CASE CheckTypeAgain
  BY <1>8 DEF CheckTypeAgain, Respond, Purpose, Used, envVars, offers
<1>9. CASE SendText
  <2>1. UNCHANGED <<setup, context, target, asked, buf, typed>>
    BY <1>9 DEF SendText, envVars, xVars
  <2>2. \/ pc' = "done" /\ response' = "NO_DATA"
        \/ pc' = "done" /\ context = "READ" /\ buf # <<>>
    BY <1>9 DEF SendText, Respond
  <2> QED
    BY <1>9, <2>1, <2>2 DEF SendText, Purpose, Used, offers
<1>10. CASE HaveFiles
  <2>1. UNCHANGED <<setup, context, target, asked, buf, typed>>
    BY <1>10 DEF HaveFiles, envVars, xVars
  <2>2. \/ pc' = "done" /\ response' = "NO_DATA"
        \/ pc' = "list" /\ response' = response /\ context = "READ" /\ buf # <<>>
    BY <1>10 DEF HaveFiles, Respond
  <2> QED
    BY <1>10, <2>1, <2>2 DEF HaveFiles, Purpose, Used, offers
<1>11. CASE ListEntry
  BY <1>1, <1>11 DEF ListEntry, envVars, xVars, sendVars
<1>12. CASE EndOfList
  BY <1>12 DEF EndOfList, Respond, Purpose, Used, envVars, xVars, offers
<1>13. CASE Announce
  BY <1>13 DEF Announce, Respond, Purpose, Used, envVars, xVars, offers
<1>14. CASE Transfer
  BY <1>1, <1>14 DEF Transfer, envVars, xVars
<1>15. CASE TransferFails
  BY <1>15 DEF TransferFails, Purpose, Used, envVars, xVars, offers
<1>16. CASE Finish
  BY <1>16 DEF Finish, Respond, Purpose, Used, envVars, xVars, offers
<1>17. CASE UNCHANGED vars
  BY <1>1, <1>17 DEF vars, envVars, xVars, sendVars
<1> QED
  BY <1>2, <1>3, <1>4, <1>5, <1>6, <1>7, <1>8, <1>9, <1>10, <1>11, <1>12, <1>13, <1>14, <1>15,
     <1>16, <1>17 DEF Next, UserStep, OwnerStep, RequestStep

\* What Named says is kept by a step that leaves the list and what was read alone.
LEMMA NamedStays ==
  ASSUME Named, UNCHANGED <<setup, listVars, sent, buf>>, i > 1 => context' = "READ",
         pc \in {"transfer", "done"} => pc' \in {"transfer", "done"},
         pc' \in {"announce", "transfer"} => pc \in {"announce", "transfer"} \/ lst # <<>>,
         pc \in {"list", "announce", "transfer", "done"} =>
            pc' \in {"list", "announce", "transfer", "done"},
         Used => Used'
  PROVE  Named'
<1>1. entries' = entries /\ SentFiles' = SentFiles
  BY DEF entries, offers, SentFiles, NameOf, listVars
<1>2. UNCHANGED <<setup, i, path_len, lst, sent>>
  BY DEF listVars
<1> QED
  BY <1>1, <1>2 DEF Named

LEMMA NamedStep == IInv /\ [Next]_vars => Named'
<1> SUFFICES ASSUME IInv, [Next]_vars PROVE Named'
  OBVIOUS
<1>0. TypeOK /\ Named /\ Purpose
  BY DEF IInv
<1>1. CASE UNCHANGED <<setup, pc, buf, context, listVars, sent, response>>
  BY <1>0, <1>1, NamedStays DEF Used, Named
<1>2. CASE Copy \/ Quit \/ Delete
  BY <1>1, <1>2 DEF Copy, Quit, Delete, xVars, sendVars
<1>3. CASE Answer \/ WriteChunk
  BY <1>1, <1>3 DEF Answer, WriteChunk, envVars, sendVars
<1>4. CASE Open
  <2>1. pc \in Reading /\ UNCHANGED <<setup, pc, listVars, sent>>
    BY <1>4 DEF Open, envVars, sendVars
  <2>2. i = 1 /\ lst = <<>> /\ sent = <<>>
    BY <1>0, <2>1 DEF Named, Reading
  <2> QED
    BY <2>1, <2>2 DEF Named, Reading, listVars
<1>5. CASE TakeEvent
  <2>1. UNCHANGED <<setup, pc, listVars, sent, response>> /\ context \in {"SENTCONVSEL", "INCR"}
    BY <1>5 DEF TakeEvent, envVars, sendVars
  <2>2. ~(i > 1) /\ ~Used /\ i \in Nat \ {0}
    BY <1>0, <2>1 DEF Named, Purpose, TypeOK
  <2>3. i = 1 /\ lst = <<>> /\ (setup.wanted = "FILE" => sent = <<>>)
    BY <1>0, <2>2 DEF Named
  <2>4. pc \notin {"announce", "transfer", "list"}
    BY <2>2 DEF Used
  <2>5. sent' = <<>> => sent' \in Seq(SentFiles')
    OBVIOUS
  <2> QED
    BY <1>0, <2>1, <2>3, <2>4, <2>5 DEF Named, listVars
<1>6. CASE CheckType
  <2>1. pc \in Reading /\ UNCHANGED <<setup, listVars, sent>> /\ pc' \in {"connect", "done"}
    BY <1>6 DEF CheckType, Respond, Reading, envVars
  <2>2. i = 1 /\ lst = <<>> /\ sent = <<>>
    BY <1>0, <2>1 DEF Named, Reading
  <2> QED
    BY <2>1, <2>2 DEF Named, listVars
<1>7. CASE Connect
  <2>1. pc = "connect" /\ UNCHANGED <<setup, listVars, sent>> /\ pc' \in {"retype", "data"}
    BY <1>7 DEF Connect, envVars, sendVars
  <2>2. i = 1 /\ lst = <<>> /\ sent = <<>>
    BY <1>0, <2>1 DEF Named
  <2> QED
    BY <2>1, <2>2 DEF Named, listVars
<1>8. CASE CheckTypeAgain
  <2>1. pc \in Reading /\ UNCHANGED <<setup, listVars, sent>> /\ pc' \in {"data", "done"}
    BY <1>8 DEF CheckTypeAgain, Respond, Reading, envVars
  <2>2. i = 1 /\ lst = <<>> /\ sent = <<>>
    BY <1>0, <2>1 DEF Named, Reading
  <2> QED
    BY <2>1, <2>2 DEF Named, listVars
<1>9. CASE SendText
  <2>1. pc = "data" /\ UNCHANGED <<setup, listVars>> /\ pc' = "done" /\ setup.wanted = "TEXT"
    BY <1>9 DEF SendText, Respond, envVars
  <2>2. i = 1 /\ lst = <<>>
    BY <1>0, <2>1 DEF Named
  <2> QED
    BY <2>1, <2>2 DEF Named, listVars
<1>10. CASE HaveFiles
  <2>1. pc = "data" /\ UNCHANGED <<setup, listVars, sent>> /\ pc' \in {"list", "done"}
    BY <1>10 DEF HaveFiles, Respond, envVars
  <2>2. i = 1 /\ lst = <<>> /\ sent = <<>>
    BY <1>0, <2>1 DEF Named
  <2> QED
    BY <2>1, <2>2 DEF Named, listVars
<1>11. CASE ListEntry
  <2> DEFINE p == entries[i].path
  <2>1. /\ pc = "list" /\ pc' = pc /\ context' = context /\ sent' = sent
        /\ setup' = setup /\ buf' = buf /\ offers' = offers
    BY <1>11 DEF ListEntry, envVars, xVars, sendVars, offers
  <2>2. Used /\ setup.wanted = "FILE" /\ context = "READ"
    BY <1>0, <2>1 DEF Used, Purpose
  <2>3. entries \in Seq(FileEntry) /\ Len(entries) \in Nat
    BY <2>2, UsedEntries
  <2>4. i \in 1 .. Len(entries)
    BY <1>0, <1>11, <2>3 DEF ListEntry, MoreEntries, TypeOK
  <2>5. entries # <<>> /\ Len(entries) \in Nat \ {0}
    BY <2>3, <2>4
  <2>6. i' > 1
    BY <1>11, <2>4, <2>5 DEF ListEntry, AfterEntry
  <2>7. setup.version > 1 => path_len' = Len(entries[1].path) - 1
    <3>1. path_len' = PathLen(p)
      BY <1>11 DEF ListEntry
    <3>2. CASE i = 1
      BY <3>1, <3>2 DEF PathLen
    <3>3. CASE i # 1
      BY <1>0, <2>4, <3>1, <3>3 DEF PathLen, Named
    <3> QED
      BY <3>2, <3>3
  <2>8. entries' = entries
    BY <2>1 DEF entries
  <2>9. sent' = <<>> /\ sent' \in Seq(SentFiles')
    <3>1. sent' = <<>>
      BY <1>0, <2>1 DEF Named
    <3> QED
      BY <3>1
  <2> QED
    BY <2>1, <2>2, <2>5, <2>6, <2>7, <2>8, <2>9 DEF Named
<1>12. CASE EndOfList
  <2>1. UNCHANGED <<setup, buf, context, listVars, sent>> /\ pc = "list"
    BY <1>12 DEF EndOfList, envVars, xVars
  <2>2. sent = <<>>
    BY <1>0, <2>1 DEF Named
  <2>3. /\ pc' \in {"announce", "done"} /\ (pc' = "announce" => lst # <<>>)
    BY <1>12 DEF EndOfList, Respond
  <2>4. entries' = entries
    BY <2>1 DEF entries, offers
  <2>5. sent' = <<>> /\ sent' \in Seq(SentFiles')
    BY <2>1, <2>2
  <2> QED
    BY <1>0, <2>1, <2>3, <2>4, <2>5 DEF Named, listVars
<1>13. CASE Announce
  <2>1. UNCHANGED <<setup, buf, context, listVars, sent>> /\ pc = "announce"
    BY <1>13 DEF Announce, envVars, xVars
  <2>2. sent = <<>> /\ lst # <<>>
    BY <1>0, <2>1 DEF Named
  <2>3. pc' \in {"transfer", "done"}
    BY <1>13 DEF Announce, Respond
  <2>4. entries' = entries
    BY <2>1 DEF entries, offers
  <2>5. sent' = <<>> /\ sent' \in Seq(SentFiles')
    BY <2>1, <2>2
  <2> QED
    BY <1>0, <2>1, <2>2, <2>3, <2>4, <2>5 DEF Named, listVars
<1>14. CASE Transfer
  <2>1. UNCHANGED <<setup, pc, buf, context, listVars, response>> /\ pc = "transfer"
    BY <1>14 DEF Transfer, envVars, xVars
  <2>2. setup.wanted = "FILE" /\ lst # <<>>
    BY <1>0, <2>1 DEF Named, Purpose
  <2>3. entries' = entries /\ SentFiles' = SentFiles
    BY <2>1 DEF entries, offers, SentFiles, NameOf, listVars
  <2>4. sent \in Seq(SentFiles) /\ Len(sent) \in Nat
    BY <1>0, <2>2 DEF Named
  <2>5. Len(sent) + 1 \in 1 .. Len(lst) /\ lst \in Seq(Items)
    <3>1. lst \in Seq(Items) /\ Len(lst) \in Nat \ {0}
      BY <1>0, <2>2 DEF TypeOK, Items
    <3>2. Len(sent) < ToSend
      BY <1>14 DEF Transfer
    <3> QED
      BY <2>4, <3>1, <3>2 DEF ToSend
  <2> DEFINE item == lst[Len(sent) + 1]
             new == [name |-> NameOf(item.path), path |-> item.path, dir |-> item.dir]
  <2>6. item \in Items
    BY <2>5
  <2>7. new \in SentFiles
    BY <2>6 DEF SentFiles
  <2>8. sent' = Append(sent, new)
    BY <1>14 DEF Transfer
  <2> HIDE DEF new
  <2>9. sent' \in Seq(SentFiles)
    BY <2>4, <2>7, <2>8
  <2>10. Used'
    BY <2>1 DEF Used
  <2> QED
    BY <1>0, <2>1, <2>2, <2>3, <2>9, <2>10 DEF Named, listVars
<1>15. CASE TransferFails
  <2>1. UNCHANGED <<setup, buf, context, listVars, sent>> /\ pc = "transfer" /\ pc' = "done"
    BY <1>15 DEF TransferFails, envVars, xVars
  <2>2. Used'
    BY <1>0, <1>15, <2>1 DEF TransferFails, Used, Purpose
  <2> QED
    BY <1>0, <2>1, <2>2, NamedStays DEF Named
<1>16. CASE Finish
  <2>1. UNCHANGED <<setup, buf, context, listVars, sent>> /\ pc = "transfer" /\ pc' = "done" /\ response' = "OK"
    BY <1>16 DEF Finish, Respond, envVars, xVars
  <2>2. Used'
    BY <2>1 DEF Used
  <2> QED
    BY <1>0, <2>1, <2>2, NamedStays DEF Named
<1>17. CASE UNCHANGED vars
  BY <1>1, <1>17 DEF vars, envVars, xVars, sendVars
<1> QED
  BY <1>2, <1>3, <1>4, <1>5, <1>6, <1>7, <1>8, <1>9, <1>10, <1>11, <1>12, <1>13, <1>14, <1>15,
     <1>16, <1>17 DEF Next, UserStep, OwnerStep, RequestStep

-----------------------------------------------------------------------------
(* The invariant gives the properties *)

LEMMA IInvHolds == Spec => []IInv
<1>1. IInv /\ [Next]_vars => IInv'
  BY TypeStep, DialogueStep, PurposeStep, NamedStep DEF IInv
<1> QED
  BY <1>1, StartIInv, PTL DEF Spec

\* What has been read completely comes from the program that was asked.
LEMMA ReadContents ==
  ASSUME IInv, context = "READ", buf # <<>>
  PROVE  /\ asked # 0 /\ target \in offers[asked].targets \cup {"TARGETS"}
         /\ buf[1] = <<asked, target, 1>> /\ buf = Contents(asked, target)
<1>1. Given /\ buf = Contents(asked, target)
  BY DEF IInv, Dialogue
<1>2. /\ buf = [k \in 1 .. Len(buf) |-> <<asked, target, k>>] /\ Len(buf) \in Nat
      /\ buf \in Seq({asked} \X {target} \X Nat)
  BY <1>1, AskedOffer, ContentsType DEF Given, IInv
<1>3. 1 \in 1 .. Len(buf)
  BY <1>2
<1>4. buf[1] = <<asked, target, 1>>
  BY <1>2, <1>3
<1> QED
  BY <1>1, <1>4 DEF Given

\* Whatever is copied meanwhile and however the contents are cut into chunks: what
\* doOut returns is all that one program gave for one target, in order.
THEOREM OneAnswerIsRead == Spec => []SelectionInv
<1>1. ASSUME IInv PROVE SelectionInv
  <2>1. WholeContents
    BY <1>1, ReadContents DEF WholeContents
  <2> QED
    BY <1>1, <2>1 DEF SelectionInv, IInv
<1> QED
  BY <1>1, IInvHolds, PTL

\* What is sent is of the kind that get_copied_type found before the connection was
\* made, unless something else was copied since, and is never older.
THEOREM ContentsAreOfTheType == Spec => []ContentsFitType
<1>1. ASSUME IInv PROVE ContentsFitType
  <2> SUFFICES ASSUME pc \notin Reading \cup {"connect"}, response # "NO_DATA"
               PROVE  LET o == buf[1][1]
                      IN  /\ o >= typed
                          /\ setup.wanted = "FILE" \/ o = typed => TypeOf(offers[o].targets) = setup.wanted
    BY DEF ContentsFitType
  <2>1. Used
    BY <1>1 DEF IInv, TypeOK, Reading, Used
  <2>2. context = "READ" /\ buf # <<>>
    BY <1>1, <2>1 DEF IInv, Purpose
  <2>3. asked # 0 /\ buf[1][1] = asked /\ target \in offers[asked].targets \cup {"TARGETS"}
    BY <1>1, <2>2, ReadContents
  <2>4. asked >= typed
    BY <1>1, <2>1, <2>3 DEF IInv, Purpose
  <2>5. setup.wanted = "FILE" => TypeOf(offers[asked].targets) = "FILE"
    BY <1>1, <2>1, <2>2, <2>3 DEF IInv, Purpose, TypeOf, FILES
  <2>6. TypeOf(offers[typed].targets) = setup.wanted
    BY <1>1, <2>1 DEF IInv, Purpose
  <2> QED
    BY <2>3, <2>4, <2>5, <2>6
<1> QED
  BY <1>1, IInvHolds, PTL

\* What a path begins with and the rest of it.
LEMMA PathRest ==
  ASSUME NEW d \in Seq(STRING), NEW p \in Seq(STRING), IsStrictPrefix(d, p)
  PROVE  Len(p) > Len(d) /\ d \o SubSeq(p, Len(d) + 1, Len(p)) = p
<1> DEFINE m == Len(d)
           n == Len(p)
           r == SubSeq(p, m + 1, n)
<1>1. m \in Nat /\ n \in Nat /\ m <= n /\ SubSeq(d, 1, m) = SubSeq(p, 1, m) /\ d # p
  BY DEF IsStrictPrefix, IsPrefix
<1>2. \A k \in 1 .. m : d[k] = p[k]
  <2>1. \A k \in 1 .. m : SubSeq(d, 1, m)[k] = d[k] /\ SubSeq(p, 1, m)[k] = p[k]
    BY <1>1
  <2> QED
    BY <1>1, <2>1
<1>3. m # n
  BY <1>1, <1>2, SeqEqual
<1>4. m < n
  BY <1>1, <1>3
<1>5. r \in Seq(STRING) /\ Len(r) = n - m /\ \A k \in 1 .. n - m : r[k] = p[m + k]
  BY <1>1, <1>4
<1>0. Len(d) = m
  OBVIOUS
<1> HIDE DEF r, m, n
<1>6. /\ d \o r \in Seq(STRING) /\ Len(d \o r) = n
      /\ \A k \in 1 .. n : (d \o r)[k] = IF k <= m THEN d[k] ELSE r[k - m]
  <2>1. /\ d \o r \in Seq(STRING) /\ Len(d \o r) = Len(d) + Len(r)
        /\ \A k \in 1 .. Len(d) + Len(r) : (d \o r)[k] = IF k <= Len(d) THEN d[k] ELSE r[k - Len(d)]
    BY <1>5, ConcatProperties
  <2>2. Len(d) + Len(r) = n
    BY <1>0, <1>1, <1>5
  <2> QED
    BY <1>0, <2>1, <2>2
<1>7. ASSUME NEW k \in 1 .. n PROVE (d \o r)[k] = p[k]
  <2>1. CASE k <= m
    <3>1. k \in 1 .. m
      BY <1>1, <2>1
    <3> QED
      BY <1>2, <1>6, <2>1, <3>1
  <2>2. CASE k > m
    <3>1. k - m \in 1 .. n - m /\ m + (k - m) = k /\ ~(k <= m)
      BY <1>1, <2>2
    <3>2. r[k - m] = p[m + (k - m)]
      BY <1>5, <3>1
    <3> QED
      BY <1>6, <3>1, <3>2
  <2>3. k <= m \/ k > m
    BY <1>1
  <2> QED
    BY <2>1, <2>2, <2>3
<1>8. d \o r = p
  BY <1>6, <1>7, SeqEqual DEF n
<1> QED
  BY <1>4, <1>8 DEF r, m, n

\* The names that are sent, put after the directory of the first entry, are the
\* paths of the files: path_len cuts every path below that directory at its end.
THEOREM NamesArePaths == Spec => []NamesFollowTree
<1>1. ASSUME IInv PROVE NamesFollowTree
  <2> DEFINE first == entries[1].path
             dir == Front(first)
  <2> SUFFICES ASSUME setup.wanted = "FILE", setup.version > 1, sent # <<>>,
                      NEW k \in DOMAIN sent, IsStrictPrefix(dir, sent[k].path)
               PROVE  dir \o sent[k].name = sent[k].path
    BY DEF NamesFollowTree
  <2>1. sent \in Seq(SentFiles) /\ Used /\ lst # <<>>
    BY <1>1 DEF IInv, Named
  <2>2. entries \in Seq(FileEntry) /\ Len(entries) \in Nat
    BY <1>1, <2>1, UsedEntries
  <2>3. entries # <<>> /\ path_len = Len(first) - 1 /\ path_len \in Nat
    BY <1>1, <2>1 DEF IInv, Named, TypeOK
  <2>4. first \in Seq(STRING)
    <3>1. entries[1] \in FileEntry
      BY <2>2, <2>3
    <3> QED
      BY <3>1 DEF FileEntry
  <2>5. dir \in Seq(STRING) /\ Len(dir) = path_len
    BY <2>3, <2>4 DEF Front
  <2>6. sent[k] \in SentFiles
    BY <2>1
  <2>7. PICK s \in Items : sent[k] = [name |-> NameOf(s.path), path |-> s.path, dir |-> s.dir]
    BY <2>6 DEF SentFiles
  <2>8. sent[k].path = s.path /\ sent[k].name = NameOf(s.path) /\ s.path \in Seq(STRING)
    BY <2>7, TreeAssumption DEF Items
  <2>9. Len(s.path) > path_len /\ dir \o SubSeq(s.path, path_len + 1, Len(s.path)) = s.path
    BY <2>5, <2>8, PathRest
  <2>10. NameOf(s.path) = SubSeq(s.path, path_len + 1, Len(s.path))
    <3>1. setup.version # 1
      BY <1>1, OffersType DEF IInv, TypeOK
    <3> QED
      BY <2>9, <3>1 DEF NameOf
  <2> QED
    BY <2>8, <2>9, <2>10
<1> QED
  BY <1>1, IInvHolds, PTL

-----------------------------------------------------------------------------
(* The list of files that is made and sent *)

\* The files on the list, and those of the entries before one.
ListedFiles == {lst[n].path : n \in {n \in DOMAIN lst : ~lst[n].dir}}
Before(n)   == UNION {FilesOf(entries[k].path) : k \in {k \in Usable : k < n}}

\* An entry at which the list ends.
Ends(k) == setup.version > 1 /\ entries[k].path \in DOMAIN Tree /\ Tree[entries[k].path] = "special"

\* The user deletes files only.
OnlyFilesGone == gone \subseteq {p \in DOMAIN Tree : Tree[p] = "file"}

\* What is on the list after the entries that were taken.
Collected ==
    /\ OnlyFilesGone
    /\ setup.wanted = "FILE" /\ Used =>
          /\ i <= Len(entries) => \A k \in 1 .. i - 1 : entries[k].url /\ ~Ends(k)
          /\ pc # "list" => ~MoreEntries
          /\ ListedFiles \subseteq Before(i) /\ Before(i) \ gone \subseteq ListedFiles
          /\ Apart => \A m, n \in DOMAIN lst :
                         ~lst[m].dir /\ ~lst[n].dir /\ lst[m].path = lst[n].path => m = n

\* What has been sent of it.
Transferred ==
    setup.wanted = "FILE" /\ Used =>
        /\ Len(sent) <= Len(lst)
        /\ \A k \in DOMAIN sent : sent[k].path = lst[k].path /\ sent[k].dir = lst[k].dir
        /\ (pc = "transfer" \/ response = "OK") /\ setup.version > 1 => announced = Len(lst)
        /\ response = "OK" => Len(sent) = ToSend

\* The files up to some levels below a directory, and those that were found.
Below(p, n) ==
    {q \in DOMAIN Tree :
        /\ Tree[q] = "file" /\ IsStrictPrefix(p, q) /\ Len(q) - Len(p) <= n
        /\ \A k \in Len(p) .. Len(q) - 1 : SubSeq(q, 1, k) \in Directories}
FilesIn(S) == {q \in DOMAIN Tree : File(q) \in S}

-----------------------------------------------------------------------------
(* Paths *)

\* A path is a prefix of another if it agrees with the beginning of it.
LEMMA PrefixElements ==
  ASSUME NEW p \in Seq(STRING), NEW q \in Seq(STRING)
  PROVE  IsPrefix(p, q) <=> Len(p) <= Len(q) /\ \A k \in 1 .. Len(p) : p[k] = q[k]
<1> DEFINE m == Len(p)
<1>1. m \in Nat /\ Len(q) \in Nat
  OBVIOUS
<1>2. SubSeq(p, 1, m) = p
  BY SubSeqFull
<1>3. ASSUME m <= Len(q)
      PROVE  /\ SubSeq(q, 1, m) \in Seq(STRING) /\ Len(SubSeq(q, 1, m)) = m
             /\ \A k \in 1 .. m : SubSeq(q, 1, m)[k] = q[k]
  BY <1>1, <1>3
<1>4. ASSUME m <= Len(q), \A k \in 1 .. m : p[k] = q[k]
      PROVE  p = SubSeq(q, 1, m)
  <2>1. \A k \in 1 .. m : p[k] = SubSeq(q, 1, m)[k]
    BY <1>3, <1>4
  <2> QED
    BY <1>3, <1>4, <2>1, SeqEqual
<1>5. ASSUME m <= Len(q), p = SubSeq(q, 1, m)
      PROVE  \A k \in 1 .. m : p[k] = q[k]
  BY <1>3, <1>5
<1> QED
  BY <1>2, <1>4, <1>5 DEF IsPrefix

\* The beginning of a path.
LEMMA Beginning ==
  ASSUME NEW q \in Seq(STRING), NEW n \in 0 .. Len(q)
  PROVE  /\ SubSeq(q, 1, n) \in Seq(STRING) /\ Len(SubSeq(q, 1, n)) = n
         /\ \A k \in 1 .. n : SubSeq(q, 1, n)[k] = q[k]
         /\ IsPrefix(SubSeq(q, 1, n), q)
<1>1. /\ SubSeq(q, 1, n) \in Seq(STRING) /\ Len(SubSeq(q, 1, n)) = n
      /\ \A k \in 1 .. n : SubSeq(q, 1, n)[k] = q[k]
  OBVIOUS
<1>2. n <= Len(q)
  OBVIOUS
<1> QED
  BY <1>1, <1>2, PrefixElements

\* A prefix is the beginning of its length.
LEMMA PrefixIsBeginning ==
  ASSUME NEW p \in Seq(STRING), NEW q \in Seq(STRING), IsPrefix(p, q)
  PROVE  Len(p) \in 0 .. Len(q) /\ SubSeq(q, 1, Len(p)) = p
<1>1. SubSeq(p, 1, Len(p)) = p
  BY SubSeqFull
<1> QED
  BY <1>1 DEF IsPrefix

\* A prefix of a prefix is one, and a longer path is a strict one.
LEMMA PrefixChain ==
  ASSUME NEW p \in Seq(STRING), NEW c \in Seq(STRING), NEW q \in Seq(STRING), IsPrefix(p, c), IsPrefix(c, q)
  PROVE  IsPrefix(p, q)
<1>1. Len(p) <= Len(c) /\ \A k \in 1 .. Len(p) : p[k] = c[k]
  BY PrefixElements
<1>2. Len(c) <= Len(q) /\ \A k \in 1 .. Len(c) : c[k] = q[k]
  BY PrefixElements
<1>3. Len(p) \in Nat /\ Len(c) \in Nat /\ Len(q) \in Nat
  OBVIOUS
<1>4. Len(p) <= Len(q) /\ \A k \in 1 .. Len(p) : k \in 1 .. Len(c)
  BY <1>1, <1>2, <1>3
<1> QED
  BY <1>1, <1>2, <1>4, PrefixElements

\* Two prefixes of a path are prefixes of each other, the shorter one of the longer.
LEMMA PrefixesCompare ==
  ASSUME NEW p \in Seq(STRING), NEW c \in Seq(STRING), NEW q \in Seq(STRING), IsPrefix(p, q), IsPrefix(c, q),
         Len(p) <= Len(c)
  PROVE  IsPrefix(p, c)
<1>1. \A k \in 1 .. Len(p) : p[k] = q[k]
  BY PrefixElements
<1>2. \A k \in 1 .. Len(c) : c[k] = q[k]
  BY PrefixElements
<1>3. \A k \in 1 .. Len(p) : k \in 1 .. Len(c)
  OBVIOUS
<1> QED
  BY <1>1, <1>2, <1>3, PrefixElements

\* A strict prefix is a shorter one.
LEMMA StrictIsShorter ==
  ASSUME NEW p \in Seq(STRING), NEW q \in Seq(STRING)
  PROVE  IsStrictPrefix(p, q) <=> IsPrefix(p, q) /\ Len(p) < Len(q)
<1>1. Len(p) \in Nat /\ Len(q) \in Nat
  OBVIOUS
<1>2. ASSUME IsPrefix(p, q), Len(p) = Len(q) PROVE p = q
  <2>1. SubSeq(q, 1, Len(q)) = q
    BY SubSeqFull
  <2>2. SubSeq(q, 1, Len(p)) = p
    BY <1>2, PrefixIsBeginning
  <2> QED
    BY <1>2, <2>1, <2>2
<1>3. ASSUME IsPrefix(p, q) PROVE Len(p) <= Len(q)
  BY <1>3 DEF IsPrefix
<1>4. p = q => Len(p) = Len(q)
  OBVIOUS
<1> QED
  BY <1>1, <1>2, <1>3, <1>4 DEF IsStrictPrefix

-----------------------------------------------------------------------------
(* What _recurse_dir finds *)

\* The files below a directory are those in it and those below its directories.
LEMMA BelowStep ==
  ASSUME NEW p \in Directories, NEW n \in Nat, NEW q \in DOMAIN Tree
  PROVE  q \in Below(p, n + 1) <=>
            \/ Tree[q] = "file" /\ IsPrefix(p, q) /\ Len(q) = Len(p) + 1
            \/ \E c \in Directories : IsPrefix(p, c) /\ Len(c) = Len(p) + 1 /\ q \in Below(c, n)
<1>0. /\ p \in Seq(STRING) /\ q \in Seq(STRING) /\ Len(p) \in Nat /\ Len(q) \in Nat
      /\ \A c \in Directories : c \in Seq(STRING) /\ Len(c) \in Nat
  BY TreeAssumption DEF Directories
<1>1. ASSUME Tree[q] = "file", IsPrefix(p, q), Len(q) = Len(p) + 1
      PROVE  q \in Below(p, n + 1)
  <2>1. IsStrictPrefix(p, q) /\ Len(q) - Len(p) <= n + 1
    BY <1>0, <1>1, StrictIsShorter
  <2>2. ASSUME NEW k \in Len(p) .. Len(q) - 1 PROVE SubSeq(q, 1, k) \in Directories
    <3>1. k = Len(p)
      BY <1>0, <1>1
    <3> QED
      BY <1>0, <1>1, <3>1, PrefixIsBeginning
  <2> QED
    BY <1>1, <2>1, <2>2 DEF Below
<1>2. ASSUME NEW c \in Directories, IsPrefix(p, c), Len(c) = Len(p) + 1, q \in Below(c, n)
      PROVE  q \in Below(p, n + 1)
  <2>1. /\ Tree[q] = "file" /\ IsStrictPrefix(c, q) /\ Len(q) - Len(c) <= n
        /\ \A k \in Len(c) .. Len(q) - 1 : SubSeq(q, 1, k) \in Directories
    BY <1>2 DEF Below
  <2>2. IsPrefix(c, q) /\ Len(c) < Len(q)
    BY <1>0, <2>1, StrictIsShorter
  <2>3. IsPrefix(p, q) /\ Len(p) < Len(q)
    BY <1>0, <1>2, <2>2, PrefixChain
  <2>4. IsStrictPrefix(p, q) /\ Len(q) - Len(p) <= n + 1
    BY <1>0, <1>2, <2>1, <2>3, StrictIsShorter
  <2>5. ASSUME NEW k \in Len(p) .. Len(q) - 1 PROVE SubSeq(q, 1, k) \in Directories
    <3>1. CASE k = Len(p)
      BY <1>0, <2>3, <3>1, PrefixIsBeginning
    <3>2. CASE k \in Len(c) .. Len(q) - 1
      BY <2>1, <3>2
    <3> QED
      BY <1>0, <1>2, <3>1, <3>2
  <2> QED
    BY <2>1, <2>4, <2>5 DEF Below
<1>3. ASSUME q \in Below(p, n + 1), Len(q) # Len(p) + 1
      PROVE  \E c \in Directories : IsPrefix(p, c) /\ Len(c) = Len(p) + 1 /\ q \in Below(c, n)
  <2> DEFINE c == SubSeq(q, 1, Len(p) + 1)
  <2>1. /\ Tree[q] = "file" /\ IsStrictPrefix(p, q) /\ Len(q) - Len(p) <= n + 1
        /\ \A k \in Len(p) .. Len(q) - 1 : SubSeq(q, 1, k) \in Directories
    BY <1>3 DEF Below
  <2>2. IsPrefix(p, q) /\ Len(p) + 1 < Len(q)
    BY <1>0, <1>3, <2>1, StrictIsShorter
  <2>3. Len(p) + 1 \in Len(p) .. Len(q) - 1 /\ Len(p) + 1 \in 0 .. Len(q)
    BY <1>0, <2>2
  <2>4. c \in Directories
    BY <2>1, <2>3
  <2>5. c \in Seq(STRING) /\ Len(c) = Len(p) + 1 /\ IsPrefix(c, q)
    BY <1>0, <2>3, Beginning
  <2> HIDE DEF c
  <2>6. IsPrefix(p, c)
    BY <1>0, <2>2, <2>5, PrefixesCompare
  <2>7. IsStrictPrefix(c, q) /\ Len(q) - Len(c) <= n
    BY <1>0, <2>1, <2>2, <2>5, StrictIsShorter
  <2>8. \A k \in Len(c) .. Len(q) - 1 : k \in Len(p) .. Len(q) - 1
    BY <1>0, <2>5
  <2>9. q \in Below(c, n)
    BY <2>1, <2>7, <2>8 DEF Below
  <2> QED
    BY <2>4, <2>5, <2>6, <2>9
<1>4. ASSUME q \in Below(p, n + 1) PROVE Tree[q] = "file" /\ IsPrefix(p, q)
  BY <1>4 DEF Below, IsStrictPrefix
<1> QED
  BY <1>1, <1>2, <1>3, <1>4

\* A directory that has a file below it is not empty.
LEMMA BelowHasChild ==
  ASSUME OnlyFilesGone, NEW p \in Directories, NEW n \in Nat, NEW q \in Below(p, n + 1), q \notin gone
  PROVE  Children(p) # {}
<1>0. q \in DOMAIN Tree
  BY DEF Below
<1>1. CASE Tree[q] = "file" /\ IsPrefix(p, q) /\ Len(q) = Len(p) + 1
  BY <1>0, <1>1 DEF Children
<1>2. ASSUME NEW c \in Directories, IsPrefix(p, c), Len(c) = Len(p) + 1 PROVE c \in Children(p)
  BY <1>2 DEF Children, Directories, OnlyFilesGone
<1> QED
  BY <1>0, <1>1, <1>2, BelowStep

\* So many levels of a directory that can be read are listed, and of one that
\* cannot nothing.
LEMMA LevelFiles ==
  ASSUME OnlyFilesGone, NEW levels \in 0 .. MAX_RECURSE_DEPTH
  PROVE  \A p \in DOMAIN Tree :
            /\ Tree[p] = "dir" => FilesIn(RecurseDir[levels][p]) = Below(p, levels) \ gone
            /\ Tree[p] = "locked" => RecurseDir[levels][p] = {}
<1> DEFINE Right(n) == \A p \in DOMAIN Tree :
                          /\ Tree[p] = "dir" => FilesIn(RecurseDir[n][p]) = Below(p, n) \ gone
                          /\ Tree[p] = "locked" => RecurseDir[n][p] = {}
           T == {n \in Nat : n <= MAX_RECURSE_DEPTH => Right(n)}
<1>0. MAX_RECURSE_DEPTH \in Nat
  BY LimitsAssumption
<1>1. 0 \in T
  <2>1. RecurseDir[0] = [p \in DOMAIN Tree |-> {}]
    BY <1>0, RecurseDirLevels
  <2>2. ASSUME NEW p \in DOMAIN Tree PROVE Below(p, 0) = {} /\ RecurseDir[0][p] = {}
    <3>1. ASSUME NEW q \in Below(p, 0) PROVE FALSE
      <4>1. q \in DOMAIN Tree /\ IsStrictPrefix(p, q) /\ Len(q) - Len(p) <= 0
        BY DEF Below
      <4>2. p \in Seq(STRING) /\ q \in Seq(STRING)
        BY <4>1, TreeAssumption
      <4>3. Len(p) < Len(q) /\ Len(p) \in Nat /\ Len(q) \in Nat
        BY <4>1, <4>2, StrictIsShorter
      <4> QED
        BY <4>1, <4>3
    <3> QED
      BY <2>1, <3>1
  <2>3. Right(0)
    BY <2>2 DEF FilesIn
  <2> QED
    BY <2>3
<1>2. ASSUME NEW n \in Nat, n \in T PROVE n + 1 \in T
  <2> SUFFICES ASSUME n + 1 <= MAX_RECURSE_DEPTH, NEW p \in DOMAIN Tree
               PROVE  /\ Tree[p] = "dir" => FilesIn(RecurseDir[n + 1][p]) = Below(p, n + 1) \ gone
                      /\ Tree[p] = "locked" => RecurseDir[n + 1][p] = {}
    OBVIOUS
  <2>1. n + 1 \in 0 .. MAX_RECURSE_DEPTH /\ n + 1 # 0 /\ (n + 1) - 1 = n
    BY <1>0
  <2>2. RecurseDir[n + 1] = OneLevel(RecurseDir[n])
    BY <2>1, RecurseDirLevels
  <2>3. Right(n)
    BY <1>0, <1>2
  <2> DEFINE below == RecurseDir[n]
  <2> HIDE DEF below, T
  <2>4. Kind(p) = IF p \in gone THEN "missing" ELSE Tree[p]
    BY DEF Kind
  <2>5. Tree[p] \in {"dir", "locked"} => Kind(p) = Tree[p]
    BY <2>4 DEF OnlyFilesGone
  <2>6. ASSUME Tree[p] = "locked" PROVE RecurseDir[n + 1][p] = {}
    BY <2>2, <2>5, <2>6 DEF OneLevel
  <2>7. ASSUME Tree[p] = "dir", NEW q \in DOMAIN Tree
        PROVE  File(q) \in RecurseDir[n + 1][p] <=> q \in Below(p, n + 1) \ gone
    <3>1. p \in Directories /\ Kind(p) = "dir"
      BY <2>5, <2>7 DEF Directories
    <3>2. CASE Children(p) = {}
      <4>1. RecurseDir[n + 1][p] = IF setup.version >= 3 THEN {LeafDir(p)} ELSE {}
        BY <2>2, <3>1, <3>2 DEF OneLevel
      <4>2. File(q) # LeafDir(p)
        BY DEF File, LeafDir
      <4>3. q \notin Below(p, n + 1) \ gone
        BY <3>1, <3>2, BelowHasChild
      <4> QED
        BY <4>1, <4>2, <4>3
    <3>3. CASE Children(p) # {}
      <4>1. RecurseDir[n + 1][p] =
               {File(r) : r \in {c \in Children(p) : Kind(c) = "file"}}
               \cup UNION {below[r] : r \in {c \in Children(p) : Kind(c) \in {"dir", "locked"}}}
        BY <2>2, <3>1, <3>3 DEF OneLevel, below
      <4>2. \A r : File(r) = File(q) => r = q
        BY DEF File
      <4>3. File(q) \in RecurseDir[n + 1][p] <=>
               \/ q \in Children(p) /\ Kind(q) = "file"
               \/ \E c \in Children(p) : Kind(c) \in {"dir", "locked"} /\ File(q) \in below[c]
        BY <4>1, <4>2
      <4>4. q \in Children(p) /\ Kind(q) = "file" <=>
               q \notin gone /\ Tree[q] = "file" /\ IsPrefix(p, q) /\ Len(q) = Len(p) + 1
        BY DEF Children, Kind
      <4>5. ASSUME NEW c \in DOMAIN Tree
            PROVE  c \in Children(p) /\ Kind(c) \in {"dir", "locked"} /\ File(q) \in below[c] <=>
                      c \in Directories /\ IsPrefix(p, c) /\ Len(c) = Len(p) + 1 /\ q \in Below(c, n) \ gone
        <5>1. Tree[c] = "dir" => (File(q) \in below[c] <=> q \in Below(c, n) \ gone)
          BY <2>3 DEF FilesIn, below
        <5>2. Tree[c] = "locked" => File(q) \notin below[c]
          BY <2>3 DEF below
        <5>3. Kind(c) \in {"dir", "locked"} <=> Tree[c] \in {"dir", "locked"}
          BY DEF Kind, OnlyFilesGone
        <5>4. Tree[c] \in {"dir", "locked"} => c \notin gone
          BY DEF OnlyFilesGone
        <5> QED
          BY <5>1, <5>2, <5>3, <5>4 DEF Children, Directories
      <4>6. Children(p) \subseteq DOMAIN Tree /\ Directories \subseteq DOMAIN Tree
        BY DEF Children, Directories
      <4>7. (\E c \in Children(p) : Kind(c) \in {"dir", "locked"} /\ File(q) \in below[c]) <=>
               \E c \in Directories : IsPrefix(p, c) /\ Len(c) = Len(p) + 1 /\ q \in Below(c, n) \ gone
        BY <4>5, <4>6
      <4> QED
        BY <3>1, <4>3, <4>4, <4>7, BelowStep
    <3> QED
      BY <3>2, <3>3
  <2>8. Below(p, n + 1) \subseteq DOMAIN Tree
    BY DEF Below
  <2> QED
    BY <2>6, <2>7, <2>8 DEF FilesIn
<1> HIDE DEF T
<1>3. levels \in T
  BY <1>0, <1>1, <1>2, SetInduction
<1> QED
  BY <1>0, <1>3 DEF T

\* Each entry adds the files that were selected by it and are still there.
LEMMA FoundFiles ==
  ASSUME OnlyFilesGone, setup \in Setups, NEW p
  PROVE  FilesIn(Found(p)) = FilesOf(p) \ gone
<1>0. setup.version \in 1 .. 4 /\ MAX_RECURSE_DEPTH \in Nat
  BY OffersType, LimitsAssumption
<1>1. CASE p \notin DOMAIN Tree
  <2>1. Kind(p) = "missing"
    BY <1>1 DEF Kind
  <2>2. Found(p) = {}
    BY <2>1 DEF Found
  <2> QED
    BY <1>1, <2>2 DEF FilesOf, FilesIn, Directories
<1>2. CASE p \in gone
  <2>1. Kind(p) = "missing" /\ p \in DOMAIN Tree /\ Tree[p] = "file"
    BY <1>2 DEF Kind, OnlyFilesGone
  <2>2. Found(p) = {}
    BY <2>1 DEF Found
  <2> QED
    BY <1>2, <2>1, <2>2 DEF FilesOf, FilesIn, Directories
<1>3. CASE p \in DOMAIN Tree \ gone /\ Tree[p] \in {"file", "link"}
  <2>1. Found(p) = {File(p)}
    BY <1>3 DEF Found, Kind
  <2>2. \A q : File(q) = File(p) => q = p
    BY DEF File
  <2>3. FilesOf(p) = {p}
    BY <1>3 DEF FilesOf, Directories
  <2> QED
    BY <1>3, <2>1, <2>2, <2>3 DEF FilesIn
<1>4. CASE p \in DOMAIN Tree \ gone /\ Tree[p] = "special"
  BY <1>4 DEF Found, Kind, FilesOf, FilesIn, Directories
<1>5. CASE p \in DOMAIN Tree \ gone /\ Tree[p] = "locked"
  <2>1. RecurseDir[MAX_RECURSE_DEPTH][p] = {}
    BY <1>0, <1>5, LevelFiles
  <2>2. Found(p) = {}
    BY <1>5, <2>1 DEF Found, Kind
  <2> QED
    BY <1>5, <2>2 DEF FilesOf, FilesIn, Directories
<1>6. CASE p \in DOMAIN Tree \ gone /\ Tree[p] = "dir"
  <2>1. CASE setup.version > 1
    <3>1. Found(p) = RecurseDir[MAX_RECURSE_DEPTH][p]
      BY <1>6, <2>1 DEF Found, Kind
    <3>2. FilesOf(p) = Below(p, MAX_RECURSE_DEPTH)
      BY <1>6, <2>1 DEF FilesOf, Below, Directories
    <3> QED
      BY <1>0, <1>6, <3>1, <3>2, LevelFiles
  <2>2. CASE ~(setup.version > 1)
    <3>1. Found(p) = {} /\ FilesOf(p) = {}
      BY <1>6, <2>2 DEF Found, Kind, FilesOf, Directories
    <3> QED
      BY <3>1 DEF FilesIn
  <2> QED
    BY <2>1, <2>2
<1> QED
  BY <1>1, <1>2, <1>3, <1>4, <1>5, <1>6, TreeAssumption DEF Kinds

-----------------------------------------------------------------------------
(* The list, entry by entry *)

\* The entries that are looked for are those before the first that ends the list.
LEMMA UsableEntries ==
  ASSUME setup \in Setups, entries \in Seq(FileEntry)
  PROVE  /\ Usable = {k \in 1 .. Len(entries) :
                        (\A j \in 1 .. k : entries[j].url) /\ \A j \in 1 .. k - 1 : ~Ends(j)}
         /\ Len(entries) \in Nat
         /\ \A k \in 1 .. Len(entries) : entries[k].path \in Seq(STRING)
<1>1. Len(entries) \in Nat /\ DOMAIN entries = 1 .. Len(entries)
  OBVIOUS
<1>2. ASSUME NEW k \in 1 .. Len(entries) PROVE entries[k].path \in Seq(STRING)
  <2>1. entries[k] \in FileEntry
    BY <1>1
  <2> QED
    BY <2>1 DEF FileEntry
<1>3. setup.version \in 1 .. 4
  BY OffersType
<1>4. ASSUME NEW j
      PROVE  (setup.version = 1 \/ <<entries[j].path, "special">> \notin {<<p, Tree[p]>> : p \in DOMAIN Tree})
                <=> ~Ends(j)
  BY <1>3 DEF Ends
<1>5. ASSUME NEW k \in 1 .. Len(entries)
      PROVE  (setup.version = 1 \/ \A j \in 1 .. k - 1 :
                 <<entries[j].path, "special">> \notin {<<p, Tree[p]>> : p \in DOMAIN Tree})
                <=> \A j \in 1 .. k - 1 : ~Ends(j)
  BY <1>3, <1>4 DEF Ends
<1> QED
  BY <1>1, <1>2, <1>5 DEF Usable

\* The files of an entry lie at its path or below it.
LEMMA FilesBelow ==
  ASSUME NEW p \in Seq(STRING), NEW q \in FilesOf(p)
  PROVE  q \in Seq(STRING) /\ IsPrefix(p, q)
<1>1. q \in DOMAIN Tree /\ q \in Seq(STRING)
  BY TreeAssumption DEF FilesOf
<1>2. CASE p \in Directories
  BY <1>1, <1>2 DEF FilesOf, IsStrictPrefix
<1>3. CASE p \notin Directories
  <2>1. q = p
    BY <1>3 DEF FilesOf
  <2> QED
    BY <1>1, <2>1, PrefixElements
<1> QED
  BY <1>2, <1>3

\* Entries that are apart have no file in common.
LEMMA ApartFiles ==
  ASSUME setup \in Setups, entries \in Seq(FileEntry), Apart, NEW j \in Usable, NEW k \in Usable,
         NEW q, q \in FilesOf(entries[j].path), q \in FilesOf(entries[k].path)
  PROVE  j = k
<1> DEFINE a == entries[j].path
           b == entries[k].path
<1>1. a \in Seq(STRING) /\ b \in Seq(STRING)
  BY UsableEntries
<1>2. (IsPrefix(a, b) => j = k) /\ (IsPrefix(b, a) => k = j)
  BY DEF Apart
<1> HIDE DEF a, b
<1>3. q \in Seq(STRING) /\ IsPrefix(a, q) /\ IsPrefix(b, q)
  BY <1>1, FilesBelow DEF a, b
<1>4. Len(a) \in Nat /\ Len(b) \in Nat
  BY <1>1
<1>5. Len(a) <= Len(b) \/ Len(b) <= Len(a)
  BY <1>4
<1> QED
  BY <1>1, <1>2, <1>3, <1>5, PrefixesCompare

\* What the list consists of once the files of one more entry are on it.
LEMMA ListGrows ==
  ASSUME OnlyFilesGone, setup \in Setups, lst \in Seq(Items), NEW p
  PROVE  LET L == SetToSeq(Found(p))
             l == lst \o L
         IN  /\ Len(lst) \in Nat /\ DOMAIN lst = 1 .. Len(lst)
             /\ \A n \in DOMAIN l :
                   \/ n \in DOMAIN lst /\ l[n] = lst[n]
                   \/ n - Len(lst) \in DOMAIN L /\ n \notin DOMAIN lst /\ l[n] = L[n - Len(lst)] /\ n \in Nat
             /\ \A n \in DOMAIN l : l[n] \in Items
             /\ \A n \in DOMAIN L : ~L[n].dir => L[n].path \in FilesOf(p) \ gone /\ L[n] = File(L[n].path)
             /\ {l[n].path : n \in {n \in DOMAIN l : ~l[n].dir}} = ListedFiles \cup (FilesOf(p) \ gone)
<1> DEFINE L == SetToSeq(Found(p))
           l == lst \o L
           F == Found(p)
<1>1. /\ L \in Seq(Items) /\ Len(L) \in Nat /\ DOMAIN L = 1 .. Len(L)
      /\ \A n \in DOMAIN L : L[n] \in F
      /\ \A s \in F : \E n \in DOMAIN L : L[n] = s
  BY FoundOnce
<1>2. F \subseteq Items
  BY FoundInTree
<1>3. FilesIn(F) = FilesOf(p) \ gone
  BY FoundFiles
<1>4. Len(lst) \in Nat /\ DOMAIN lst = 1 .. Len(lst)
  OBVIOUS
<1> HIDE DEF L, F
<1>5. /\ l \in Seq(Items) /\ Len(l) = Len(lst) + Len(L) /\ DOMAIN l = 1 .. Len(lst) + Len(L)
      /\ \A n \in 1 .. Len(lst) + Len(L) : l[n] = IF n <= Len(lst) THEN lst[n] ELSE L[n - Len(lst)]
  BY <1>1, ConcatProperties
<1> HIDE DEF l
<1>6. ASSUME NEW n \in DOMAIN l
      PROVE  \/ n \in DOMAIN lst /\ l[n] = lst[n]
             \/ n - Len(lst) \in DOMAIN L /\ n \notin DOMAIN lst /\ l[n] = L[n - Len(lst)] /\ n \in Nat
  BY <1>1, <1>4, <1>5
<1>7. \A n \in DOMAIN l : l[n] \in Items
  BY <1>5
<1>8. ASSUME NEW n \in DOMAIN L, ~L[n].dir
      PROVE  L[n].path \in FilesOf(p) \ gone /\ L[n] = File(L[n].path)
  <2>1. L[n] \in Items /\ L[n] \in F
    BY <1>1, <1>2
  <2>2. PICK q \in DOMAIN Tree, d \in BOOLEAN : L[n] = [path |-> q, dir |-> d]
    BY <2>1 DEF Items
  <2>3. L[n].path = q /\ L[n].dir = d
    BY <2>2
  <2>4. d = FALSE
    BY <1>8, <2>3
  <2>5. L[n] = File(q)
    BY <2>2, <2>4 DEF File
  <2> QED
    BY <1>3, <2>1, <2>3, <2>5 DEF FilesIn
<1>9. \A n \in DOMAIN lst : n \in DOMAIN l /\ l[n] = lst[n]
  BY <1>1, <1>4, <1>5
<1>10. \A n \in DOMAIN L : Len(lst) + n \in DOMAIN l /\ l[Len(lst) + n] = L[n]
  <2>1. ASSUME NEW n \in DOMAIN L
        PROVE  Len(lst) + n \in 1 .. Len(lst) + Len(L) /\ ~(Len(lst) + n <= Len(lst)) /\ (Len(lst) + n) - Len(lst) = n
    BY <1>1, <1>4
  <2> QED
    BY <1>5, <2>1
<1>11. ASSUME NEW q \in FilesOf(p) \ gone PROVE \E n \in DOMAIN l : l[n] = File(q)
  <2>1. File(q) \in F
    BY <1>3 DEF FilesIn
  <2> QED
    BY <1>1, <1>10, <2>1
<1>12. \A q : File(q).path = q /\ ~File(q).dir
  BY DEF File
<1>13. {l[n].path : n \in {n \in DOMAIN l : ~l[n].dir}} \subseteq ListedFiles \cup (FilesOf(p) \ gone)
  BY <1>6, <1>8 DEF ListedFiles
<1>14. ListedFiles \subseteq {l[n].path : n \in {n \in DOMAIN l : ~l[n].dir}}
  BY <1>9 DEF ListedFiles
<1>15. FilesOf(p) \ gone \subseteq {l[n].path : n \in {n \in DOMAIN l : ~l[n].dir}}
  BY <1>11, <1>12
<1> QED
  BY <1>4, <1>6, <1>7, <1>8, <1>13, <1>14, <1>15 DEF l, L

\* What was selected depends on what was read and on the version only.
LEMMA SameSelection ==
  ASSUME UNCHANGED <<setup, buf>>
  PROVE  /\ entries' = entries /\ Usable' = Usable /\ Apart' = Apart /\ Selected' = Selected
         /\ \A k : Ends(k)' = Ends(k)
         /\ \A p : FilesOf(p)' = FilesOf(p)
         /\ \A n : Before(n)' = Before(n)
         /\ i' = i => MoreEntries' = MoreEntries
<1>1. entries' = entries
  BY DEF entries, offers
<1>2. Usable' = Usable
  BY <1>1 DEF Usable
<1>3. Apart' = Apart
  BY <1>1, <1>2 DEF Apart
<1>4. \A k : Ends(k)' = Ends(k)
  BY <1>1 DEF Ends
<1>5. \A p : FilesOf(p)' = FilesOf(p)
  BY DEF FilesOf, Directories
<1>6. \A n : Before(n)' = Before(n)
  BY <1>1, <1>2, <1>5 DEF Before
<1>7. Selected' = Selected
  BY <1>1, <1>2, <1>5 DEF Selected
<1>8. i' = i => MoreEntries' = MoreEntries
  BY <1>1 DEF MoreEntries
<1> QED
  BY <1>1, <1>2, <1>3, <1>4, <1>5, <1>6, <1>7, <1>8

\* The entry that is looked for next is one of those that count, and those before
\* the one after it are those before it and itself.
LEMMA NextEntry ==
  ASSUME IInv, Collected, pc = "list", MoreEntries
  PROVE  LET p == entries[i].path
             n == AfterEntry(p)
         IN  /\ i \in Usable /\ p \in Seq(STRING)
             /\ n <= Len(entries) => \A k \in 1 .. n - 1 : entries[k].url /\ ~Ends(k)
             /\ Before(n) = Before(i) \cup FilesOf(p)
<1> DEFINE p == entries[i].path
           n == AfterEntry(p)
<1>1. Used /\ setup.wanted = "FILE" /\ setup \in Setups
  BY DEF IInv, TypeOK, Purpose, Used
<1>2. entries \in Seq(FileEntry) /\ Len(entries) \in Nat
  BY <1>1, UsedEntries
<1>3. i \in Nat \ {0} /\ i <= Len(entries) /\ entries[i].url
  BY DEF IInv, TypeOK, MoreEntries
<1>4. \A k \in 1 .. i - 1 : entries[k].url /\ ~Ends(k)
  BY <1>1, <1>3 DEF Collected
<1>5. Usable = {k \in 1 .. Len(entries) : (\A j \in 1 .. k : entries[j].url) /\ \A j \in 1 .. k - 1 : ~Ends(j)}
  BY <1>1, <1>2, UsableEntries
<1>6. i \in 1 .. Len(entries) /\ \A j \in 1 .. i : j = i \/ j \in 1 .. i - 1
  BY <1>2, <1>3
<1>7. \A j \in 1 .. i : entries[j].url
  BY <1>3, <1>4, <1>6
<1>8. i \in Usable
  BY <1>4, <1>5, <1>6, <1>7
<1>9. Ends(i) <=> Kind(p) = "special" /\ setup.version > 1
  BY DEF Ends, Kind, Collected, OnlyFilesGone
<1>10. n = IF Ends(i) THEN Len(entries) + 1 ELSE i + 1
  BY <1>9 DEF AfterEntry
<1> HIDE DEF n
<1>11. ASSUME n <= Len(entries), NEW k \in 1 .. n - 1 PROVE entries[k].url /\ ~Ends(k)
  <2>1. n = i + 1 /\ ~Ends(i)
    BY <1>2, <1>10, <1>11
  <2>2. k \in 1 .. i
    BY <1>3, <2>1
  <2> QED
    BY <1>4, <1>6, <1>7, <2>1, <2>2
<1>12. ASSUME NEW k \in Usable PROVE k < n <=> k < i \/ k = i
  <2>1. k \in 1 .. Len(entries) /\ \A j \in 1 .. k - 1 : ~Ends(j)
    BY <1>5
  <2>2. CASE ~Ends(i)
    <3>1. n = i + 1
      BY <1>10, <2>2
    <3> QED
      BY <1>3, <2>1, <3>1
  <2>3. CASE Ends(i)
    <3>1. n = Len(entries) + 1
      BY <1>10, <2>3
    <3>2. i \notin 1 .. k - 1
      BY <2>1, <2>3
    <3> QED
      BY <1>2, <1>3, <2>1, <3>1, <3>2
  <2> QED
    BY <2>2, <2>3
<1>13. {k \in Usable : k < n} = {k \in Usable : k < i} \cup {i}
  BY <1>8, <1>12
<1>14. Before(n) = Before(i) \cup FilesOf(p)
  BY <1>13 DEF Before
<1>15. p \in Seq(STRING)
  BY <1>1, <1>2, <1>6, UsableEntries
<1> QED
  BY <1>8, <1>11, <1>14, <1>15 DEF n

\* Another entry adds its files, and only those.
LEMMA ListEntryCollected == IInv /\ Collected /\ ListEntry => Collected'
<1> SUFFICES ASSUME IInv, Collected, ListEntry PROVE Collected'
  OBVIOUS
<1> DEFINE p == entries[i].path
           L == SetToSeq(Found(p))
<1>1. /\ pc = "list" /\ MoreEntries /\ pc' = pc
      /\ lst' = lst \o L /\ i' = AfterEntry(p)
      /\ UNCHANGED <<setup, gone, buf, response>>
  BY DEF ListEntry, envVars, xVars, sendVars
<1>2. Used /\ setup.wanted = "FILE" /\ setup \in Setups /\ lst \in Seq(Items)
  BY <1>1 DEF IInv, TypeOK, Purpose, Used, Items
<1>3. entries \in Seq(FileEntry) /\ Len(entries) \in Nat
  BY <1>2, UsedEntries
<1>4. /\ i \in Usable /\ p \in Seq(STRING)
      /\ i' <= Len(entries) => \A k \in 1 .. i' - 1 : entries[k].url /\ ~Ends(k)
      /\ Before(AfterEntry(p)) = Before(i) \cup FilesOf(p)
  BY <1>1, NextEntry
<1>5. OnlyFilesGone /\ OnlyFilesGone'
  BY <1>1 DEF Collected, OnlyFilesGone
<1>6. /\ entries' = entries /\ Usable' = Usable /\ Apart' = Apart
      /\ \A k : Ends(k)' = Ends(k)
      /\ \A q : FilesOf(q)' = FilesOf(q)
  BY <1>1, SameSelection
<1>7. Before(i)' = Before(i) \cup FilesOf(p)
  <2>1. Before(i)' = Before(AfterEntry(p))
    BY <1>1, <1>6 DEF Before
  <2> QED
    BY <1>4, <2>1
<1>8. /\ \A n \in DOMAIN lst' :
            \/ n \in DOMAIN lst /\ lst'[n] = lst[n]
            \/ n - Len(lst) \in DOMAIN L /\ n \notin DOMAIN lst /\ lst'[n] = L[n - Len(lst)] /\ n \in Nat
      /\ \A n \in DOMAIN L : ~L[n].dir => L[n].path \in FilesOf(p) \ gone /\ L[n] = File(L[n].path)
      /\ ListedFiles' = ListedFiles \cup (FilesOf(p) \ gone)
      /\ Len(lst) \in Nat
  BY <1>1, <1>2, <1>5, ListGrows DEF ListedFiles
<1>9. ListedFiles \subseteq Before(i) /\ Before(i) \ gone \subseteq ListedFiles
  BY <1>2 DEF Collected
<1>10. ListedFiles' \subseteq Before(i)' /\ Before(i)' \ gone' \subseteq ListedFiles'
  BY <1>1, <1>7, <1>8, <1>9
<1>11. ASSUME Apart, NEW m \in DOMAIN lst', NEW n \in DOMAIN lst', ~lst'[m].dir, ~lst'[n].dir,
              lst'[m].path = lst'[n].path
       PROVE  m = n
  <2> DEFINE Old(k) == k \in DOMAIN lst /\ lst'[k] = lst[k]
             New(k) == k - Len(lst) \in DOMAIN L /\ k \in Nat /\ lst'[k] = L[k - Len(lst)]
  <2>1. (Old(m) \/ New(m)) /\ (Old(n) \/ New(n))
    BY <1>8
  <2>2. CASE Old(m) /\ Old(n)
    BY <1>2, <1>11, <2>2 DEF Collected
  <2>3. ASSUME NEW k \in DOMAIN lst', Old(k), ~lst'[k].dir, lst'[k].path \in FilesOf(p) PROVE FALSE
    <3>1. lst'[k].path \in Before(i)
      BY <1>9, <2>3 DEF ListedFiles
    <3>2. PICK j \in Usable : j < i /\ lst'[k].path \in FilesOf(entries[j].path)
      BY <3>1 DEF Before
    <3>3. j = i
      BY <1>2, <1>3, <1>4, <1>11, <2>3, <3>2, ApartFiles
    <3>4. i \in Nat
      BY DEF IInv, TypeOK
    <3> QED
      BY <3>2, <3>3, <3>4
  <2>4. ASSUME NEW k \in DOMAIN lst', New(k), ~lst'[k].dir PROVE lst'[k].path \in FilesOf(p)
    BY <1>8, <2>4
  <2>5. CASE New(m) /\ New(n)
    <3>1. L[m - Len(lst)] = L[n - Len(lst)]
      BY <1>8, <1>11, <2>5
    <3>2. m - Len(lst) = n - Len(lst)
      BY <2>5, <3>1, FoundOnce
    <3> QED
      BY <1>8, <2>5, <3>2
  <2> HIDE DEF Old, New
  <2> QED
    BY <1>11, <2>1, <2>2, <2>3, <2>4, <2>5
<1>12. pc' = "list"
  BY <1>1
<1> QED
  BY <1>4, <1>5, <1>6, <1>10, <1>11, <1>12 DEF Collected

\* Collected holds of a request that does not use a list of files, and goes on
\* holding as long as the list and what was read are left alone.
LEMMA CollectedStays ==
  ASSUME Collected, OnlyFilesGone', gone \subseteq gone',
         \/ ~(setup'.wanted = "FILE" /\ Used')
         \/ /\ UNCHANGED <<setup, listVars, buf>> /\ Used
            /\ pc' # "list" => pc # "list" \/ ~MoreEntries
  PROVE  Collected'
<1>1. CASE ~(setup'.wanted = "FILE" /\ Used')
  BY <1>1 DEF Collected
<1>2. CASE /\ UNCHANGED <<setup, listVars, buf>> /\ Used
           /\ pc' # "list" => pc # "list" \/ ~MoreEntries
  <2>1. /\ entries' = entries /\ Apart' = Apart /\ MoreEntries' = MoreEntries
        /\ \A k : Ends(k)' = Ends(k)
        /\ \A n : Before(n)' = Before(n)
    BY <1>2, SameSelection DEF listVars
  <2>2. UNCHANGED <<i, lst>>
    BY <1>2 DEF listVars
  <2>3. Before(i)' = Before(i)
    BY <1>2, <2>2, SameSelection DEF Before
  <2>4. ListedFiles' = ListedFiles
    BY <2>2 DEF ListedFiles
  <2>5. setup'.wanted = "FILE" => setup.wanted = "FILE" /\ Used
    BY <1>2
  <2> QED
    BY <1>2, <2>1, <2>2, <2>3, <2>4, <2>5 DEF Collected
<1> QED
  BY <1>1, <1>2

\* Of a list that is started nothing is on it.
LEMMA HaveFilesCollected == IInv /\ Collected /\ HaveFiles => Collected'
<1> SUFFICES ASSUME IInv, Collected, HaveFiles PROVE Collected'
  OBVIOUS
<1>1. pc = "data" /\ UNCHANGED <<setup, gone, buf, listVars>>
  BY DEF HaveFiles, envVars, xVars
<1>2. i = 1 /\ lst = <<>>
  BY <1>1 DEF IInv, Named
<1>3. OnlyFilesGone'
  BY <1>1 DEF Collected, OnlyFilesGone
<1>4. CASE pc' = "done" /\ response' = "NO_DATA"
  BY <1>1, <1>3, <1>4, CollectedStays DEF Used
<1>5. CASE pc' = "list"
  <2>1. i' = 1 /\ lst' = <<>>
    BY <1>1, <1>2 DEF listVars
  <2>2. ListedFiles' = {}
    BY <2>1 DEF ListedFiles
  <2>3. Before(i)' = {}
    <3>1. Usable' \subseteq DOMAIN entries'
      BY DEF Usable
    <3>2. \A k \in DOMAIN entries' : ~(k < 1)
      BY DEF entries
    <3> QED
      BY <2>1, <3>1, <3>2 DEF Before
  <2>4. 1 .. i' - 1 = {} /\ DOMAIN lst' = {}
    BY <2>1
  <2> QED
    BY <1>3, <1>5, <2>2, <2>3, <2>4 DEF Collected
<1> QED
  BY <1>4, <1>5 DEF HaveFiles, Respond

LEMMA CollectedStep == IInv /\ Collected /\ [Next]_vars => Collected'
<1> SUFFICES ASSUME IInv, Collected, [Next]_vars PROVE Collected'
  OBVIOUS
<1>0. Purpose /\ OnlyFilesGone
  BY DEF IInv, Collected
<1>1. gone' = gone => OnlyFilesGone'
  BY <1>0 DEF OnlyFilesGone
<1>2. CASE UNCHANGED <<setup, gone, pc, buf, listVars, response>>
  <2>1. Used' = Used
    BY <1>2 DEF Used
  <2>2. ~(setup'.wanted = "FILE" /\ Used') \/ Used
    BY <2>1
  <2> QED
    BY <1>1, <1>2, <2>2, CollectedStays
<1>3. CASE Copy \/ Quit
  BY <1>2, <1>3 DEF Copy, Quit, xVars, sendVars
<1>4. CASE Delete
  <2>1. gone = {} /\ UNCHANGED <<setup, pc, buf, listVars, response>>
    BY <1>4 DEF Delete, xVars, sendVars
  <2>2. OnlyFilesGone'
    BY <1>4 DEF Delete, OnlyFilesGone
  <2>3. Used' = Used
    BY <2>1 DEF Used
  <2>4. ~(setup'.wanted = "FILE" /\ Used') \/ Used
    BY <2>3
  <2> QED
    BY <2>1, <2>2, <2>4, CollectedStays
<1>5. CASE Answer \/ WriteChunk
  BY <1>2, <1>5 DEF Answer, WriteChunk, envVars, sendVars
<1>6. CASE Open
  <2>1. pc \in Reading /\ UNCHANGED <<gone, pc>>
    BY <1>6 DEF Open, envVars
  <2>2. ~Used'
    BY <2>1 DEF Reading, Used
  <2> QED
    BY <1>1, <2>1, <2>2, CollectedStays
<1>7. CASE TakeEvent
  <2>1. UNCHANGED <<gone, pc, response>> /\ context \in {"SENTCONVSEL", "INCR"}
    BY <1>7 DEF TakeEvent, envVars, sendVars
  <2>2. ~Used'
    BY <1>0, <2>1 DEF Purpose, Used
  <2> QED
    BY <1>1, <2>1, <2>2, CollectedStays
<1>8. CASE CheckType \/ CheckTypeAgain \/ Connect
  <2>1. gone' = gone /\ ~Used'
    BY <1>8 DEF CheckType, CheckTypeAgain, Connect, Respond, Used, envVars
  <2> QED
    BY <1>1, <2>1, CollectedStays
<1>9. CASE SendText
  <2>1. gone' = gone /\ setup'.wanted = "TEXT"
    BY <1>9 DEF SendText, envVars
  <2> QED
    BY <1>1, <2>1, CollectedStays
<1>10. CASE HaveFiles
  BY <1>10, HaveFilesCollected
<1>11. CASE ListEntry
  BY <1>11, ListEntryCollected
<1>12. CASE EndOfList \/ Announce \/ Transfer \/ TransferFails \/ Finish
  <2>1. /\ pc \in {"list", "announce", "transfer"} /\ UNCHANGED <<setup, gone, buf, listVars>>
        /\ pc = "list" => ~MoreEntries
    BY <1>12 DEF EndOfList, Announce, Transfer, TransferFails, Finish, envVars, xVars
  <2>2. Used
    BY <2>1 DEF Used
  <2> QED
    BY <1>1, <2>1, <2>2, CollectedStays
<1>13. CASE UNCHANGED vars
  BY <1>2, <1>13 DEF vars, envVars, xVars, sendVars
<1> QED
  BY <1>3, <1>4, <1>5, <1>6, <1>7, <1>8, <1>9, <1>10, <1>11, <1>12, <1>13
     DEF Next, UserStep, OwnerStep, RequestStep

-----------------------------------------------------------------------------
(* What is sent of the list *)

\* Before the first entry is sent.
LEMMA NothingSent ==
  ASSUME sent' = <<>>, TypeOK', response' # "OK",
         pc' = "transfer" /\ setup'.version > 1 => announced' = Len(lst')
  PROVE  Transferred'
<1>1. Len(lst') \in Nat
  BY DEF TypeOK
<1>2. Len(sent') = 0 /\ DOMAIN sent' = {}
  OBVIOUS
<1> QED
  BY <1>1, <1>2 DEF Transferred

LEMMA TransferredStays ==
  ASSUME Transferred, UNCHANGED <<setup, lst, sent, announced, response>>,
         pc' = "transfer" => pc = "transfer", Used' => Used
  PROVE  Transferred'
<1>1. ToSend' = ToSend
  BY DEF ToSend
<1> QED
  BY <1>1 DEF Transferred

\* What is sent next is the next entry of the list.
LEMMA TransferTransferred == IInv /\ Transferred /\ Transfer => Transferred'
<1> SUFFICES ASSUME IInv, Transferred, Transfer PROVE Transferred'
  OBVIOUS
<1> DEFINE item == lst[Len(sent) + 1]
           new == [name |-> NameOf(item.path), path |-> item.path, dir |-> item.dir]
<1>1. /\ pc = "transfer" /\ Len(sent) < ToSend /\ sent' = Append(sent, new)
      /\ UNCHANGED <<setup, pc, lst, announced, response>>
  BY DEF Transfer, envVars, listVars
<1>2. Used /\ setup.wanted = "FILE" /\ response = "none" /\ lst # <<>>
  BY <1>1 DEF IInv, Purpose, Named, Used
<1>3. sent \in Seq(SentFiles) /\ Len(sent) \in Nat
  BY <1>2 DEF IInv, Named
<1>4. lst \in Seq(Items) /\ Len(lst) \in Nat \ {0}
  BY <1>2 DEF IInv, TypeOK, Items
<1>5. ToSend <= Len(lst) /\ ToSend \in Nat
  BY <1>4 DEF ToSend
<1>6. new.path = item.path /\ new.dir = item.dir /\ new \in SentFiles
  <2>1. Len(sent) + 1 \in 1 .. Len(lst)
    BY <1>1, <1>3, <1>4, <1>5
  <2>2. item \in Items
    BY <1>4, <2>1
  <2> QED
    BY <2>2 DEF SentFiles
<1> HIDE DEF new
<1>7. /\ Len(sent') = Len(sent) + 1 /\ DOMAIN sent' = 1 .. Len(sent) + 1
      /\ sent'[Len(sent) + 1] = new
      /\ \A k \in 1 .. Len(sent) : sent'[k] = sent[k]
  BY <1>1, <1>3, <1>6, AppendProperties
<1>8. Len(sent') <= Len(lst)
  BY <1>1, <1>3, <1>4, <1>5, <1>7
<1>9. ASSUME NEW k \in DOMAIN sent' PROVE sent'[k].path = lst[k].path /\ sent'[k].dir = lst[k].dir
  <2>1. CASE k = Len(sent) + 1
    BY <1>6, <1>7, <2>1
  <2>2. CASE k \in 1 .. Len(sent)
    <3>1. k \in DOMAIN sent
      BY <1>3, <2>2
    <3> QED
      BY <1>2, <1>7, <2>2, <3>1 DEF Transferred
  <2> QED
    BY <1>3, <1>7, <2>1, <2>2
<1>10. setup.version > 1 => announced = Len(lst)
  BY <1>1, <1>2 DEF Transferred
<1> QED
  BY <1>1, <1>2, <1>8, <1>9, <1>10 DEF Transferred

LEMMA TransferredStep == IInv /\ Transferred /\ [Next]_vars => Transferred'
<1> SUFFICES ASSUME IInv, Transferred, [Next]_vars PROVE Transferred'
  OBVIOUS
<1>0. TypeOK' /\ Named /\ Purpose
  BY TypeStep DEF IInv
<1>1. CASE UNCHANGED <<setup, pc, lst, sendVars>>
  BY <1>1, TransferredStays DEF sendVars, Used
<1>2. CASE Copy \/ Quit \/ Delete
  BY <1>1, <1>2 DEF Copy, Quit, Delete, listVars
<1>3. CASE Answer \/ WriteChunk \/ Open \/ TakeEvent
  BY <1>1, <1>3 DEF Answer, WriteChunk, Open, TakeEvent, envVars, listVars
<1>4. CASE CheckType \/ CheckTypeAgain \/ Connect
  <2>1. ~Used'
    BY <1>4 DEF CheckType, CheckTypeAgain, Connect, Respond, Used
  <2> QED
    BY <2>1 DEF Transferred
<1>5. CASE SendText
  BY <1>5 DEF SendText, Transferred, envVars
<1>6. CASE HaveFiles \/ ListEntry \/ EndOfList
  <2>1. pc \in {"data", "list"} /\ sent' = sent /\ pc' # "transfer" /\ response' \in {response, "NO_DATA"}
    BY <1>6 DEF HaveFiles, ListEntry, EndOfList, Respond, sendVars
  <2>2. sent = <<>> /\ response = "none"
    BY <1>0, <2>1 DEF Named, Purpose
  <2> QED
    BY <1>0, <2>1, <2>2, NothingSent
<1>7. CASE Announce
  <2>1. pc = "announce" /\ UNCHANGED <<setup, lst, sent>>
    BY <1>7 DEF Announce, envVars, listVars
  <2>2. sent = <<>> /\ response = "none"
    BY <1>0, <2>1 DEF Named, Purpose
  <2>3. CASE pc' = "transfer" /\ announced' = (IF setup.version > 1 THEN Len(lst) ELSE 0) /\ response' = response
    BY <1>0, <2>1, <2>2, <2>3, NothingSent
  <2>4. CASE pc' = "done" /\ response' = "COMMUNICATION_FAILURE"
    BY <1>0, <2>1, <2>2, <2>4, NothingSent
  <2> QED
    BY <1>7, <2>3, <2>4 DEF Announce, Respond
<1>8. CASE Transfer
  BY <1>8, TransferTransferred
<1>9. CASE TransferFails
  <2>1. /\ pc = "transfer" /\ pc' = "done" /\ UNCHANGED <<setup, lst, sent, announced>>
        /\ response' \in {response, "COMMUNICATION_FAILURE"}
    BY <1>9 DEF TransferFails, envVars, listVars
  <2>2. Used /\ response = "none"
    BY <1>0, <2>1 DEF Used, Purpose
  <2> QED
    BY <2>1, <2>2 DEF Transferred
<1>10. CASE Finish
  <2>1. /\ pc = "transfer" /\ pc' = "done" /\ UNCHANGED <<setup, lst, sent, announced>>
        /\ response' = "OK" /\ Len(sent) = ToSend
    BY <1>10 DEF Finish, Respond, envVars, listVars
  <2>2. Used
    BY <2>1 DEF Used
  <2>3. ToSend' = ToSend
    BY <2>1 DEF ToSend
  <2> QED
    BY <2>1, <2>2, <2>3 DEF Transferred
<1>11. CASE UNCHANGED vars
  BY <1>1, <1>11 DEF vars, envVars, listVars
<1> QED
  BY <1>2, <1>3, <1>4, <1>5, <1>6, <1>7, <1>8, <1>9, <1>10, <1>11
     DEF Next, UserStep, OwnerStep, RequestStep

LEMMA ListHolds == Spec => [](IInv /\ Collected /\ Transferred)
<1>1. Init => Collected /\ Transferred
  <2> SUFFICES ASSUME Init PROVE Collected /\ Transferred
    OBVIOUS
  <2>1. ~Used
    BY DEF Init, Used
  <2>2. OnlyFilesGone
    BY DEF Init, OnlyFilesGone
  <2> QED
    BY <2>1, <2>2 DEF Collected, Transferred
<1>2. IInv /\ (Collected /\ Transferred) /\ [Next]_vars => (Collected /\ Transferred)'
  BY CollectedStep, TransferredStep
<1> QED
  BY <1>1, <1>2, IInvHolds, PTL DEF Spec

\* For every tree of files, list of entries, version and deletion: only files that
\* were selected are sent.  A request that says it succeeded has sent as many entries
\* as it announced, among them every selected file that is still there, each once if
\* no entry lies below another; version 1 has sent one of them.
THEOREM SelectedIsSent == Spec => []OkSendsAll
<1>1. ASSUME IInv, Collected, Transferred PROVE OkSendsAll
  <2> SUFFICES ASSUME setup.wanted = "FILE", sent # <<>> PROVE OkSendsAll
    BY DEF OkSendsAll
  <2> DEFINE files == {k \in DOMAIN sent : ~sent[k].dir}
             paths == {sent[k].path : k \in files}
  <2>1. sent \in Seq(SentFiles) /\ Used /\ lst # <<>>
    BY <1>1 DEF IInv, Named
  <2>2. Len(sent) \in Nat \ {0} /\ DOMAIN sent = 1 .. Len(sent)
    BY <2>1
  <2>3. lst \in Seq(Items) /\ Len(lst) \in Nat /\ DOMAIN lst = 1 .. Len(lst) /\ setup \in Setups
    BY <1>1 DEF IInv, TypeOK, Items
  <2>4. /\ Len(sent) <= Len(lst)
        /\ \A k \in DOMAIN sent : sent[k].path = lst[k].path /\ sent[k].dir = lst[k].dir
    BY <1>1, <2>1 DEF Transferred
  <2>5. files \subseteq {n \in DOMAIN lst : ~lst[n].dir} /\ \A k \in files : sent[k].path = lst[k].path
    BY <2>2, <2>3, <2>4
  <2>6. paths \subseteq ListedFiles
    BY <2>5 DEF ListedFiles
  <2>7. ListedFiles \subseteq Before(i) /\ Before(i) \ gone \subseteq ListedFiles
    BY <1>1, <2>1 DEF Collected
  <2>8. Before(i) \subseteq Selected
    BY DEF Before, Selected
  <2>9. ASSUME response = "OK"
        PROVE  \/ setup.version = 1 /\ Len(sent) = 1
               \/ /\ Len(sent) = announced
                  /\ Selected \ gone \subseteq paths
                  /\ Apart => Cardinality(paths) = Cardinality(files)
    <3>1. Len(sent) = ToSend /\ (setup.version > 1 => announced = Len(lst))
      BY <1>1, <2>1, <2>9 DEF Transferred
    <3>2. CASE setup.version = 1
      BY <3>1, <3>2 DEF ToSend
    <3>3. CASE setup.version # 1
      <4>1. setup.version > 1
        BY <2>3, <3>3, OffersType
      <4>2. Len(sent) = Len(lst) /\ announced = Len(lst)
        BY <3>1, <3>3, <4>1 DEF ToSend
      <4>3. ListedFiles \subseteq paths
        BY <2>2, <2>3, <2>4, <4>2 DEF ListedFiles
      <4>4. pc # "list"
        BY <1>1, <2>9 DEF IInv, Purpose
      <4>5. ~MoreEntries
        BY <1>1, <2>1, <4>4 DEF Collected
      <4>6. Selected \subseteq Before(i)
        <5>1. entries \in Seq(FileEntry)
          BY <1>1, <2>1, UsedEntries
        <5>2. /\ Usable = {k \in 1 .. Len(entries) : (\A j \in 1 .. k : entries[j].url) /\ \A j \in 1 .. k - 1 : ~Ends(j)}
              /\ Len(entries) \in Nat
          BY <2>3, <5>1, UsableEntries
        <5>3. i \in Nat \ {0}
          BY <1>1 DEF IInv, TypeOK
        <5>4. ASSUME NEW k \in Usable PROVE k < i
          <6>1. k \in 1 .. Len(entries) /\ \A j \in 1 .. k : entries[j].url
            BY <5>2
          <6>2. i <= Len(entries) => ~entries[i].url
            BY <4>5 DEF MoreEntries
          <6>3. ~(i <= k)
            BY <5>2, <5>3, <6>1, <6>2
          <6> QED
            BY <5>2, <5>3, <6>1, <6>3
        <5> QED
          BY <5>4 DEF Selected, Before
      <4>7. ASSUME Apart PROVE Cardinality(paths) = Cardinality(files)
        <5> DEFINE f == [k \in files |-> sent[k].path]
        <5>1. \A m, n \in files : sent[m].path = sent[n].path => m = n
          BY <1>1, <2>1, <2>5, <4>7 DEF Collected
        <5>2. files \subseteq 1 .. Len(sent)
          BY <2>2
        <5> HIDE DEF files
        <5>3. IsFiniteSet(files)
          <6>1. 1 \in Int /\ Len(sent) \in Int
            BY <2>2
          <6>2. IsFiniteSet(1 .. Len(sent))
            BY <6>1, FS_Interval
          <6> QED
            BY <5>2, <6>2, FS_Subset
        <5>4. f \in Bijection(files, paths)
          BY <5>1 DEF Bijection, Injection, Surjection, IsInjective
        <5> HIDE DEF f, paths
        <5>5. ExistsBijection(files, paths)
          BY <5>4 DEF ExistsBijection
        <5> QED
          BY <5>3, <5>5, FS_Bijection
      <4> QED
        BY <2>7, <4>2, <4>3, <4>6, <4>7
    <3> QED
      BY <3>2, <3>3
  <2> QED
    BY <2>6, <2>7, <2>8, <2>9 DEF OkSendsAll
<1> QED
  BY <1>1, ListHolds, PTL
=============================================================================
