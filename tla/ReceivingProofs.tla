-------------------------- MODULE ReceivingProofs ---------------------------
(***************************************************************************)
(* Proofs about Receiving.  IInv is the inductive invariant.  Its parts    *)
(* build on each other: where transfers are and what they have in their    *)
(* directories (Base), that directories or names keep transfers apart      *)
(* (Distinct), that so none writes what is another's and a directory moves *)
(* with what is in it (Undisturbed), that only complete files are moved    *)
(* (Complete), that a transfer moves a name once (OneName), and that what  *)
(* came in is still somewhere (Accounted).                                 *)
(*                                                                         *)
(* Most steps are about what an action does to the entries of directories: *)
(* each entry there was there before, or was Made or Moved by the acting   *)
(* transfer (EntriesStep), and none disappears unless a file could not be  *)
(* received or entries are Renamed (EntriesKept).                          *)
(***************************************************************************)
EXTENDS Receiving, WellFoundedInduction, TLAPS

USE VersionAssumption, WorkingDirSetAssumption

-----------------------------------------------------------------------------
(* Numbers, paths and files *)

Less == {s \in Nat \X Nat : s[1] < s[2]}

LEMMA LeastNumber ==
  ASSUME NEW T \in SUBSET Nat, T # {}
  PROVE  \E x \in T : \A y \in T : x <= y
<1>1. IsWellFoundedOn(Less, Nat)
  BY NatLessThanWellFounded DEF OpToRel, Less
<1>2. PICK x \in T : \A y \in T : ~(<<y, x>> \in Less)
  BY <1>1, WFMin
<1>3. ASSUME NEW y \in T PROVE x <= y
  <2>1. <<y, x>> \in Nat \X Nat /\ <<y, x>> \notin Less
    BY <1>2
  <2>2. ~(<<y, x>>[1] < <<y, x>>[2])
    BY <2>1 DEF Less
  <2> QED
    BY <2>2
<1> QED
  BY <1>3

LEMMA PathShape ==
  ASSUME NEW p \in Paths
  PROVE  /\ p[1] \in Bases /\ p[1] # DIR
         /\ \/ p = <<p[1]>> /\ Len(p) = 1 /\ Tail(p) = <<>>
            \/ p = <<p[1], p[2]>> /\ Len(p) = 2 /\ Tail(p) = <<p[2]>>
<1>1. p \in AllPaths => p[1] \in Bases /\ IsPath(p)
  BY SetupsAssumption DEF AllPaths, Bases, IsPath
<1>2. p \in AllPaths \/ \E n \in Bases : p = <<n, DIR>>
  BY DEF Paths
<1>3. p[1] \in Bases /\ (p = <<p[1]>> \/ p = <<p[1], p[2]>>)
  BY <1>1, <1>2 DEF IsPath
<1>4. p[1] # DIR
  BY <1>3, NamesAssumption
<1>5. \A a : Len(<<a>>) = 1 /\ Tail(<<a>>) = <<>>
  OBVIOUS
<1>6. \A a, b : Len(<<a, b>>) = 2 /\ Tail(<<a, b>>) = <<b>>
  OBVIOUS
<1> QED
  BY <1>3, <1>4, <1>5, <1>6

LEMMA SameTail ==
  ASSUME NEW p \in Paths, NEW q \in Paths, p[1] = q[1], Tail(p) = Tail(q)
  PROVE  p = q
<1>1. \/ p = <<p[1]>> /\ Tail(p) = <<>>
      \/ p = <<p[1], p[2]>> /\ Tail(p) = <<p[2]>>
  BY PathShape
<1>2. \/ q = <<q[1]>> /\ Tail(q) = <<>>
      \/ q = <<q[1], q[2]>> /\ Tail(q) = <<q[2]>>
  BY PathShape
<1>3. \A a : <<>> # <<a>>
  OBVIOUS
<1>4. \A a, b : <<a>> = <<b>> => a = b
  OBVIOUS
<1>5. CASE Tail(p) = <<>>
  BY <1>1, <1>2, <1>3, <1>5
<1>6. CASE Tail(p) # <<>>
  BY <1>1, <1>2, <1>4, <1>6
<1> QED
  BY <1>5, <1>6

LEMMA LeafPath ==
  ASSUME NEW p \in Paths
  PROVE  /\ <<p[1], DIR>> \in Paths
         /\ <<p[1], DIR>>[1] = p[1]
         /\ p[Len(p)] = DIR <=> p = <<p[1], DIR>>
  BY PathShape DEF Paths

LEMMA FileShape ==
  ASSUME NEW f \in File
  PROVE  f = <<f[1], f[2]>> /\ f[1] \in Transfers \cup {"user"} /\ f[2] \in Paths
  BY DEF File

LEMMA EntryShape ==
  ASSUME NEW e \in Entry
  PROVE  e.dir \in DirIds \cup {WORK} /\ e.file \in File /\ e.name \in Name
  BY DEF Entry

LEMMA EntryEqual ==
  ASSUME NEW e \in Entry, NEW f \in Entry, e.dir = f.dir, e.name = f.name, e.file = f.file
  PROVE  e = f
  BY DEF Entry

\* A file may have the name it comes with, and its other names are not that of the
\* configuration file.
LEMMA NamesOfFile ==
  ASSUME NEW n \in Bases
  PROVE  /\ n \in MayGet(n) /\ MayGet(n) \subseteq Name /\ Bases \subseteq Name
         /\ \A k \in 1 .. MaxNumber : NameWith(k, n) # CONFIG_FILE
<1>1. MaxNumber \in Nat /\ \A k \in 1 .. MaxNumber : Numbered[k][n] # CONFIG_FILE
  BY NumberedAssumption
<1>2. \A m : NameWith(0, m) = m
  BY DEF NameWith
<1>3. 0 \in 0 .. MaxNumber
  <2>1. MaxNumber \in Nat
    BY <1>1
  <2> QED
    BY <2>1
<1>4. \A m : m \in MayGet(m)
  BY <1>2, <1>3 DEF MayGet
<1>5. ASSUME NEW k \in 1 .. MaxNumber PROVE NameWith(k, n) # CONFIG_FILE
  <2>1. \A j \in 1 .. MaxNumber : j # 0
    BY <1>1
  <2> QED
    BY <1>1, <1>5, <2>1 DEF NameWith
<1> QED
  BY <1>4, <1>5 DEF Name

LEMMA NewDirShape ==
  ASSUME NEW t \in Transfers, NEW p \in Paths, tmp[t] \in DirIds
  PROVE  /\ NewDir(t, p) \subseteq Entry
         /\ \A e \in NewDir(t, p) : /\ e = [dir |-> tmp[t], name |-> p[1], file |-> <<t, <<p[1], DIR>>>>]
                                    /\ Len(p) = 2 /\ ~Exists(tmp[t], p[1])
         /\ NewDir(t, p) = {} => Len(p) = 1 \/ Exists(tmp[t], p[1])
<1> DEFINE new == [dir |-> tmp[t], name |-> p[1], file |-> <<t, <<p[1], DIR>>>>]
<1>1. p[1] \in Bases /\ <<p[1], DIR>> \in Paths /\ (Len(p) = 1 \/ Len(p) = 2)
  BY PathShape, LeafPath
<1>2. new \in Entry
  BY <1>1, NamesOfFile DEF Entry, File
<1>3. NewDir(t, p) = {} \/ (NewDir(t, p) = {new} /\ Len(p) # 1 /\ ~Exists(tmp[t], p[1]))
  BY DEF NewDir
<1>4. NewDir(t, p) = {} => Len(p) = 1 \/ Exists(tmp[t], p[1])
  BY DEF NewDir
<1> QED
  BY <1>1, <1>2, <1>3, <1>4

\* The name that the loop stops at is free, and not that of the configuration file.
LEMMA NewNameIsFree ==
  ASSUME NEW n \in Bases, FreeNumbers(n) # {}
  PROVE  /\ NewName(n) \in MayGet(n) /\ ~Exists(WORK, NewName(n))
         /\ ~WorkingDirSet => NewName(n) # CONFIG_FILE
<1> DEFINE first == IF WorkingDirSet \/ n # CONFIG_FILE THEN 0 ELSE 1
           k0    == CHOOSE k \in FreeNumbers(n) : \A j \in FreeNumbers(n) : k <= j
<1>1. MaxNumber \in Nat /\ first \in {0, 1} /\ (~WorkingDirSet /\ n = CONFIG_FILE => first = 1)
  BY NumberedAssumption
<1>2. FreeNumbers(n) = {k \in first .. MaxNumber : ~Exists(WORK, NameWith(k, n))}
  BY DEF FreeNumbers
<1> HIDE DEF first
<1>3. FreeNumbers(n) \in SUBSET Nat
  BY <1>1, <1>2
<1>4. \E k \in FreeNumbers(n) : \A j \in FreeNumbers(n) : k <= j
  BY <1>3, LeastNumber
<1>5. k0 \in FreeNumbers(n)
  BY <1>4
<1>6. NewName(n) = NameWith(k0, n)
  BY DEF NewName
<1> HIDE DEF k0
<1>7. k0 \in 0 .. MaxNumber /\ ~Exists(WORK, NameWith(k0, n)) /\ (first = 1 => k0 \in 1 .. MaxNumber)
  BY <1>1, <1>2, <1>5
<1>8. ASSUME ~WorkingDirSet PROVE NewName(n) # CONFIG_FILE
  <2>1. CASE n = CONFIG_FILE
    BY <1>1, <1>6, <1>7, <1>8, <2>1, NamesOfFile
  <2>2. CASE n # CONFIG_FILE
    <3>1. CASE k0 = 0
      BY <1>6, <2>2, <3>1 DEF NameWith
    <3>2. CASE k0 # 0
      <4>1. k0 \in 1 .. MaxNumber
        BY <1>1, <1>7, <3>2
      <4> QED
        BY <1>6, <4>1, NamesOfFile
    <3> QED
      BY <3>1, <3>2
  <2> QED
    BY <2>1, <2>2
<1> QED
  BY <1>6, <1>7, <1>8 DEF MayGet

-----------------------------------------------------------------------------
(* The invariant *)

Active(t) == pc[t] \notin {"start", "done"}

\* What a transfer brings, by the names in its temporary directory.
Names(t) == {p[1] : p \in Incoming[t]}

\* Where a transfer is in its loops: whether it has a directory, and what is left.
Control(t) ==
    /\ pc[t] \in {"start", "pick"} => tmp[t] = WORK
    /\ Active(t) /\ pc[t] # "pick" => tmp[t] \in DirIds
    /\ pc[t] \in {"open", "write"} => cur[t] \in File
    /\ pc[t] = "open" => cur[t][1] = t /\ cur[t][2] \in left[t]
    /\ left[t] \subseteq Incoming[t]
    /\ ~setup.together /\ Active(t) => \A u \in Transfers : Active(u) => u = t

\* What is in a temporary directory was made by a transfer that uses it, under
\* its own name; the user has nothing there.  In the working directory an entry
\* has one of the names it may get.
Located(e) ==
    /\ e.file[1] = "user" => e.dir = WORK /\ e.file \in written
    /\ e.file[2] = <<e.file[2][1], DIR>> => e.file \in written
    /\ e.file[1] # "user" => e.file[2][1] \in Names(e.file[1])
    /\ e.dir = WORK => e.name \in MayGet(e.file[2][1])
    /\ e.dir # WORK =>
         /\ e.dir \in dirs /\ e.name = e.file[2][1] /\ e.dir = tmp[e.file[1]]

\* The name chosen for the next entry is neither that of the configuration nor of
\* anything that may not be replaced.
Chosen(t) ==
    pc[t] = "rename" =>
       /\ dest[t] \in Bases \X Name /\ dest[t][2] \in MayGet(dest[t][1])
       /\ ~WorkingDirSet => dest[t][2] # CONFIG_FILE
       /\ \A e \in Placed : e.name = dest[t][2] => setup.together /\ e.file[1] # "user"

Base ==
    /\ TypeOK
    /\ \A t \in Transfers : Control(t) /\ Chosen(t)
    /\ \A e \in entries : Located(e)

Separate == Apart \/ ~setup.sameSecond

\* Without a temporary directory in common, or with names of their own, transfers
\* keep out of each other's way.
Distinct ==
    /\ ~setup.sameSecond => \A t, u \in Transfers : t # u /\ tmp[t] = tmp[u] => tmp[t] = WORK
    /\ ~setup.together => \A e \in entries : \A t \in Transfers :
          Active(t) /\ e.dir # WORK /\ e.dir = tmp[t] => e.file[1] = t

Undisturbed ==
    Separate =>
       /\ spoiled = {}
       /\ \A t \in Transfers :
            /\ pc[t] = "write" => cur[t][1] = t /\ cur[t][2] \in Incoming[t] \ left[t]
                                  /\ cur[t][2][Len(cur[t][2])] # DIR
            /\ pc[t] \in {"list", "choose", "rename", "rmdir", "ack"} => left[t] = {}
       /\ \A e \in entries : e.file[1] # "user" =>
            /\ e.file[2] \in left[e.file[1]] => e.file[2][Len(e.file[2])] = DIR
            /\ Len(e.file[2]) = 2 =>
                 \E d \in entries : d.dir = e.dir /\ d.name = e.name
                                    /\ d.file = <<e.file[1], <<e.file[2][1], DIR>>>>

Complete ==
    ~setup.sameSecond =>
       \A e \in entries :
          \/ e.file \in written \cup torn
          \/ e.dir # WORK /\ pc[e.file[1]] \in {"write", "done"} /\ cur[e.file[1]] = e.file

OneName ==
    ~setup.sameSecond =>
      /\ \A e1, e2 \in entries :
          e1.file[1] # "user" /\ e1.file[1] = e2.file[1] /\ e1.file[2][1] = e2.file[2][1] =>
             e1.dir = e2.dir /\ e1.name = e2.name
      /\ \A e \in entries : e.file[1] # "user" /\ e.dir = WORK =>
             pc[e.file[1]] \in {"choose", "rename", "rmdir", "ack", "done"}

Accounted ==
    Apart =>
      \A t \in Transfers :
        /\ ~failed[t] => \A p \in Incoming[t] \ left[t] :
              /\ \E e \in entries : e.file = <<t, p>>
              /\ <<t, p>> \in written \cup torn \/ (pc[t] = "write" /\ cur[t] = <<t, p>>)
        /\ t \in acked => pc[t] = "done" /\ ~failed[t] /\ left[t] = {}
        /\ ~failed[t] /\ (pc[t] = "ack" \/ t \in acked) =>
              \A e \in entries : e.file[1] = t => e.dir = WORK

IInv == Base /\ Distinct /\ Undisturbed /\ Complete /\ OneName /\ Accounted

-----------------------------------------------------------------------------
(* Types *)

LEMMA IncomingPaths ==
  ASSUME setup \in Setups, NEW t \in Transfers
  PROVE  Incoming \in [Transfers -> SUBSET AllPaths] /\ Incoming[t] \subseteq Paths
  BY SetupsAssumption DEF Incoming, Paths

LEMMA TypeInit == Init => TypeOK
<1> SUFFICES ASSUME Init PROVE TypeOK
  OBVIOUS
<1>1. \A n \in Existing : <<n>> \in Paths /\ <<n>>[1] \in Bases
  BY DEF AllPaths, Paths, Bases
<1>2. entries \subseteq Entry /\ written \subseteq File
  BY <1>1, NamesOfFile DEF Init, Entry, File, WORK
<1>3. left \in [Transfers -> SUBSET Paths]
  <2>1. left \in [Transfers -> SUBSET AllPaths]
    BY SetupsAssumption DEF Init, Incoming
  <2> QED
    BY <2>1 DEF Paths
<1> QED
  BY <1>2, <1>3 DEF Init, TypeOK

LEMMA TypeStep ==
  TypeOK /\ (\A t \in Transfers : Control(t) /\ Chosen(t)) /\ (\A e \in entries : Located(e)) /\ [Next]_vars
     => TypeOK'
<1> SUFFICES ASSUME TypeOK, \A t \in Transfers : Control(t) /\ Chosen(t),
                    \A e \in entries : Located(e), [Next]_vars
             PROVE  TypeOK'
  OBVIOUS
<1> USE DEF TypeOK, Step, Fails
<1>1. ASSUME NEW t \in Transfers, Start(t), UNCHANGED setup PROVE TypeOK'
  BY <1>1 DEF Start
<1>2. ASSUME NEW t \in Transfers, PickDir(t), UNCHANGED setup PROVE TypeOK'
  BY <1>2 DEF PickDir
<1>3. ASSUME NEW t \in Transfers, MakeDir(t), UNCHANGED setup PROVE TypeOK'
  BY <1>3 DEF MakeDir, Control, Active
<1>4. ASSUME NEW t \in Transfers, CheckName(t), UNCHANGED setup PROVE TypeOK'
  <2>1. PICK p \in left[t] :
          LET parents == IF p[Len(p)] = DIR THEN {} ELSE NewDir(t, p)
          IN  /\ Fails(t, "check") \/ (Step(t, "check", "open") /\ UNCHANGED failed)
              /\ cur' = [cur EXCEPT ![t] = <<t, p>>]
              /\ dirs' = IF Version > 1 THEN dirs \cup {tmp[t]} ELSE dirs
              /\ entries' = entries \cup parents
              /\ written' = written \cup {e.file : e \in parents}
              /\ UNCHANGED <<torn, spoiled, tmp, left, todo, dest, acked>>
    BY <1>4 DEF CheckName
  <2> DEFINE parents == IF p[Len(p)] = DIR THEN {} ELSE NewDir(t, p)
  <2>2. p \in Paths /\ tmp[t] \in DirIds
    BY <2>1 DEF Control, Active
  <2>3. parents \subseteq Entry
    BY <2>2, NewDirShape
  <2>5. entries' \subseteq Entry /\ written' \subseteq File
    BY <2>1, <2>3, EntryShape
  <2>6. <<t, p>> \in File
    BY <2>2 DEF File
  <2> QED
    BY <1>4, <2>1, <2>2, <2>5, <2>6
<1>5. ASSUME NEW t \in Transfers, OpenFile(t), UNCHANGED setup PROVE TypeOK'
  <2> DEFINE p      == cur[t][2]
             shared == {e.file : e \in AtPath(tmp[t], p)}
             new    == [dir |-> tmp[t], name |-> p[1], file |-> cur[t]]
  <2>1. cur[t] \in File /\ p \in Paths /\ tmp[t] \in DirIds /\ p[1] \in Bases
    BY <1>5, FileShape, PathShape DEF OpenFile, Control, Active
  <2>2. new \in Entry
    BY <2>1, NamesOfFile DEF Entry
  <2>3. entries \cup {new} \subseteq Entry
    BY <2>2
  <2>4. shared \subseteq File
    BY EntryShape DEF AtPath, At
  <2>5. shared # {} => (CHOOSE f \in shared : TRUE) \in File
    BY <2>4
  <2>6. /\ entries' \subseteq Entry
        /\ spoiled' \subseteq File
        /\ cur' \in [Transfers -> File \cup {None}]
    <3>1. CASE shared = {}
      BY <1>5, <2>3, <3>1 DEF OpenFile
    <3>2. CASE shared # {}
      <4> HIDE DEF shared
      <4>1. entries' = entries /\ spoiled' = spoiled \cup shared
            /\ cur' = [cur EXCEPT ![t] = CHOOSE f \in shared : TRUE]
        BY <1>5, <3>2 DEF OpenFile, shared
      <4> QED
        BY <2>4, <2>5, <3>2, <4>1
    <3> QED
      BY <3>1, <3>2
  <2>7. left' \in [Transfers -> SUBSET Paths] /\ pc' = [pc EXCEPT ![t] = "write"]
        /\ UNCHANGED <<dirs, written, torn, tmp, todo, dest, failed, acked>>
    BY <1>5 DEF OpenFile
  <2> QED
    BY <1>5, <2>6, <2>7
<1>6. ASSUME NEW t \in Transfers, MakeLeafDir(t), UNCHANGED setup PROVE TypeOK'
  <2> DEFINE p == cur[t][2]
  <2>1. cur[t] \in File /\ p \in Paths /\ tmp[t] \in DirIds
    BY <1>6, FileShape DEF MakeLeafDir, Control, Active
  <2>2. NewDir(t, p) \subseteq Entry
    BY <2>1, NewDirShape
  <2>3. /\ entries' = entries \cup NewDir(t, p)
        /\ written' = written \cup {e.file : e \in NewDir(t, p)}
        /\ dirs' = dirs \cup {tmp[t]}
        /\ left' \in [Transfers -> SUBSET Paths]
        /\ pc' = [pc EXCEPT ![t] = AfterItem(t, p)]
        /\ UNCHANGED <<torn, spoiled, tmp, cur, todo, dest, failed, acked>>
    BY <1>6 DEF MakeLeafDir
  <2>5. entries' \subseteq Entry /\ written' \subseteq File
    BY <2>2, <2>3, EntryShape
  <2> QED
    BY <1>6, <2>1, <2>3, <2>5 DEF AfterItem
<1>7. ASSUME NEW t \in Transfers, NotReceived(t), UNCHANGED setup PROVE TypeOK'
  BY <1>7 DEF NotReceived
<1>8. ASSUME NEW t \in Transfers, WriteFile(t), UNCHANGED setup PROVE TypeOK'
  <2>1. cur[t] \in File
    BY <1>8 DEF WriteFile, Control
  <2> QED
    BY <1>8, <2>1 DEF WriteFile, AfterItem
<1>9. ASSUME NEW t \in Transfers, WriteFails(t), UNCHANGED setup PROVE TypeOK'
  <2>1. entries' \subseteq entries
    BY <1>9 DEF WriteFails
  <2> QED
    BY <1>9, <2>1 DEF WriteFails
<1>10. ASSUME NEW t \in Transfers, ListDir(t), UNCHANGED setup PROVE TypeOK'
  <2>1. {e.name : e \in {x \in entries : x.dir = tmp[t]}} \subseteq Bases
    <3>1. tmp[t] # WORK
      BY <1>10, NamesAssumption DEF ListDir, Control, Active, WORK
    <3>2. ASSUME NEW e \in entries, e.dir = tmp[t] PROVE e.name \in Bases
      BY <3>1, <3>2, EntryShape, FileShape, PathShape DEF Located
    <3> QED
      BY <3>2
  <2> QED
    BY <1>10, <2>1 DEF ListDir
<1>11. ASSUME NEW t \in Transfers, ChooseName(t), UNCHANGED setup PROVE TypeOK'
  <2>1. ASSUME NEW n \in todo[t], FreeNumbers(n) # {} PROVE <<n, NewName(n)>> \in Bases \X Name
    <3>1. n \in Bases
      OBVIOUS
    <3> QED
      BY <2>1, <3>1, NewNameIsFree, NamesOfFile
  <2>2. \/ \E n \in todo[t] : /\ FreeNumbers(n) # {} /\ dest' = [dest EXCEPT ![t] = <<n, NewName(n)>>]
                              /\ UNCHANGED <<todo, failed>>
        \/ \E n \in todo[t] : /\ todo' = [todo EXCEPT ![t] = @ \ {n}]
                              /\ failed' = [failed EXCEPT ![t] = TRUE] /\ UNCHANGED dest
        \/ UNCHANGED <<todo, dest, failed>>
    BY <1>11 DEF ChooseName
  <2>3. /\ dest' \in [Transfers -> (Bases \X Name) \cup {None}] /\ todo' \in [Transfers -> SUBSET Bases]
        /\ failed' \in [Transfers -> BOOLEAN]
    BY <2>1, <2>2
  <2>4. /\ \E to \in {"rename", "choose", "rmdir"} : pc' = [pc EXCEPT ![t] = to]
        /\ UNCHANGED <<dirs, entries, written, torn, spoiled, tmp, left, cur, acked>>
    BY <1>11 DEF ChooseName
  <2> QED
    BY <1>11, <2>3, <2>4
<1>12. ASSUME NEW t \in Transfers, Rename(t), UNCHANGED setup PROVE TypeOK'
  <2> DEFINE moved == At(tmp[t], dest[t][1])
             new   == {[dir |-> WORK, name |-> dest[t][2], file |-> e.file] : e \in moved}
  <2>1. dest[t] \in Bases \X Name /\ dest[t][2] \in Name
    BY <1>12 DEF Rename, Chosen
  <2>2. moved \subseteq entries
    BY DEF At
  <2>3. new \subseteq Entry
    BY <2>1, <2>2, EntryShape DEF Entry
  <2>5. entries' = entries \/ entries' = (entries \ (moved \cup At(WORK, dest[t][2]))) \cup new
    BY <1>12 DEF Rename
  <2>6. entries' \subseteq Entry
    BY <2>3, <2>5
  <2> QED
    BY <1>12, <2>6 DEF Rename
<1>13. ASSUME NEW t \in Transfers, RemoveDir(t), UNCHANGED setup PROVE TypeOK'
  BY <1>13 DEF RemoveDir
<1>14. ASSUME NEW t \in Transfers, Acknowledge(t), UNCHANGED setup PROVE TypeOK'
  BY <1>14 DEF Acknowledge
<1>15. ASSUME NEW t \in Transfers, Killed(t), UNCHANGED setup PROVE TypeOK'
  BY <1>15 DEF Killed
<1>16. CASE UNCHANGED vars
  BY <1>16 DEF vars, transferVars
<1> QED
  BY <1>1, <1>2, <1>3, <1>4, <1>5, <1>6, <1>7, <1>8, <1>9, <1>10, <1>11, <1>12, <1>13, <1>14, <1>15, <1>16
     DEF Next, Advance, Terminated

-----------------------------------------------------------------------------
(* Control *)

LEMMA OthersStay ==
  ASSUME TypeOK, NEW t \in Transfers, Advance(t) \/ Killed(t), NEW u \in Transfers, u # t
  PROVE  /\ pc'[u] = pc[u] /\ tmp'[u] = tmp[u] /\ left'[u] = left[u] /\ cur'[u] = cur[u]
         /\ dest'[u] = dest[u] /\ failed'[u] = failed[u] /\ (u \in acked' <=> u \in acked)
<1> DEFINE Stays == /\ pc'[u] = pc[u] /\ tmp'[u] = tmp[u] /\ left'[u] = left[u] /\ cur'[u] = cur[u]
                    /\ dest'[u] = dest[u] /\ failed'[u] = failed[u] /\ (u \in acked' <=> u \in acked)
<1> USE DEF TypeOK, Step, Fails
<1>1. ASSUME Start(t) PROVE Stays
  BY <1>1 DEF Start
<1>2. ASSUME PickDir(t) PROVE Stays
  BY <1>2 DEF PickDir
<1>3. ASSUME MakeDir(t) PROVE Stays
  BY <1>3 DEF MakeDir
<1>4. ASSUME CheckName(t) PROVE Stays
  BY <1>4 DEF CheckName
<1>5. ASSUME OpenFile(t) PROVE Stays
  BY <1>5 DEF OpenFile
<1>6. ASSUME MakeLeafDir(t) PROVE Stays
  BY <1>6 DEF MakeLeafDir
<1>7. ASSUME NotReceived(t) PROVE Stays
  BY <1>7 DEF NotReceived
<1>8. ASSUME WriteFile(t) PROVE Stays
  BY <1>8 DEF WriteFile
<1>9. ASSUME WriteFails(t) PROVE Stays
  BY <1>9 DEF WriteFails
<1>10. ASSUME ListDir(t) PROVE Stays
  BY <1>10 DEF ListDir
<1>11. ASSUME ChooseName(t) PROVE Stays
  BY <1>11 DEF ChooseName
<1>12. ASSUME Rename(t) PROVE Stays
  BY <1>12 DEF Rename
<1>13. ASSUME RemoveDir(t) PROVE Stays
  BY <1>13 DEF RemoveDir
<1>14. ASSUME Acknowledge(t) PROVE Stays
  BY <1>14 DEF Acknowledge
<1>15. ASSUME Killed(t) PROVE Stays
  BY <1>15 DEF Killed
<1> QED
  BY <1>1, <1>2, <1>3, <1>4, <1>5, <1>6, <1>7, <1>8, <1>9, <1>10, <1>11, <1>12, <1>13, <1>14, <1>15 DEF Advance

LEMMA ControlStep ==
  ASSUME Base, NEW t \in Transfers, Advance(t) \/ Killed(t), UNCHANGED setup
  PROVE  \A u \in Transfers : Control(u)'
<1> DEFINE Mine == /\ pc'[t] \in {"start", "pick"} => tmp'[t] = WORK
                   /\ pc'[t] \notin {"start", "done", "pick"} => tmp'[t] \in DirIds
                   /\ pc'[t] \in {"open", "write"} => cur'[t] \in File
                   /\ pc'[t] = "open" => cur'[t][1] = t /\ cur'[t][2] \in left'[t]
                   /\ left'[t] \subseteq Incoming[t]
                   /\ \/ pc[t] \notin {"start", "done"} \/ pc'[t] = "done"
                      \/ setup.together \/ \A u \in Transfers : pc[u] \in {"start", "done"}
<1>0. TypeOK /\ Control(t)
  BY DEF Base
<1> USE DEF TypeOK, Step, Fails, Control, Active
<1>1. ASSUME Start(t) PROVE Mine
  BY <1>1, <1>0 DEF Start
<1>2. ASSUME PickDir(t) PROVE Mine
  BY <1>2, <1>0 DEF PickDir
<1>3. ASSUME MakeDir(t) PROVE Mine
  BY <1>3, <1>0 DEF MakeDir
<1>4. ASSUME CheckName(t) PROVE Mine
  <2>1. PICK p \in left[t] : /\ cur' = [cur EXCEPT ![t] = <<t, p>>]
                             /\ UNCHANGED <<left, tmp>>
                             /\ pc[t] = "check"
                             /\ pc' = [pc EXCEPT ![t] = "done"] \/ pc' = [pc EXCEPT ![t] = "open"]
    BY <1>4, <1>0 DEF CheckName
  <2>2. <<t, p>> \in File /\ <<t, p>>[1] = t /\ <<t, p>>[2] = p
    BY <1>0, <2>1 DEF File
  <2> QED
    BY <1>0, <2>1, <2>2
<1>5. ASSUME OpenFile(t) PROVE Mine
  <2>1. cur'[t] \in File
    <3> DEFINE shared == {e.file : e \in AtPath(tmp[t], cur[t][2])}
    <3>1. cur' = cur \/ (shared # {} /\ cur' = [cur EXCEPT ![t] = CHOOSE f \in shared : TRUE])
      BY <1>5 DEF OpenFile
    <3>2. shared \subseteq File
      BY <1>0, EntryShape DEF AtPath, At
    <3> HIDE DEF shared
    <3>3. shared # {} => (CHOOSE f \in shared : TRUE) \in File
      BY <3>2
    <3>4. cur[t] \in File
      BY <1>5, <1>0 DEF OpenFile
    <3> QED
      BY <1>0, <3>1, <3>3, <3>4
  <2>2. pc[t] = "open" /\ pc' = [pc EXCEPT ![t] = "write"] /\ tmp' = tmp
        /\ left' = [left EXCEPT ![t] = @ \ {cur[t][2]}]
    BY <1>5 DEF OpenFile
  <2> QED
    BY <1>0, <2>1, <2>2
<1>6. ASSUME MakeLeafDir(t) PROVE Mine
  BY <1>6, <1>0 DEF MakeLeafDir, AfterItem
<1>7. ASSUME NotReceived(t) PROVE Mine
  BY <1>7, <1>0 DEF NotReceived
<1>8. ASSUME WriteFile(t) PROVE Mine
  BY <1>8, <1>0 DEF WriteFile, AfterItem
<1>9. ASSUME WriteFails(t) PROVE Mine
  BY <1>9, <1>0 DEF WriteFails
<1>10. ASSUME ListDir(t) PROVE Mine
  BY <1>10, <1>0 DEF ListDir
<1>11. ASSUME ChooseName(t) PROVE Mine
  BY <1>11, <1>0 DEF ChooseName
<1>12. ASSUME Rename(t) PROVE Mine
  BY <1>12, <1>0 DEF Rename
<1>13. ASSUME RemoveDir(t) PROVE Mine
  BY <1>13, <1>0 DEF RemoveDir
<1>14. ASSUME Acknowledge(t) PROVE Mine
  BY <1>14, <1>0 DEF Acknowledge
<1>15. ASSUME Killed(t) PROVE Mine
  BY <1>15, <1>0 DEF Killed
<1>16. Mine
  BY <1>1, <1>2, <1>3, <1>4, <1>5, <1>6, <1>7, <1>8, <1>9, <1>10, <1>11, <1>12, <1>13, <1>14, <1>15 DEF Advance
<1> QED
  BY <1>0, <1>16, OthersStay DEF Base, Incoming

-----------------------------------------------------------------------------
(* What a step does to the directories *)

\* Transfer t makes entry e in its temporary directory.
Made(t, e) ==
    /\ pc[t] \in {"check", "open"}
    /\ e.dir = tmp[t] /\ e.dir \in dirs'
    /\ e.name = e.file[2][1] /\ e.file[2][1] \in Names(t)
    /\ e.file[1] = t /\ entries \subseteq entries'
    /\ \/ e.file[2] = <<e.file[2][1], DIR>> /\ e.file \in written'
       \/ /\ e.file[2] # <<e.file[2][1], DIR>> /\ e.file[2] \in left[t] \ left'[t]
          /\ Len(e.file[2]) = 2 => IsDir(tmp[t], e.name)
          /\ pc'[t] = "write" /\ cur'[t] = e.file

\* Transfer t moves an entry, which is then e.
Moved(t, e) ==
    /\ pc[t] = "rename"
    /\ e.dir = WORK /\ e.name = dest[t][2]
    /\ \E m \in entries : m.dir = tmp[t] /\ m.name = dest[t][1] /\ m.file = e.file
    /\ \A x \in entries' : x.dir = tmp[t] => x.name # dest[t][1]

LEMMA EntriesStep ==
  ASSUME Base, NEW t \in Transfers, Advance(t) \/ Killed(t)
  PROVE  /\ \A e \in entries' : e \in entries \/ Made(t, e) \/ Moved(t, e)
         /\ \/ dirs \subseteq dirs'
            \/ entries' = entries /\ dirs' = dirs \ {tmp[t]} /\ \A e \in entries : e.dir # tmp[t]
         /\ written \subseteq written' /\ torn \subseteq torn'
<1> DEFINE Effect ==
         /\ \A e \in entries' : e \in entries \/ Made(t, e) \/ Moved(t, e)
         /\ \/ dirs \subseteq dirs'
            \/ entries' = entries /\ dirs' = dirs \ {tmp[t]} /\ \A e \in entries : e.dir # tmp[t]
         /\ written \subseteq written' /\ torn \subseteq torn'
<1>0. TypeOK /\ Control(t)
  BY DEF Base
<1>1. ASSUME Start(t) PROVE Effect
  BY <1>1 DEF Start
<1>2. ASSUME PickDir(t) PROVE Effect
  BY <1>2 DEF PickDir
<1>3. ASSUME MakeDir(t) PROVE Effect
  BY <1>3 DEF MakeDir
<1>4. ASSUME CheckName(t) PROVE Effect
  <2>1. PICK p \in left[t] :
          LET parents == IF p[Len(p)] = DIR THEN {} ELSE NewDir(t, p)
          IN  /\ pc[t] = "check"
              /\ dirs' = IF Version > 1 THEN dirs \cup {tmp[t]} ELSE dirs
              /\ entries' = entries \cup parents
              /\ written' = written \cup {e.file : e \in parents}
              /\ torn' = torn
    BY <1>4 DEF CheckName, Step, Fails
  <2>2. p \in Paths /\ p \in Incoming[t] /\ tmp[t] \in DirIds /\ p[1] \in Names(t)
    BY <1>0, <2>1 DEF TypeOK, Control, Active, Names
  <2>3. Len(p) = 2 => Version > 1
    <3>1. IsPath(p)
      BY <1>0, <2>2, SetupsAssumption DEF TypeOK, Incoming
    <3> QED
      BY <3>1, <2>2, PathShape DEF IsPath
  <2>4. \A e \in NewDir(t, p) : /\ e = [dir |-> tmp[t], name |-> p[1], file |-> <<t, <<p[1], DIR>>>>]
                                /\ Len(p) = 2
    BY <2>2, NewDirShape
  <2>5. ASSUME p[Len(p)] # DIR, NEW e \in NewDir(t, p) PROVE Made(t, e)
    <3>1. e.file \in written' /\ e.file = <<t, <<p[1], DIR>>>>
      BY <2>1, <2>4, <2>5
    <3> QED
      BY <2>1, <2>2, <2>3, <2>4, <3>1 DEF Made
  <2> QED
    BY <2>1, <2>5
<1>5. ASSUME OpenFile(t) PROVE Effect
  <2> DEFINE p == cur[t][2]
  <2>1. /\ pc[t] = "open" /\ tmp[t] \in dirs /\ UNCHANGED <<dirs, written, torn>>
        /\ entries' = entries
           \/ (cur' = cur /\ entries' = entries \cup {[dir |-> tmp[t], name |-> p[1], file |-> cur[t]]})
        /\ left' = [left EXCEPT ![t] = @ \ {p}] /\ pc' = [pc EXCEPT ![t] = "write"]
        /\ p[Len(p)] # DIR /\ (Len(p) = 2 => IsDir(tmp[t], p[1]))
    BY <1>5 DEF OpenFile, Step
  <2>2. cur[t] = <<t, p>> /\ p \in Incoming[t] /\ p \in left[t] /\ p \notin left'[t] /\ pc'[t] = "write"
    BY <1>0, <2>1, FileShape DEF Control, TypeOK
  <2>3. p[1] \in Names(t) /\ p # <<p[1], DIR>>
    BY <2>1, <2>2, LeafPath, IncomingPaths, <1>0 DEF Names, TypeOK
  <2>4. cur' = cur => Made(t, [dir |-> tmp[t], name |-> p[1], file |-> cur[t]])
    BY <2>1, <2>2, <2>3 DEF Made
  <2> QED
    BY <2>1, <2>4
<1>6. ASSUME MakeLeafDir(t) PROVE Effect
  <2> DEFINE p == cur[t][2]
  <2>1. /\ entries' = entries \cup NewDir(t, p)
        /\ written' = written \cup {e.file : e \in NewDir(t, p)}
        /\ dirs' = dirs \cup {tmp[t]}
        /\ torn' = torn /\ pc[t] = "open"
    BY <1>6 DEF MakeLeafDir, Step
  <2>2. p \in Paths /\ p[1] \in Names(t) /\ tmp[t] \in DirIds
    BY <1>0, <2>1, FileShape DEF Control, Active, Names
  <2>3. \A e \in NewDir(t, p) : e = [dir |-> tmp[t], name |-> p[1], file |-> <<t, <<p[1], DIR>>>>]
    BY <2>2, NewDirShape
  <2>4. \A e \in NewDir(t, p) : Made(t, e)
    BY <2>1, <2>2, <2>3 DEF Made
  <2> QED
    BY <2>1, <2>4
<1>7. ASSUME NotReceived(t) PROVE Effect
  BY <1>7 DEF NotReceived
<1>8. ASSUME WriteFile(t) PROVE Effect
  BY <1>8 DEF WriteFile
<1>9. ASSUME WriteFails(t) PROVE Effect
  BY <1>9 DEF WriteFails
<1>10. ASSUME ListDir(t) PROVE Effect
  BY <1>10 DEF ListDir
<1>11. ASSUME ChooseName(t) PROVE Effect
  BY <1>11 DEF ChooseName
<1>12. ASSUME Rename(t) PROVE Effect
  <2> DEFINE moved == At(tmp[t], dest[t][1])
             new   == {[dir |-> WORK, name |-> dest[t][2], file |-> e.file] : e \in moved}
  <2>1. /\ pc[t] = "rename" /\ UNCHANGED <<dirs, written, torn>>
        /\ entries' = entries \/ entries' = (entries \ (moved \cup At(WORK, dest[t][2]))) \cup new
    BY <1>12 DEF Rename, Step
  <2>2. tmp[t] # WORK
    BY <1>0, <2>1, NamesAssumption DEF Control, Active, WORK
  <2>3. ASSUME entries' # entries, NEW x \in entries', x.dir = tmp[t] PROVE x.name # dest[t][1]
    BY <2>1, <2>2, <2>3 DEF At
  <2>4. ASSUME entries' # entries, NEW e \in moved
        PROVE  Moved(t, [dir |-> WORK, name |-> dest[t][2], file |-> e.file])
    BY <2>1, <2>3, <2>4 DEF Moved, At
  <2> QED
    BY <2>1, <2>4
<1>13. ASSUME RemoveDir(t) PROVE Effect
  BY <1>13 DEF RemoveDir, Step
<1>14. ASSUME Acknowledge(t) PROVE Effect
  BY <1>14 DEF Acknowledge
<1>15. ASSUME Killed(t) PROVE Effect
  BY <1>15 DEF Killed
<1> QED
  BY <1>1, <1>2, <1>3, <1>4, <1>5, <1>6, <1>7, <1>8, <1>9, <1>10, <1>11, <1>12, <1>13, <1>14, <1>15 DEF Advance

LEMMA TmpStep ==
  ASSUME Base, NEW t \in Transfers, Advance(t) \/ Killed(t), NEW u \in Transfers
  PROVE  tmp'[u] = tmp[u] \/ (u = t /\ pc[t] = "pick" /\ tmp[u] = WORK)
<1> DEFINE Kept == tmp' = tmp \/ pc[t] = "pick"
<1>0. TypeOK /\ Control(t)
  BY DEF Base
<1> USE DEF Step
<1>1. ASSUME Start(t) PROVE Kept
  BY <1>1 DEF Start
<1>2. ASSUME PickDir(t) PROVE Kept
  BY <1>2 DEF PickDir
<1>3. ASSUME MakeDir(t) PROVE Kept
  BY <1>3 DEF MakeDir
<1>4. ASSUME CheckName(t) PROVE Kept
  BY <1>4 DEF CheckName
<1>5. ASSUME OpenFile(t) PROVE Kept
  BY <1>5 DEF OpenFile
<1>6. ASSUME MakeLeafDir(t) PROVE Kept
  BY <1>6 DEF MakeLeafDir
<1>7. ASSUME NotReceived(t) PROVE Kept
  BY <1>7 DEF NotReceived
<1>8. ASSUME WriteFile(t) PROVE Kept
  BY <1>8 DEF WriteFile
<1>9. ASSUME WriteFails(t) PROVE Kept
  BY <1>9 DEF WriteFails
<1>10. ASSUME ListDir(t) PROVE Kept
  BY <1>10 DEF ListDir
<1>11. ASSUME ChooseName(t) PROVE Kept
  BY <1>11 DEF ChooseName
<1>12. ASSUME Rename(t) PROVE Kept
  BY <1>12 DEF Rename
<1>13. ASSUME RemoveDir(t) PROVE Kept
  BY <1>13 DEF RemoveDir
<1>14. ASSUME Acknowledge(t) PROVE Kept
  BY <1>14 DEF Acknowledge
<1>15. ASSUME Killed(t) PROVE Kept
  BY <1>15 DEF Killed
<1>16. Kept
  BY <1>1, <1>2, <1>3, <1>4, <1>5, <1>6, <1>7, <1>8, <1>9, <1>10, <1>11, <1>12, <1>13, <1>14, <1>15 DEF Advance
<1> QED
  BY <1>0, <1>16, OthersStay DEF Control

\* An entry that is moved has been made by a transfer.
LEMMA MovedFrom ==
  ASSUME Base, NEW t \in Transfers, NEW e, Moved(t, e)
  PROVE  /\ e.file[1] \in Transfers /\ e.file[1] # "user"
         /\ e.name \in MayGet(e.file[2][1]) /\ e.file[2][1] = dest[t][1] /\ e.file[2][1] \in Names(e.file[1])
         /\ e.file[2] = <<e.file[2][1], DIR>> => e.file \in written
         /\ tmp[e.file[1]] = tmp[t] /\ tmp[t] \in DirIds /\ tmp[t] # WORK
<1>1. PICK m \in entries : m.dir = tmp[t] /\ m.name = dest[t][1] /\ m.file = e.file
  BY DEF Moved
<1>2. tmp[t] \in DirIds /\ tmp[t] # WORK
  BY NamesAssumption DEF Base, Control, Active, Moved, WORK
<1>3. Located(m) /\ m.file[1] \in Transfers \cup {"user"}
  BY <1>1, EntryShape, FileShape DEF Base, TypeOK
<1>4. m.file[2][1] = dest[t][1] /\ e.file[2][1] = dest[t][1]
  BY <1>1, <1>2, <1>3 DEF Located
<1>5. e.name \in MayGet(dest[t][1])
  BY DEF Moved, Base, Chosen
<1> QED
  BY <1>1, <1>2, <1>3, <1>4, <1>5 DEF Located

LEMMA MadeFrom ==
  ASSUME Base, NEW t \in Transfers, NEW e, Made(t, e)
  PROVE  /\ e.file[1] = t /\ t # "user" /\ e.name = e.file[2][1]
         /\ e.dir = tmp[t] /\ tmp[t] \in DirIds /\ tmp[t] # WORK
  BY NamesAssumption DEF Base, Control, Active, Made, WORK

LEMMA LocatedStep ==
  ASSUME Base, NEW t \in Transfers, Advance(t) \/ Killed(t), UNCHANGED setup
  PROVE  \A e \in entries' : Located(e)'
<1> SUFFICES ASSUME NEW e \in entries' PROVE Located(e)'
  OBVIOUS
<1>1. Names(e.file[1])' = Names(e.file[1])
  BY DEF Names, Incoming
<1>2. CASE e \in entries
  <2>1. Located(e) /\ e.file[1] \in Transfers \cup {"user"}
    BY <1>2, EntryShape, FileShape DEF Base, TypeOK
  <2>2. e.dir # WORK => e.dir \in dirs'
    BY <1>2, <2>1, EntriesStep DEF Located
  <2>3. e.dir # WORK => tmp'[e.file[1]] = tmp[e.file[1]]
    BY <2>1, TmpStep DEF Located
  <2> QED
    BY <1>1, <2>1, <2>2, <2>3, EntriesStep DEF Located
<1>3. CASE Made(t, e)
  <2>1. tmp'[t] = tmp[t]
    BY <1>3, TmpStep DEF Made
  <2> QED
    BY <1>1, <1>3, <2>1, MadeFrom DEF Located, Made
<1>4. CASE Moved(t, e)
  BY <1>1, <1>4, MovedFrom, EntriesStep DEF Located, Moved
<1> QED
  BY <1>2, <1>3, <1>4, EntriesStep

LEMMA ChosenStep ==
  ASSUME Base, NEW t \in Transfers, Advance(t) \/ Killed(t), UNCHANGED setup
  PROVE  \A u \in Transfers : Chosen(u)'
<1>0. TypeOK
  BY DEF Base
<1>1. Chosen(t)'
  <2> DEFINE Chose == pc'[t] = "rename" =>
                         \E n \in todo[t] : FreeNumbers(n) # {} /\ dest'[t] = <<n, NewName(n)>> /\ entries' = entries
  <2> USE DEF TypeOK, Step, Fails
  <2>1. ASSUME Start(t) PROVE Chose
    BY <2>1, <1>0 DEF Start
  <2>2. ASSUME PickDir(t) PROVE Chose
    BY <2>2, <1>0 DEF PickDir
  <2>3. ASSUME MakeDir(t) PROVE Chose
    BY <2>3, <1>0 DEF MakeDir
  <2>4. ASSUME CheckName(t) PROVE Chose
    BY <2>4, <1>0 DEF CheckName
  <2>5. ASSUME OpenFile(t) PROVE Chose
    BY <2>5, <1>0 DEF OpenFile
  <2>6. ASSUME MakeLeafDir(t) PROVE Chose
    BY <2>6, <1>0 DEF MakeLeafDir, AfterItem
  <2>7. ASSUME NotReceived(t) PROVE Chose
    BY <2>7, <1>0 DEF NotReceived
  <2>8. ASSUME WriteFile(t) PROVE Chose
    BY <2>8, <1>0 DEF WriteFile, AfterItem
  <2>9. ASSUME WriteFails(t) PROVE Chose
    BY <2>9, <1>0 DEF WriteFails
  <2>10. ASSUME ListDir(t) PROVE Chose
    BY <2>10, <1>0 DEF ListDir
  <2>11. ASSUME ChooseName(t) PROVE Chose
    BY <2>11, <1>0 DEF ChooseName
  <2>12. ASSUME Rename(t) PROVE Chose
    BY <2>12, <1>0 DEF Rename
  <2>13. ASSUME RemoveDir(t) PROVE Chose
    BY <2>13, <1>0 DEF RemoveDir
  <2>14. ASSUME Acknowledge(t) PROVE Chose
    BY <2>14, <1>0 DEF Acknowledge
  <2>15. ASSUME Killed(t) PROVE Chose
    BY <2>15, <1>0 DEF Killed
  <2>16. Chose
    BY <2>1, <2>2, <2>3, <2>4, <2>5, <2>6, <2>7, <2>8, <2>9, <2>10, <2>11, <2>12, <2>13, <2>14, <2>15 DEF Advance
  <2>17. todo[t] \subseteq Bases
    BY <1>0
  <2>18. SUFFICES ASSUME pc'[t] = "rename" PROVE Chosen(t)'
    BY DEF Chosen
  <2>19. PICK n \in todo[t] : FreeNumbers(n) # {} /\ dest'[t] = <<n, NewName(n)>> /\ entries' = entries
    BY <2>16, <2>18
  <2>20. n \in Bases /\ NewName(n) \in MayGet(n) /\ NewName(n) \in Name /\ ~Exists(WORK, NewName(n))
         /\ (~WorkingDirSet => NewName(n) # CONFIG_FILE)
    BY <2>17, <2>19, NewNameIsFree, NamesOfFile
  <2>21. PICK w : dest'[t] = <<n, w>> /\ w \in MayGet(n) /\ w \in Name /\ ~Exists(WORK, w)
                  /\ (~WorkingDirSet => w # CONFIG_FILE)
    <3> HIDE DEF TypeOK, Step, Fails
    <3> QED
      BY <2>19, <2>20
  <2>22. dest'[t] \in Bases \X Name /\ dest'[t][1] = n /\ dest'[t][2] = w
    <3> HIDE DEF TypeOK, Step, Fails
    <3>1. n \in Bases /\ w \in Name /\ dest'[t] = <<n, w>>
      BY <2>20, <2>21
    <3> QED
      BY <3>1
  <2>23. MayGet(n)' = MayGet(n) /\ CONFIG_FILE' = CONFIG_FILE
    BY DEF MayGet, NameWith
  <2>24. \A e \in entries' : e.dir = WORK => e.name # w
    BY <2>19, <2>21 DEF Exists, At
  <2> QED
    BY <2>21, <2>22, <2>23, <2>24 DEF Chosen, Placed
<1>2. ASSUME NEW u \in Transfers, u # t PROVE Chosen(u)'
  <2> SUFFICES ASSUME pc[u] = "rename" PROVE Chosen(u)'
    BY <1>0, <1>2, OthersStay DEF Chosen
  <2>1. Chosen(u) /\ dest'[u] = dest[u]
    BY <1>0, <1>2, OthersStay DEF Base
  <2>2. ASSUME NEW e \in entries', e.dir = WORK, e.name = dest[u][2]
        PROVE  setup.together /\ e.file[1] # "user"
    <3>1. CASE e \in entries
      BY <2>1, <2>2, <3>1 DEF Chosen, Placed
    <3>2. CASE Made(t, e)
      BY <2>2, <3>2, MadeFrom
    <3>3. CASE Moved(t, e)
      <4>1. setup.together
        BY <1>2, <3>3 DEF Moved, Base, Control, Active
      <4> QED
        BY <3>3, <4>1, MovedFrom
    <3> QED
      BY <3>1, <3>2, <3>3, EntriesStep
  <2> QED
    BY <2>1, <2>2 DEF Chosen, Placed
<1> QED
  BY <1>1, <1>2

-----------------------------------------------------------------------------
(* Base is an invariant *)

LEMMA BaseInit == Init => Base
<1> SUFFICES ASSUME Init PROVE Base
  OBVIOUS
<1>1. TypeOK
  BY TypeInit
<1>2. \A t \in Transfers : Control(t) /\ Chosen(t)
  BY DEF Init, Control, Chosen, Active
<1>3. ASSUME NEW e \in entries PROVE Located(e)
  <2>1. PICK n \in Existing : e = [dir |-> WORK, name |-> n, file |-> <<"user", <<n>>>>]
    BY <1>3 DEF Init
  <2>2. n \in Bases /\ e.file[2][1] = n /\ e.file[1] = "user" /\ e.file \in written /\ e.dir = WORK /\ e.name = n
    BY <2>1 DEF Init, AllPaths, Bases
  <2>3. n \in MayGet(n)
    BY <2>2, NamesOfFile
  <2> QED
    BY <2>2, <2>3 DEF Located
<1> QED
  BY <1>1, <1>2, <1>3 DEF Base

LEMMA BaseStep == Base /\ [Next]_vars => Base'
<1> SUFFICES ASSUME Base, [Next]_vars PROVE Base'
  OBVIOUS
<1>1. TypeOK'
  BY TypeStep DEF Base
<1>2. ASSUME NEW t \in Transfers, Advance(t) \/ Killed(t), UNCHANGED setup PROVE Base'
  BY <1>1, <1>2, ControlStep, LocatedStep, ChosenStep DEF Base
<1>3. CASE UNCHANGED vars
  BY <1>1, <1>3 DEF vars, transferVars, Base, Control, Active, Chosen, Placed, Located, Incoming, Names
<1> QED
  BY <1>2, <1>3 DEF Next, Terminated

LEMMA BaseAlways == Spec => []Base
  BY BaseInit, BaseStep, PTL DEF Spec

\* "do not create file named clipshare-desktop.conf": types are right, and the
\* configuration is that of the user, whatever the transfers bring.
THEOREM ConfigurationIsKept == Spec => []ReceivingInv
<1>1. Init => ConfigurationKept
  BY DEF Init, ConfigurationKept, Placed
<1>2. Base /\ ConfigurationKept /\ [Next]_vars => ConfigurationKept'
  <2> SUFFICES ASSUME Base, ConfigurationKept, [Next]_vars,
                      NEW e \in entries', e.dir = WORK, ~WorkingDirSet, e.name = CONFIG_FILE
               PROVE  e.file[1] = "user"
    BY DEF ConfigurationKept, Placed
  <2>1. ASSUME NEW t \in Transfers, Advance(t) \/ Killed(t) PROVE e.file[1] = "user"
    <3>1. CASE e \in entries
      BY <3>1 DEF ConfigurationKept, Placed
    <3>2. CASE Made(t, e)
      BY <3>2, MadeFrom
    <3>3. CASE Moved(t, e)
      BY <3>3 DEF Moved, Base, Chosen
    <3> QED
      BY <2>1, <3>1, <3>2, <3>3, EntriesStep
  <2>2. CASE UNCHANGED vars
    BY <2>2 DEF vars, ConfigurationKept, Placed
  <2> QED
    BY <2>1, <2>2 DEF Next, Terminated
<1>3. Base /\ ConfigurationKept => ReceivingInv
  BY DEF Base, ReceivingInv
<1> QED
  BY <1>1, <1>2, <1>3, BaseAlways, PTL DEF Spec

-----------------------------------------------------------------------------
(* Who makes and moves what *)

LEMMA DistinctInit == Init => Distinct
  BY DEF Init, Distinct, Active

LEMMA PickStep ==
  ASSUME TypeOK, NEW t \in Transfers, Advance(t) \/ Killed(t)
  PROVE  /\ pc[t] # "done"
         /\ pc[t] = "start" => tmp' = tmp
         /\ pc[t] = "pick" => \/ tmp' = tmp
                              \/ /\ tmp'[t] \in DirIds \ dirs
                                 /\ ~setup.sameSecond => \A u \in Transfers : tmp[u] # tmp'[t]
<1>1. pc[t] # "done" /\ (pc[t] = "start" => tmp' = tmp)
  BY DEF Advance, Killed, Step, Fails, Start, PickDir, MakeDir, CheckName, OpenFile, MakeLeafDir,
         NotReceived, WriteFile, WriteFails, ListDir, ChooseName, Rename, RemoveDir, Acknowledge
<1>2. pc[t] = "pick" => tmp' = tmp \/ PickDir(t)
  <2>1. Killed(t) => tmp' = tmp
    BY DEF Killed
  <2>2. Start(t) \/ MakeDir(t) \/ CheckName(t) \/ OpenFile(t) \/ MakeLeafDir(t) \/ NotReceived(t) => tmp' = tmp
    BY DEF Start, MakeDir, CheckName, OpenFile, MakeLeafDir, NotReceived
  <2>3. WriteFile(t) \/ WriteFails(t) \/ ListDir(t) \/ ChooseName(t) \/ Rename(t) \/ RemoveDir(t) \/ Acknowledge(t)
           => tmp' = tmp
    BY DEF WriteFile, WriteFails, ListDir, ChooseName, Rename, RemoveDir, Acknowledge
  <2> QED
    BY <2>1, <2>2, <2>3 DEF Advance
<1>3. ASSUME PickDir(t)
      PROVE  tmp'[t] \in DirIds \ dirs /\ (~setup.sameSecond => \A u \in Transfers : tmp[u] # tmp'[t])
  <2>1. PICK d \in DirIds \ dirs : /\ setup.sameSecond \/ \A u \in Transfers : tmp[u] # d
                                   /\ tmp' = [tmp EXCEPT ![t] = d]
    BY <1>3 DEF PickDir
  <2>2. tmp'[t] = d
    BY <2>1 DEF TypeOK
  <2> QED
    BY <2>1, <2>2
<1> QED
  BY <1>1, <1>2, <1>3

LEMMA DistinctStep ==
  ASSUME Base, Distinct, NEW t \in Transfers, Advance(t) \/ Killed(t), UNCHANGED setup
  PROVE  Distinct'
<1>0. TypeOK /\ Control(t)
  BY DEF Base
<1>1. ASSUME ~setup.sameSecond, NEW u \in Transfers, NEW v \in Transfers, u # v,
             tmp'[u] = tmp'[v], tmp'[u] # WORK
      PROVE  FALSE
  <2>1. \A a, b \in Transfers : a # b /\ tmp[a] = tmp[b] => tmp[a] = WORK
    BY <1>1 DEF Distinct
  <2>2. tmp' # tmp
    BY <1>1, <2>1
  <2>3. \A w \in Transfers : w # t => tmp'[w] = tmp[w]
    BY <1>0, OthersStay
  <2>4. \A w \in Transfers : tmp[w] # tmp'[t]
    <3>1. CASE pc[t] = "pick"
      BY <1>0, <1>1, <2>2, <3>1, PickStep
    <3>2. CASE pc[t] # "pick"
      BY <1>1, <2>1, <3>2, TmpStep
    <3> QED
      BY <3>1, <3>2
  <2> QED
    BY <1>1, <2>1, <2>3, <2>4
<1>2. ASSUME ~setup.together, NEW e \in entries', NEW u \in Transfers, Active(u)',
             e.dir # WORK, e.dir = tmp'[u]
      PROVE  e.file[1] = u
  <2>1. CASE e \in entries /\ u # t
    <3>1. Active(u) /\ tmp'[u] = tmp[u]
      BY <1>0, <1>2, <2>1, OthersStay DEF Active
    <3> QED
      BY <1>2, <2>1, <3>1 DEF Distinct
  <2>2. CASE e \in entries /\ u = t
    <3>1. e.dir \in dirs
      BY <1>2, <2>2 DEF Base, Located
    <3>2. pc[t] # "pick"
      BY <1>0, <1>2, <2>2, <3>1, PickStep DEF Control
    <3>3. Active(t) /\ tmp'[t] = tmp[t]
      BY <1>0, <1>2, <2>2, <3>2, PickStep, TmpStep DEF Control, Active
    <3> QED
      BY <1>2, <2>2, <3>3 DEF Distinct
  <2>3. CASE Made(t, e)
    <3>1. Active(t)
      BY <2>3 DEF Made, Active
    <3>2. u # t => Active(u)
      BY <1>0, <1>2, OthersStay DEF Active
    <3> QED
      BY <1>0, <1>2, <2>3, <3>1, <3>2, MadeFrom DEF Control
  <2> QED
    BY <1>2, <2>1, <2>2, <2>3, EntriesStep DEF Moved
<1> QED
  BY <1>1, <1>2 DEF Distinct

\* What transfer t would make of the entry m of its directory.
Landed(t, m) == [dir |-> WORK, name |-> dest[t][2], file |-> m.file]
Moving(t) == At(tmp[t], dest[t][1])
Renamed(t) ==
    /\ pc[t] = "rename"
    /\ Moving(t) # {} /\ Replaceable(Moving(t), At(WORK, dest[t][2]))
    /\ entries' = (entries \ (Moving(t) \cup At(WORK, dest[t][2]))) \cup {Landed(t, m) : m \in Moving(t)}

\* Entries disappear only when a file could not be received, and with a renaming.
LEMMA EntriesKept ==
  ASSUME NEW t \in Transfers, Advance(t) \/ Killed(t)
  PROVE  \/ entries \subseteq entries'
         \/ WriteFails(t)
         \/ Renamed(t)
<1> DEFINE Kept == entries \subseteq entries'
<1>1. Start(t) \/ PickDir(t) \/ MakeDir(t) \/ CheckName(t) \/ NotReceived(t) => Kept
  BY DEF Start, PickDir, MakeDir, CheckName, NotReceived
<1>2. OpenFile(t) \/ MakeLeafDir(t) \/ WriteFile(t) \/ ListDir(t) \/ ChooseName(t) => Kept
  BY DEF OpenFile, MakeLeafDir, WriteFile, ListDir, ChooseName
<1>3. RemoveDir(t) \/ Acknowledge(t) \/ Killed(t) => Kept
  BY DEF RemoveDir, Acknowledge, Killed
<1>4. Rename(t) => Kept \/ Renamed(t)
  BY DEF Rename, Renamed, Moving, Landed, Step
<1> QED
  BY <1>1, <1>2, <1>3, <1>4 DEF Advance

\* In a temporary directory an entry has the name it was brought under.
LEMMA OwnName ==
  ASSUME Base, NEW t \in Transfers, Active(t), pc[t] # "pick", NEW e \in entries, e.dir = tmp[t]
  PROVE  e.name = e.file[2][1] /\ e.dir # WORK
  BY NamesAssumption DEF Base, Control, Located, WORK

LEMMA ApartStays == UNCHANGED setup => Apart' = Apart
  BY DEF Apart, Incoming, MayGet, NameWith

LEMMA ApartNames ==
  ASSUME Apart, setup \in Setups, setup.together, NEW t \in Transfers, NEW u \in Transfers,
         NEW n \in Names(t), NEW m \in Names(u), MayGet(n) \cap MayGet(m) # {}
  PROVE  t = u /\ n = m
<1>1. PICK p \in Incoming[t] : n = p[1]
  BY DEF Names
<1>2. PICK q \in Incoming[u] : m = q[1]
  BY DEF Names
<1>3. <<t, n>> = <<u, m>>
  BY <1>1, <1>2 DEF Apart
<1> QED
  BY <1>3

\* In its directory, what has a name that a transfer brings is its own.
LEMMA OwnEntries ==
  ASSUME Base, Distinct, Separate, NEW t \in Transfers, Active(t), pc[t] # "pick",
         NEW e \in entries, e.dir = tmp[t], e.file[2][1] \in Names(t)
  PROVE  e.file[1] = t
<1>1. tmp[t] # WORK
  BY NamesAssumption DEF Base, Control, WORK
<1>2. e.file[1] \in Transfers \cup {"user"}
  BY EntryShape, FileShape DEF Base, TypeOK
<1>3. /\ e.file[1] \in Transfers /\ tmp[e.file[1]] = tmp[t]
      /\ e.file[2][1] \in Names(e.file[1])
  BY <1>1, <1>2 DEF Base, Located
<1>4. CASE ~setup.sameSecond
  BY <1>1, <1>3, <1>4 DEF Distinct
<1>5. CASE Apart /\ setup.together
  <2>1. e.file[2][1] \in Bases /\ setup \in Setups
    BY EntryShape, FileShape, PathShape DEF Base, TypeOK
  <2>2. MayGet(e.file[2][1]) \cap MayGet(e.file[2][1]) # {}
    BY <2>1, NamesOfFile
  <2> QED
    BY <1>3, <1>5, <2>1, <2>2, ApartNames
<1>6. CASE ~setup.together
  BY <1>1, <1>6 DEF Distinct
<1> QED
  BY <1>4, <1>5, <1>6 DEF Separate

LEMMA OpenPath ==
  ASSUME Base, NEW t \in Transfers, pc[t] = "open"
  PROVE  /\ cur[t] = <<t, cur[t][2]>> /\ cur[t][2] \in Paths
         /\ cur[t][2] \in Incoming[t] /\ cur[t][2] \in left[t]
         /\ cur[t][2][1] \in Names(t)
<1>1. Control(t) /\ TypeOK
  BY DEF Base
<1>2. cur[t] = <<t, cur[t][2]>> /\ cur[t][2] \in Paths
  BY <1>1, FileShape DEF Control
<1> QED
  BY <1>1, <1>2 DEF Control, Names

\* No file is there already when a transfer opens its own.
LEMMA FreshPath ==
  ASSUME Base, Distinct, Undisturbed, Separate, NEW t \in Transfers, pc[t] = "open",
         cur[t][2][Len(cur[t][2])] # DIR
  PROVE  AtPath(tmp[t], cur[t][2]) = {}
<1> DEFINE p == cur[t][2]
<1>1. p \in Paths /\ p \in left[t] /\ p[1] \in Names(t)
  BY OpenPath
<1>2. SUFFICES ASSUME NEW e \in AtPath(tmp[t], p) PROVE FALSE
  OBVIOUS
<1>3. e \in entries /\ e.dir = tmp[t] /\ e.name = p[1] /\ Tail(e.file[2]) = Tail(p)
  BY DEF AtPath, At
<1>4. e.file[2][1] = p[1]
  BY <1>3, OwnName DEF Active
<1>5. e.file[1] = t
  BY <1>1, <1>3, <1>4, OwnEntries DEF Active
<1>6. e.file[2] \in Paths /\ e.file[2][1] = p[1]
  BY <1>3, <1>4, EntryShape, FileShape DEF Base, TypeOK, Located
<1>7. e.file[2] = p
  BY <1>1, <1>3, <1>6, SameTail
<1>8. t # "user"
  BY NamesAssumption
<1> QED
  BY <1>1, <1>3, <1>5, <1>7, <1>8 DEF Undisturbed

LEMMA LeftStep ==
  ASSUME TypeOK, NEW t \in Transfers, Advance(t) \/ Killed(t)
  PROVE  /\ \A u \in Transfers : left'[u] \subseteq left[u]
         /\ failed[t] => failed'[t]
         /\ pc[t] \in {"choose", "rename", "rmdir", "ack", "done"} =>
               pc'[t] \in {"choose", "rename", "rmdir", "ack", "done"} /\ left'[t] = left[t]
<1> DEFINE Shrinks == /\ \A u \in Transfers : left'[u] \subseteq left[u]
                      /\ failed[t] => failed'[t]
                      /\ pc[t] \in {"choose", "rename", "rmdir", "ack", "done"} =>
                            pc'[t] \in {"choose", "rename", "rmdir", "ack", "done"} /\ left'[t] = left[t]
<1> USE DEF TypeOK, Step, Fails
<1>1. ASSUME Start(t) PROVE Shrinks
  BY <1>1 DEF Start
<1>2. ASSUME PickDir(t) PROVE Shrinks
  BY <1>2 DEF PickDir
<1>3. ASSUME MakeDir(t) PROVE Shrinks
  BY <1>3 DEF MakeDir
<1>4. ASSUME CheckName(t) PROVE Shrinks
  BY <1>4 DEF CheckName
<1>5. ASSUME OpenFile(t) PROVE Shrinks
  BY <1>5 DEF OpenFile
<1>6. ASSUME MakeLeafDir(t) PROVE Shrinks
  BY <1>6 DEF MakeLeafDir
<1>7. ASSUME NotReceived(t) PROVE Shrinks
  BY <1>7 DEF NotReceived
<1>8. ASSUME WriteFile(t) PROVE Shrinks
  BY <1>8 DEF WriteFile
<1>9. ASSUME WriteFails(t) PROVE Shrinks
  BY <1>9 DEF WriteFails
<1>10. ASSUME ListDir(t) PROVE Shrinks
  BY <1>10 DEF ListDir
<1>11. ASSUME ChooseName(t) PROVE Shrinks
  BY <1>11 DEF ChooseName
<1>12. ASSUME Rename(t) PROVE Shrinks
  BY <1>12 DEF Rename
<1>13. ASSUME RemoveDir(t) PROVE Shrinks
  BY <1>13 DEF RemoveDir
<1>14. ASSUME Acknowledge(t) PROVE Shrinks
  BY <1>14 DEF Acknowledge
<1>15. ASSUME Killed(t) PROVE Shrinks
  BY <1>15 DEF Killed
<1> HIDE DEF Shrinks
<1>16. Shrinks
  BY <1>1, <1>2, <1>3, <1>4, <1>5, <1>6, <1>7, <1>8, <1>9, <1>10, <1>11, <1>12, <1>13, <1>14, <1>15 DEF Advance
<1> QED
  BY <1>16 DEF Shrinks

\* What a transfer has written is its own, and nothing is left once it moves files.
LEMMA WritingStep ==
  ASSUME Base, Distinct, Undisturbed, Separate, NEW t \in Transfers, Advance(t) \/ Killed(t), UNCHANGED setup
  PROVE  /\ spoiled' = {}
         /\ pc'[t] = "write" => cur'[t][1] = t /\ cur'[t][2] \in Incoming[t] \ left'[t]
                                /\ cur'[t][2][Len(cur'[t][2])] # DIR
         /\ pc'[t] \in {"list", "choose", "rename", "rmdir", "ack"} => left'[t] = {}
<1> DEFINE Own == /\ spoiled' = {}
                  /\ pc'[t] = "write" => cur'[t][1] = t /\ cur'[t][2] \in Incoming[t] \ left'[t]
                                         /\ cur'[t][2][Len(cur'[t][2])] # DIR
                  /\ pc'[t] \in {"list", "choose", "rename", "rmdir", "ack"} => left'[t] = {}
<1>0. /\ TypeOK /\ spoiled = {}
      /\ pc[t] = "write" => cur[t][1] = t /\ cur[t][2] \in Incoming[t] \ left[t]
                            /\ cur[t][2][Len(cur[t][2])] # DIR
      /\ pc[t] \in {"list", "choose", "rename", "rmdir", "ack"} => left[t] = {}
  BY DEF Base, Undisturbed
<1> USE DEF TypeOK, Step, Fails
<1>1. ASSUME Start(t) PROVE Own
  BY <1>1, <1>0 DEF Start
<1>2. ASSUME PickDir(t) PROVE Own
  BY <1>2, <1>0 DEF PickDir
<1>3. ASSUME MakeDir(t) PROVE Own
  BY <1>3, <1>0 DEF MakeDir
<1>4. ASSUME CheckName(t) PROVE Own
  BY <1>4, <1>0 DEF CheckName
<1>5. ASSUME OpenFile(t) PROVE Own
  <2>1. pc[t] = "open" /\ cur[t][2][Len(cur[t][2])] # DIR
    BY <1>5 DEF OpenFile
  <2>2. AtPath(tmp[t], cur[t][2]) = {}
    BY <2>1, FreshPath
  <2>3. spoiled' = spoiled /\ cur' = cur /\ pc' = [pc EXCEPT ![t] = "write"]
        /\ left' = [left EXCEPT ![t] = @ \ {cur[t][2]}]
    <3> DEFINE shared == {e.file : e \in AtPath(tmp[t], cur[t][2])}
    <3>1. shared = {}
      BY <2>2
    <3>2. /\ pc' = [pc EXCEPT ![t] = "write"] /\ left' = [left EXCEPT ![t] = @ \ {cur[t][2]}]
          /\ shared # {} \/ UNCHANGED <<spoiled, cur>>
      BY <1>5 DEF OpenFile
    <3> QED
      BY <3>1, <3>2
  <2>4. cur[t] = <<t, cur[t][2]>> /\ cur[t][2] \in Incoming[t]
    BY <2>1, OpenPath
  <2> QED
    BY <1>0, <2>1, <2>3, <2>4
<1>6. ASSUME MakeLeafDir(t) PROVE Own
  BY <1>6, <1>0 DEF MakeLeafDir, AfterItem
<1>7. ASSUME NotReceived(t) PROVE Own
  BY <1>7, <1>0 DEF NotReceived
<1>8. ASSUME WriteFile(t) PROVE Own
  BY <1>8, <1>0 DEF WriteFile, AfterItem
<1>9. ASSUME WriteFails(t) PROVE Own
  BY <1>9, <1>0 DEF WriteFails
<1>10. ASSUME ListDir(t) PROVE Own
  BY <1>10, <1>0 DEF ListDir
<1>11. ASSUME ChooseName(t) PROVE Own
  BY <1>11, <1>0 DEF ChooseName
<1>12. ASSUME Rename(t) PROVE Own
  BY <1>12, <1>0 DEF Rename
<1>13. ASSUME RemoveDir(t) PROVE Own
  BY <1>13, <1>0 DEF RemoveDir
<1>14. ASSUME Acknowledge(t) PROVE Own
  BY <1>14, <1>0 DEF Acknowledge
<1>15. ASSUME Killed(t) PROVE Own
  BY <1>15, <1>0 DEF Killed
<1> QED
  BY <1>1, <1>2, <1>3, <1>4, <1>5, <1>6, <1>7, <1>8, <1>9, <1>10, <1>11, <1>12, <1>13, <1>14, <1>15 DEF Advance

\* The entry of the directory that a file is in.
Mate(e) == <<e.file[1], <<e.file[2][1], DIR>>>>

LEMMA RenamedEntries ==
  ASSUME Base, NEW t \in Transfers, Renamed(t), NEW e \in entries
  PROVE  /\ tmp[t] # WORK /\ dest[t][2] \in Name
         /\ e \in Moving(t) => Landed(t, e) \in entries' /\ Landed(t, e).file = e.file
                               /\ Landed(t, e).dir = WORK /\ Landed(t, e).name = dest[t][2]
         /\ e \notin Moving(t) /\ e \notin At(WORK, dest[t][2]) => e \in entries'
  BY NamesAssumption DEF Base, Control, Chosen, Active, Renamed, Landed, WORK

LEMMA UndisturbedStep ==
  ASSUME Base, Distinct, Undisturbed, NEW t \in Transfers, Advance(t) \/ Killed(t), UNCHANGED setup
  PROVE  Undisturbed'
<1>0. TypeOK /\ t # "user"
  BY NamesAssumption DEF Base
<1>1. SUFFICES ASSUME Separate
               PROVE  /\ spoiled' = {}
                      /\ \A u \in Transfers :
                           /\ pc'[u] = "write" => cur'[u][1] = u /\ cur'[u][2] \in Incoming[u] \ left'[u]
                                                  /\ cur'[u][2][Len(cur'[u][2])] # DIR
                           /\ pc'[u] \in {"list", "choose", "rename", "rmdir", "ack"} => left'[u] = {}
                      /\ \A e \in entries' : e.file[1] # "user" =>
                           /\ e.file[2] \in left'[e.file[1]] => e.file[2][Len(e.file[2])] = DIR
                           /\ Len(e.file[2]) = 2 =>
                                \E d \in entries' : d.dir = e.dir /\ d.name = e.name /\ d.file = Mate(e)
  BY ApartStays DEF Undisturbed, Separate, Mate, Incoming
<1>2. ASSUME NEW u \in Transfers
      PROVE  /\ pc'[u] = "write" => cur'[u][1] = u /\ cur'[u][2] \in Incoming[u] \ left'[u]
                                    /\ cur'[u][2][Len(cur'[u][2])] # DIR
             /\ pc'[u] \in {"list", "choose", "rename", "rmdir", "ack"} => left'[u] = {}
  <2>1. CASE u = t
    BY <1>1, <2>1, WritingStep
  <2>2. CASE u # t
    BY <1>0, <1>1, <2>2, OthersStay DEF Undisturbed
  <2> QED
    BY <2>1, <2>2
<1>3. ASSUME NEW e \in entries', e.file[1] # "user", e.file[2] \in left'[e.file[1]]
      PROVE  e.file[2][Len(e.file[2])] = DIR
  <2>1. ASSUME NEW m \in entries, m.file = e.file PROVE e.file[2][Len(e.file[2])] = DIR
    <3>1. e.file[1] \in Transfers
      BY <1>0, <1>3, <2>1, EntryShape, FileShape DEF TypeOK
    <3>2. e.file[2] \in left[e.file[1]]
      BY <1>0, <1>3, <3>1, LeftStep
    <3> QED
      BY <1>1, <1>3, <2>1, <3>2 DEF Undisturbed
  <2>2. CASE Made(t, e)
    <3>1. e.file[2] = <<e.file[2][1], DIR>>
      BY <1>3, <2>2 DEF Made
    <3>2. \A a : <<a, DIR>>[Len(<<a, DIR>>)] = DIR
      OBVIOUS
    <3> HIDE DEF Made
    <3> QED
      BY <3>1, <3>2
  <2> QED
    BY <2>1, <2>2, EntriesStep DEF Moved
<1>4. ASSUME NEW e \in entries, e.file[1] # "user", Len(e.file[2]) = 2
      PROVE  \E d \in entries : d.dir = e.dir /\ d.name = e.name /\ d.file = Mate(e)
  BY <1>1, <1>4 DEF Undisturbed, Mate
<1>5. ASSUME NEW e \in entries', e.file[1] # "user", Len(e.file[2]) = 2
      PROVE  \E d \in entries' : d.dir = e.dir /\ d.name = e.name /\ d.file = Mate(e)
  <2>1. CASE e \in entries /\ entries \subseteq entries'
    BY <1>4, <1>5, <2>1
  <2>2. CASE e \in entries /\ WriteFails(t)
    <3>1. PICK d \in entries : d.dir = e.dir /\ d.name = e.name /\ d.file = Mate(e)
      BY <1>4, <1>5, <2>2
    <3>2. cur[t] \in File /\ cur[t][2][Len(cur[t][2])] # DIR /\ entries' = entries \ AtPath(tmp[t], cur[t][2])
      BY <1>1, <2>2 DEF Undisturbed, WriteFails, Fails, Step, Base, Control
    <3>3. Tail(d.file[2]) = <<DIR>>
      BY <3>1 DEF Mate
    <3>4. Tail(cur[t][2]) # <<DIR>>
      <4>1. cur[t][2] \in Paths
        BY <3>2, FileShape
      <4>2. \A a, b : <<a>> = <<b>> => a = b
        OBVIOUS
      <4>3. \A a : <<a>> # <<>>
        OBVIOUS
      <4> QED
        BY <3>2, <4>1, <4>2, <4>3, PathShape
    <3> QED
      BY <3>1, <3>2, <3>3, <3>4 DEF AtPath
  <2>3. CASE Renamed(t)
    <3>1. CASE e \in entries /\ e \notin Moving(t) /\ e \notin At(WORK, dest[t][2])
      <4>1. PICK d \in entries : d.dir = e.dir /\ d.name = e.name /\ d.file = Mate(e)
        BY <1>4, <1>5, <3>1
      <4>2. d \notin Moving(t) /\ d \notin At(WORK, dest[t][2])
        BY <3>1, <4>1 DEF Moving, At
      <4> QED
        BY <2>3, <4>1, <4>2, RenamedEntries
    <3>2. ASSUME NEW m \in Moving(t), e = Landed(t, m)
          PROVE  \E d \in entries' : d.dir = e.dir /\ d.name = e.name /\ d.file = Mate(e)
      <4>1. m \in entries /\ m.name = dest[t][1] /\ m.dir = tmp[t] /\ m.file = e.file
        BY <3>2 DEF Moving, At, Landed
      <4>2. PICK d \in entries : d.dir = m.dir /\ d.name = m.name /\ d.file = Mate(m)
        BY <1>4, <1>5, <4>1
      <4>3. Mate(m) = Mate(e)
        BY <3>2, <4>1 DEF Mate, Landed
      <4>4. d \in Moving(t)
        BY <4>1, <4>2 DEF Moving, At
      <4> QED
        BY <2>3, <3>2, <4>2, <4>3, <4>4, RenamedEntries DEF Landed
    <3> QED
      BY <2>3, <3>1, <3>2 DEF Renamed
  <2>4. CASE Made(t, e)
    <3>1. e.file[1] = t /\ e.dir = tmp[t] /\ e.name = e.file[2][1] /\ e.file[2][1] \in Names(t)
          /\ entries \subseteq entries' /\ Active(t) /\ pc[t] # "pick"
      BY <2>4 DEF Made, Active
    <3>2. CASE e.file[2] = <<e.file[2][1], DIR>>
      <4>1. e.file = Mate(e)
        BY <2>4, <3>1, <3>2, TypeStep, EntryShape, FileShape, <1>5 DEF Mate, Base, Next, TypeOK
      <4> QED
        BY <4>1
    <3>3. CASE e.file[2] # <<e.file[2][1], DIR>>
      <4>1. IsDir(tmp[t], e.name)
        BY <1>5, <2>4, <3>3 DEF Made
      <4>2. PICK x \in entries : x.dir = e.dir /\ x.name = e.name /\ Len(x.file[2]) = 2
        BY <3>1, <4>1 DEF IsDir, At
      <4>3. x.file[2][1] = e.file[2][1] /\ x.file[1] = t
        <5>1. x.name = x.file[2][1]
          BY <3>1, <4>2, OwnName
        <5> QED
          BY <1>1, <3>1, <4>2, <5>1, OwnEntries
      <4>4. PICK d \in entries : d.dir = x.dir /\ d.name = x.name /\ d.file = Mate(x)
        BY <1>0, <1>4, <4>2, <4>3
      <4>5. Mate(x) = Mate(e)
        BY <3>1, <4>2, <4>3 DEF Mate
      <4> QED
        BY <3>1, <4>2, <4>4, <4>5
    <3> QED
      BY <3>2, <3>3
  <2>5. Moved(t, e) => Renamed(t)
    BY EntriesKept DEF Moved, WriteFails, Fails, Step
  <2> QED
    BY <1>5, <2>1, <2>2, <2>3, <2>4, <2>5, EntriesKept, EntriesStep
<1>6. spoiled' = {}
  BY <1>1, WritingStep
<1> QED
  BY <1>2, <1>3, <1>5, <1>6

LEMMA WrittenStep ==
  ASSUME TypeOK, NEW t \in Transfers, Advance(t) \/ Killed(t), pc[t] = "write"
  PROVE  /\ cur' = cur /\ left' = left
         /\ (pc'[t] = "done" /\ failed'[t]) \/ cur[t] \in written' \cup torn'
<1>1. Killed(t) \/ NotReceived(t) \/ WriteFails(t) \/ WriteFile(t)
  BY DEF Advance, Step, Fails, Start, PickDir, MakeDir, CheckName, OpenFile, MakeLeafDir,
         ListDir, ChooseName, Rename, RemoveDir, Acknowledge
<1>2. WriteFile(t) => cur[t] \in written' \cup torn' /\ cur' = cur /\ left' = left
  BY DEF WriteFile
<1>3. Killed(t) \/ NotReceived(t) \/ WriteFails(t) => pc'[t] = "done" /\ failed'[t] /\ cur' = cur /\ left' = left
  BY DEF Killed, NotReceived, WriteFails, Fails, Step, TypeOK
<1> QED
  BY <1>1, <1>2, <1>3

\* In a directory of its own, a transfer moves its own entries.
LEMMA MovedOwn ==
  ASSUME Base, Distinct, ~setup.sameSecond, NEW t \in Transfers, NEW e, Moved(t, e)
  PROVE  e.file[1] = t
  BY MovedFrom DEF Distinct

LEMMA CompleteStep ==
  ASSUME Base, Distinct, Complete, NEW t \in Transfers, Advance(t) \/ Killed(t), UNCHANGED setup
  PROVE  Complete'
<1>0. TypeOK /\ t # "user"
  BY NamesAssumption DEF Base
<1>1. SUFFICES ASSUME ~setup.sameSecond, NEW e \in entries'
               PROVE  \/ e.file \in written' \cup torn'
                      \/ e.dir # WORK /\ pc'[e.file[1]] \in {"write", "done"} /\ cur'[e.file[1]] = e.file
  BY DEF Complete
<1>2. written \subseteq written' /\ torn \subseteq torn'
  BY EntriesStep
<1>3. CASE e \in entries
  <2>1. CASE e.file \in written \cup torn
    BY <1>2, <2>1
  <2>2. CASE e.file \notin written \cup torn
    <3>1. e.dir # WORK /\ pc[e.file[1]] \in {"write", "done"} /\ cur[e.file[1]] = e.file
      BY <1>1, <1>3, <2>2 DEF Complete
    <3>2. e.file[1] \in Transfers
      BY <1>0, <1>3, <3>1, EntryShape, FileShape DEF Base, Located, TypeOK
    <3>3. CASE e.file[1] = t
      BY <1>0, <3>1, <3>3, PickStep, WrittenStep
    <3>4. CASE e.file[1] # t
      BY <1>0, <3>1, <3>2, <3>4, OthersStay
    <3> QED
      BY <3>3, <3>4
  <2> QED
    BY <2>1, <2>2
<1>4. CASE Made(t, e)
  BY <1>4, MadeFrom DEF Made
<1>5. CASE Moved(t, e)
  <2>1. PICK m \in entries : m.dir = tmp[t] /\ m.file = e.file
    BY <1>5 DEF Moved
  <2>2. e.file[1] = t /\ pc[t] = "rename"
    BY <1>1, <1>5, MovedOwn DEF Moved
  <2>3. m.file \in written \cup torn
    BY <1>1, <2>1, <2>2 DEF Complete
  <2> QED
    BY <1>2, <2>1, <2>3
<1> QED
  BY <1>3, <1>4, <1>5, EntriesStep

LEMMA OneNameStep ==
  ASSUME Base, Distinct, OneName, NEW t \in Transfers, Advance(t) \/ Killed(t), UNCHANGED setup
  PROVE  OneName'
<1> DEFINE late == {"choose", "rename", "rmdir", "ack", "done"}
<1>0. TypeOK /\ t # "user"
  BY NamesAssumption DEF Base
<1>1. SUFFICES ASSUME ~setup.sameSecond
               PROVE  /\ \A e1, e2 \in entries' :
                            e1.file[1] # "user" /\ e1.file[1] = e2.file[1] /\ e1.file[2][1] = e2.file[2][1] =>
                               e1.dir = e2.dir /\ e1.name = e2.name
                      /\ \A e \in entries' : e.file[1] # "user" /\ e.dir = WORK => pc'[e.file[1]] \in late
  BY DEF OneName
<1>2. ASSUME NEW e \in entries', e.file[1] # "user", e.dir = WORK PROVE pc'[e.file[1]] \in late
  <2>1. CASE e \in entries
    <3>1. e.file[1] \in Transfers /\ pc[e.file[1]] \in late
      BY <1>0, <1>1, <1>2, <2>1, EntryShape, FileShape DEF OneName, TypeOK
    <3> QED
      BY <1>0, <3>1, OthersStay, LeftStep
  <2>2. CASE Moved(t, e)
    <3>1. e.file[1] = t /\ pc[t] \in late
      BY <1>1, <2>2, MovedOwn DEF Moved
    <3> QED
      BY <1>0, <3>1, LeftStep
  <2> QED
    BY <1>2, <2>1, <2>2, EntriesStep, MadeFrom
<1>3. ASSUME NEW e \in entries, NEW d \in entries, d.file[1] # "user", d.file[1] = e.file[1], d.file[2][1] = e.file[2][1]
      PROVE  d.dir = e.dir /\ d.name = e.name
  BY <1>1, <1>3 DEF OneName
<1>4. ASSUME NEW e \in entries, NEW d, Made(t, d), d.file[1] = e.file[1], d.file[2][1] = e.file[2][1]
      PROVE  d.dir = e.dir /\ d.name = e.name
  <2>1. e.file[1] = t /\ d.dir = tmp[t] /\ d.name = d.file[2][1] /\ pc[t] \notin late
    BY <1>4 DEF Made
  <2>2. e.dir # WORK
    BY <1>0, <1>1, <2>1 DEF OneName
  <2>3. e.dir = tmp[t] /\ e.name = e.file[2][1]
    BY <2>1, <2>2 DEF Base, Located
  <2> QED
    BY <1>4, <2>1, <2>3
<1>5. ASSUME NEW d, NEW e, Made(t, d), Made(t, e), d.file[2][1] = e.file[2][1]
      PROVE  d.dir = e.dir /\ d.name = e.name
  BY <1>5 DEF Made
<1>6. ASSUME NEW e \in entries', e \in entries, NEW d, Moved(t, d), d.file[1] = e.file[1], d.file[2][1] = e.file[2][1]
      PROVE  FALSE
  <2>1. PICK m \in entries : m.dir = tmp[t] /\ m.name = dest[t][1] /\ m.file = d.file
    BY <1>6 DEF Moved
  <2>2. d.file[1] = t /\ d.name = dest[t][2]
    BY <1>1, <1>6, <2>1, MovedOwn DEF Moved
  <2>3. e.dir = tmp[t] /\ e.name = dest[t][1]
    BY <1>0, <1>3, <1>6, <2>1, <2>2
  <2> QED
    BY <1>6, <2>3 DEF Moved
<1>7. ASSUME NEW e \in entries', NEW d \in entries', d.file[1] # "user", d.file[1] = e.file[1], d.file[2][1] = e.file[2][1]
      PROVE  d.dir = e.dir /\ d.name = e.name
  <2>1. \A x \in entries' : x \in entries \/ Made(t, x) \/ Moved(t, x)
    BY EntriesStep
  <2>2. CASE d \in entries
    BY <1>3, <1>4, <1>6, <1>7, <2>1, <2>2
  <2>3. CASE Made(t, d)
    <3>1. ~Moved(t, e)
      BY <2>3 DEF Made, Moved
    <3> QED
      BY <1>4, <1>5, <1>7, <2>1, <2>3, <3>1
  <2>4. CASE Moved(t, d)
    <3>1. ~Made(t, e)
      BY <2>4 DEF Made, Moved
    <3>2. Moved(t, e) => d.dir = e.dir /\ d.name = e.name
      BY <2>4 DEF Moved
    <3> QED
      BY <1>6, <1>7, <2>1, <2>4, <3>1, <3>2
  <2> QED
    BY <2>1, <2>2, <2>3, <2>4
<1> QED
  BY <1>2, <1>7

\* What a renaming replaces is the user's or another's only if transfers overlap
\* and bring entries that may get the same name; and it is replaced by itself.
LEMMA PlacedStays ==
  ASSUME Base, Distinct, Undisturbed, NEW t \in Transfers, Advance(t) \/ Killed(t),
         NEW e \in entries, e.dir = WORK, Apart \/ e.file[1] = "user"
  PROVE  e \in entries'
<1>0. TypeOK
  BY DEF Base
<1>1. CASE WriteFails(t)
  <2>1. tmp[t] # WORK
    BY <1>1, NamesAssumption DEF Base, Control, Active, WriteFails, Fails, Step, WORK
  <2> QED
    BY <1>1, <2>1 DEF WriteFails, AtPath, At
<1>2. CASE Renamed(t)
  <2>1. tmp[t] # WORK /\ e \notin Moving(t)
    BY <1>2, RenamedEntries DEF Moving, At
  <2>2. CASE e.name # dest[t][2]
    BY <1>2, <2>1, <2>2, RenamedEntries DEF At
  <2>3. CASE e.name = dest[t][2]
    <3>1. setup.together /\ e.file[1] # "user"
      BY <1>2, <2>3 DEF Base, Chosen, Placed, Renamed
    <3>2. Apart /\ Separate
      BY <3>1 DEF Separate
    <3>3. e.file[1] \in Transfers /\ e.file[2][1] \in Names(e.file[1]) /\ e.name \in MayGet(e.file[2][1])
          /\ e.file = <<e.file[1], e.file[2]>> /\ e.file[2] \in Paths
      BY <1>0, <3>1, EntryShape, FileShape DEF Base, Located, TypeOK
    <3>4. ASSUME NEW m \in Moving(t)
          PROVE  /\ m \in entries /\ m.file[1] = e.file[1] /\ m.file[2][1] = e.file[2][1]
                 /\ m.file = <<m.file[1], m.file[2]>> /\ m.file[2] \in Paths /\ m.dir = tmp[t]
                 /\ m.name = dest[t][1]
      <4>1. m \in entries /\ m.dir = tmp[t] /\ m.name = dest[t][1]
        BY DEF Moving, At
      <4>2. m.file \in File
        BY <1>0, <4>1, EntryShape DEF TypeOK
      <4>3. m.file[1] \in Transfers /\ m.file[2][1] \in Names(m.file[1]) /\ m.name = m.file[2][1]
        BY <2>1, <4>1, <4>2, FileShape DEF Base, Located
      <4>4. dest[t][2] \in MayGet(m.file[2][1]) /\ dest[t][2] \in MayGet(e.file[2][1])
        BY <1>2, <2>3, <3>3, <4>1, <4>3 DEF Base, Chosen, Renamed
      <4>5. m.file[1] = e.file[1] /\ m.file[2][1] = e.file[2][1]
        BY <1>0, <3>1, <3>2, <3>3, <4>3, <4>4, ApartNames DEF TypeOK
      <4> QED
        BY <4>1, <4>2, <4>3, <4>5, FileShape
    <3>5. ASSUME NEW m \in Moving(t), m.file = e.file PROVE e \in entries'
      <4>1. Landed(t, m) \in entries' /\ Landed(t, m).file = e.file /\ Landed(t, m).dir = e.dir
            /\ Landed(t, m).name = e.name
        BY <1>2, <2>3, <3>4, <3>5, RenamedEntries
      <4>2. Landed(t, m) \in Entry /\ e \in Entry
        BY <1>0, <2>3, <3>4, <3>5, EntryShape DEF TypeOK, Landed, Entry
      <4> QED
        BY <4>1, <4>2, EntryEqual
    <3>6. e \in At(WORK, dest[t][2])
      BY <2>3 DEF At
    <3>7. CASE \A x \in Moving(t) \cup At(WORK, dest[t][2]) : Len(x.file[2]) = 1
      <4>1. PICK m \in Moving(t) : TRUE
        BY <1>2 DEF Renamed
      <4>2. m.file[2] = <<m.file[2][1]>> /\ e.file[2] = <<e.file[2][1]>>
        BY <3>3, <3>4, <3>6, <3>7, PathShape
      <4> QED
        BY <3>3, <3>4, <3>5, <4>2
    <3>8. CASE (\E x \in Moving(t) : Len(x.file[2]) = 2)
               /\ (\A x \in At(WORK, dest[t][2]) : x.file[2][Len(x.file[2])] = DIR)
      <4>1. PICK x \in Moving(t) : Len(x.file[2]) = 2
        BY <3>8
      <4>2. PICK m \in entries : m.dir = x.dir /\ m.name = x.name /\ m.file = <<x.file[1], <<x.file[2][1], DIR>>>>
        BY <3>1, <3>2, <3>4, <4>1 DEF Undisturbed
      <4>3. m \in Moving(t)
        BY <3>4, <4>2 DEF Moving, At
      <4>4. e.file[2] = <<e.file[2][1], DIR>>
        BY <3>3, <3>6, <3>8, LeafPath
      <4>5. m.file = e.file
        BY <3>3, <3>4, <4>2, <4>4
      <4> QED
        BY <3>5, <4>3, <4>5
    <3> QED
      BY <1>2, <3>6, <3>7, <3>8 DEF Renamed, Replaceable
  <2> QED
    BY <2>2, <2>3
<1> QED
  BY <1>1, <1>2, EntriesKept

\* Where the files of a transfer that did not fail have come.
LEMMA ArrivedStays ==
  ASSUME Base, Distinct, Undisturbed, Apart, NEW t \in Transfers, Advance(t) \/ Killed(t),
         NEW e \in entries, e.file[1] # "user", ~failed'[e.file[1]]
  PROVE  \E d \in entries' : d.file = e.file
<1>0. TypeOK /\ t # "user"
  BY NamesAssumption DEF Base
<1>1. CASE WriteFails(t)
  <2>1. SUFFICES ASSUME e \in AtPath(tmp[t], cur[t][2]) PROVE FALSE
    BY <1>1 DEF WriteFails
  <2>2. pc[t] = "write" /\ failed'[t] /\ cur[t][2] \in Incoming[t]
    BY <1>0, <1>1 DEF WriteFails, Fails, Step, TypeOK, Undisturbed, Separate
  <2>3. e.dir = tmp[t] /\ e.file[2][1] \in Names(t)
    BY <2>1, <2>2, OwnName DEF AtPath, At, Names, Active
  <2>4. e.file[1] = t
    BY <2>2, <2>3, OwnEntries DEF Active, Separate
  <2> QED
    BY <2>2, <2>4
<1>2. CASE Renamed(t)
  BY <1>2, RenamedEntries, PlacedStays DEF At
<1> QED
  BY <1>1, <1>2, EntriesKept

\* A path of a transfer is taken off its list when its entry is there.
LEMMA ArrivalStep ==
  ASSUME Base, Distinct, Undisturbed, Separate, NEW t \in Transfers, Advance(t) \/ Killed(t),
         NEW p \in left[t] \ left'[t]
  PROVE  /\ \E e \in entries' : e.file = <<t, p>>
         /\ <<t, p>> \in written' \/ (pc'[t] = "write" /\ cur'[t] = <<t, p>>)
<1>0. TypeOK
  BY DEF Base
<1>1. OpenFile(t) \/ MakeLeafDir(t)
  <2>1. Start(t) \/ PickDir(t) \/ MakeDir(t) \/ CheckName(t) \/ NotReceived(t) => left' = left
    BY DEF Start, PickDir, MakeDir, CheckName, NotReceived
  <2>2. WriteFile(t) \/ WriteFails(t) \/ ListDir(t) \/ ChooseName(t) \/ Rename(t) => left' = left
    BY DEF WriteFile, WriteFails, ListDir, ChooseName, Rename
  <2>3. RemoveDir(t) \/ Acknowledge(t) \/ Killed(t) => left' = left
    BY DEF RemoveDir, Acknowledge, Killed
  <2> QED
    BY <2>1, <2>2, <2>3 DEF Advance
<1>2. pc[t] = "open" /\ p = cur[t][2] /\ cur[t] = <<t, p>> /\ p \in Paths /\ p[1] \in Names(t)
  <2>1. pc[t] = "open" /\ left' = [left EXCEPT ![t] = @ \ {cur[t][2]}]
    BY <1>1 DEF OpenFile, MakeLeafDir, Step
  <2> QED
    BY <1>0, <2>1, OpenPath DEF TypeOK
<1>3. CASE OpenFile(t)
  <2> DEFINE shared == {e.file : e \in AtPath(tmp[t], cur[t][2])}
             new    == [dir |-> tmp[t], name |-> p[1], file |-> cur[t]]
  <2>1. cur[t][2][Len(cur[t][2])] # DIR
    BY <1>3 DEF OpenFile
  <2>2. shared = {}
    BY <1>2, <2>1, FreshPath
  <2>3. /\ pc' = [pc EXCEPT ![t] = "write"]
        /\ shared # {} \/ (cur' = cur /\ entries' = entries \cup {new})
    BY <1>2, <1>3 DEF OpenFile, Step
  <2>4. pc'[t] = "write" /\ cur' = cur /\ new \in entries'
    BY <1>0, <2>2, <2>3 DEF TypeOK
  <2>5. new.file = <<t, p>>
    BY <1>2
  <2> QED
    BY <1>2, <2>4, <2>5
<1>4. CASE MakeLeafDir(t)
  <2>1. /\ entries' = entries \cup NewDir(t, p) /\ written' = written \cup {e.file : e \in NewDir(t, p)}
        /\ p[Len(p)] = DIR /\ (Exists(tmp[t], p[1]) => IsDir(tmp[t], p[1]))
    BY <1>2, <1>4 DEF MakeLeafDir
  <2>2. p = <<p[1], DIR>> /\ Len(p) = 2
    BY <1>2, <2>1, LeafPath, PathShape
  <2>3. SUFFICES \E e \in entries' : e.file = <<t, p>> /\ e.file \in written'
    OBVIOUS
  <2>4. CASE NewDir(t, p) # {}
    <3>1. tmp[t] \in DirIds
      BY <1>2 DEF Base, Control, Active
    <3>2. \A e \in NewDir(t, p) :
             e = [dir |-> tmp[t], name |-> p[1], file |-> <<t, <<p[1], DIR>>>>]
      BY <1>2, <3>1, NewDirShape
    <3>3. \A e \in NewDir(t, p) : e.file = <<t, p>>
      BY <2>2, <3>2
    <3> QED
      BY <2>1, <2>4, <3>3
  <2>5. CASE NewDir(t, p) = {}
    <3>1. IsDir(tmp[t], p[1])
      BY <1>2, <2>1, <2>2, <2>5, NewDirShape DEF Base, Control, Active
    <3>2. PICK x \in entries : x.dir = tmp[t] /\ x.name = p[1] /\ Len(x.file[2]) = 2
      BY <3>1 DEF IsDir, At
    <3>3. x.file[2][1] = p[1]
      BY <1>2, <3>2, OwnName DEF Active
    <3>4. x.file[1] = t /\ t # "user"
      BY <1>2, <3>2, <3>3, OwnEntries, NamesAssumption DEF Active
    <3>5. PICK e \in entries : e.dir = x.dir /\ e.name = x.name /\ e.file = <<t, <<x.file[2][1], DIR>>>>
      <4>1. \E e \in entries : e.dir = x.dir /\ e.name = x.name /\ e.file = <<x.file[1], <<x.file[2][1], DIR>>>>
        <5>1. x.file[1] # "user"
          BY <3>4
        <5> QED
          BY <3>2, <5>1 DEF Undisturbed
      <4> QED
        BY <3>4, <4>1
    <3>6. e.file = <<t, p>> /\ e.file[2] = <<e.file[2][1], DIR>>
      BY <2>2, <3>3, <3>5
    <3>7. e.file \in written
      BY <3>6 DEF Base, Located
    <3> QED
      BY <2>1, <3>6, <3>7
  <2> QED
    BY <2>4, <2>5
<1> QED
  BY <1>1, <1>3, <1>4

\* Only a transfer that moved everything acknowledges.
LEMMA AckStep ==
  ASSUME TypeOK, NEW t \in Transfers, Advance(t) \/ Killed(t)
  PROVE  /\ pc'[t] = "ack" /\ ~failed'[t] => entries' = entries /\ \A e \in entries : e.dir # tmp[t]
         /\ t \in acked' /\ t \notin acked => pc[t] = "ack" /\ pc'[t] = "done" /\ ~failed[t] /\ ~failed'[t]
                                              /\ left' = left /\ entries' = entries
<1> DEFINE Acks == /\ pc'[t] = "ack" /\ ~failed'[t] => entries' = entries /\ \A e \in entries : e.dir # tmp[t]
                   /\ t \in acked' /\ t \notin acked => pc[t] = "ack" /\ pc'[t] = "done" /\ ~failed[t] /\ ~failed'[t]
                                                        /\ left' = left /\ entries' = entries
<1> USE DEF TypeOK, Step, Fails
<1>1. ASSUME Start(t) PROVE Acks
  BY <1>1 DEF Start
<1>2. ASSUME PickDir(t) PROVE Acks
  BY <1>2 DEF PickDir
<1>3. ASSUME MakeDir(t) PROVE Acks
  BY <1>3 DEF MakeDir
<1>4. ASSUME CheckName(t) PROVE Acks
  BY <1>4 DEF CheckName
<1>5. ASSUME OpenFile(t) PROVE Acks
  BY <1>5 DEF OpenFile
<1>6. ASSUME MakeLeafDir(t) PROVE Acks
  BY <1>6 DEF MakeLeafDir, AfterItem
<1>7. ASSUME NotReceived(t) PROVE Acks
  BY <1>7 DEF NotReceived
<1>8. ASSUME WriteFile(t) PROVE Acks
  BY <1>8 DEF WriteFile, AfterItem
<1>9. ASSUME WriteFails(t) PROVE Acks
  BY <1>9 DEF WriteFails
<1>10. ASSUME ListDir(t) PROVE Acks
  BY <1>10 DEF ListDir
<1>11. ASSUME ChooseName(t) PROVE Acks
  BY <1>11 DEF ChooseName
<1>12. ASSUME Rename(t) PROVE Acks
  BY <1>12 DEF Rename
<1>13. ASSUME RemoveDir(t) PROVE Acks
  BY <1>13 DEF RemoveDir
<1>14. ASSUME Acknowledge(t) PROVE Acks
  BY <1>14 DEF Acknowledge
<1>15. ASSUME Killed(t) PROVE Acks
  BY <1>15 DEF Killed
<1> HIDE DEF Acks
<1>16. Acks
  BY <1>1, <1>2, <1>3, <1>4, <1>5, <1>6, <1>7, <1>8, <1>9, <1>10, <1>11, <1>12, <1>13, <1>14, <1>15 DEF Advance
<1> QED
  BY <1>16 DEF Acks

LEMMA AccountedStep ==
  ASSUME Base, Distinct, Undisturbed, Accounted, NEW t \in Transfers, Advance(t) \/ Killed(t), UNCHANGED setup
  PROVE  Accounted'
<1>0. TypeOK /\ t # "user" /\ \A u \in Transfers : u # "user"
  BY NamesAssumption DEF Base
<1>1. SUFFICES ASSUME Apart, NEW u \in Transfers
               PROVE  /\ ~failed'[u] => \A p \in Incoming[u] \ left'[u] :
                            /\ \E e \in entries' : e.file = <<u, p>>
                            /\ <<u, p>> \in written' \cup torn' \/ (pc'[u] = "write" /\ cur'[u] = <<u, p>>)
                      /\ u \in acked' => pc'[u] = "done" /\ ~failed'[u] /\ left'[u] = {}
                      /\ ~failed'[u] /\ (pc'[u] = "ack" \/ u \in acked') =>
                            \A e \in entries' : e.file[1] = u => e.dir = WORK
  BY ApartStays DEF Accounted, Incoming
<1>2. Separate
  BY <1>1 DEF Separate
<1>3. /\ ~failed[u] => \A p \in Incoming[u] \ left[u] :
            /\ \E e \in entries : e.file = <<u, p>>
            /\ <<u, p>> \in written \cup torn \/ (pc[u] = "write" /\ cur[u] = <<u, p>>)
      /\ u \in acked => pc[u] = "done" /\ ~failed[u] /\ left[u] = {}
      /\ ~failed[u] /\ (pc[u] = "ack" \/ u \in acked) => \A e \in entries : e.file[1] = u => e.dir = WORK
  BY <1>1 DEF Accounted
<1>4. written \subseteq written' /\ torn \subseteq torn'
  BY EntriesStep
<1>5. ~failed'[u] => ~failed[u]
  BY <1>0, OthersStay, LeftStep
<1>6. ASSUME ~failed'[u], NEW p \in Incoming[u] \ left'[u]
      PROVE  /\ \E e \in entries' : e.file = <<u, p>>
             /\ <<u, p>> \in written' \cup torn' \/ (pc'[u] = "write" /\ cur'[u] = <<u, p>>)
  <2>1. CASE p \notin left[u]
    <3>1. PICK e \in entries : e.file = <<u, p>>
      BY <1>3, <1>5, <1>6, <2>1
    <3>2. \E d \in entries' : d.file = <<u, p>>
      BY <1>0, <1>1, <1>6, <3>1, ArrivedStays
    <3>3. <<u, p>> \in written' \cup torn' \/ (pc'[u] = "write" /\ cur'[u] = <<u, p>>)
      <4>1. CASE <<u, p>> \in written \cup torn
        BY <1>4, <4>1
      <4>2. CASE u # t
        BY <1>0, <1>3, <1>4, <1>5, <1>6, <2>1, <4>2, OthersStay
      <4>3. CASE u = t /\ pc[t] = "write" /\ cur[t] = <<t, p>>
        BY <1>0, <1>6, <4>3, WrittenStep
      <4> QED
        BY <1>3, <1>5, <1>6, <2>1, <4>1, <4>2, <4>3
    <3> QED
      BY <3>2, <3>3
  <2>2. CASE p \in left[u]
    <3>1. u = t
      BY <1>0, <1>6, <2>2, OthersStay
    <3> QED
      BY <1>2, <1>6, <2>2, <3>1, ArrivalStep
  <2> QED
    BY <2>1, <2>2
<1>7. ASSUME u \in acked' PROVE pc'[u] = "done" /\ ~failed'[u] /\ left'[u] = {}
  <2>1. CASE u # t
    BY <1>0, <1>3, <1>7, <2>1, OthersStay
  <2>2. CASE u = t
    <3>1. t \notin acked
      BY <1>0, <1>3, <2>2, PickStep
    <3> QED
      BY <1>0, <1>2, <1>7, <2>2, <3>1, AckStep DEF Undisturbed
  <2> QED
    BY <2>1, <2>2
<1>8. ASSUME ~failed'[u], pc'[u] = "ack" \/ u \in acked', NEW e \in entries', e.file[1] = u PROVE e.dir = WORK
  <2>1. CASE u # t
    <3>1. e \in entries => e.dir = WORK
      BY <1>0, <1>3, <1>8, <2>1, OthersStay
    <3> QED
      BY <1>8, <2>1, <3>1, EntriesStep, MadeFrom DEF Moved
  <2>2. CASE u = t /\ pc'[t] = "ack"
    <3>1. e \in entries /\ e.dir # tmp[t]
      BY <1>0, <1>8, <2>2, AckStep
    <3> QED
      BY <1>0, <1>8, <2>2, <3>1 DEF Base, Located
  <2>3. CASE u = t /\ t \in acked'
    <3>1. t \notin acked
      BY <1>0, <1>3, <2>3, PickStep
    <3> QED
      BY <1>0, <1>3, <1>8, <2>3, <3>1, AckStep
  <2> QED
    BY <1>8, <2>1, <2>2, <2>3
<1> QED
  BY <1>6, <1>7, <1>8

-----------------------------------------------------------------------------
(* The whole invariant, and what follows from it *)

LEMMA IInvInit == Init => IInv
<1> SUFFICES ASSUME Init PROVE IInv
  OBVIOUS
<1>1. Base /\ Distinct
  BY BaseInit, DistinctInit
<1>2. Undisturbed /\ Complete /\ OneName
  BY DEF Init, Undisturbed, Complete, OneName
<1>3. Accounted
  BY DEF Init, Accounted
<1> QED
  BY <1>1, <1>2, <1>3 DEF IInv

LEMMA IInvStep == IInv /\ [Next]_vars => IInv'
<1> SUFFICES ASSUME IInv, [Next]_vars PROVE IInv'
  OBVIOUS
<1>1. Base'
  BY BaseStep DEF IInv
<1>2. ASSUME NEW t \in Transfers, Advance(t) \/ Killed(t), UNCHANGED setup PROVE IInv'
  BY <1>1, <1>2, DistinctStep, UndisturbedStep, CompleteStep, OneNameStep, AccountedStep DEF IInv
<1>3. CASE UNCHANGED vars
  <2>1. Distinct'
    BY <1>3 DEF IInv, Distinct, vars, transferVars, Active
  <2>2. Undisturbed'
    BY <1>3, ApartStays DEF IInv, Undisturbed, vars, transferVars, Separate, Incoming
  <2>3. Complete' /\ OneName'
    BY <1>3 DEF IInv, Complete, OneName, vars, transferVars
  <2>4. Accounted'
    BY <1>3, ApartStays DEF IInv, Accounted, vars, transferVars, Incoming
  <2> QED
    BY <1>1, <2>1, <2>2, <2>3, <2>4 DEF IInv
<1> QED
  BY <1>2, <1>3 DEF Next, Terminated

LEMMA IInvAlways == Spec => []IInv
  BY IInvInit, IInvStep, PTL DEF Spec

\* Other programs never see a part of a file in the working directory, however the
\* transfers overlap, unless two share a temporary directory or a file could not
\* be closed.
THEOREM NoPartialFileIsSeen == Spec => []NoPartialFile
<1>1. IInv => NoPartialFile
  BY DEF IInv, Complete, Undisturbed, Separate, NoPartialFile, Placed
<1> QED
  BY <1>1, IInvAlways, PTL

\* "if new_path already exists, use a different file name": nothing that is in the
\* working directory is replaced by something else.
THEOREM NothingIsReplaced == Spec => KeptApart
<1>1. IInv /\ [Next]_vars => [\A e \in Placed : Apart \/ e.file[1] = "user" => e \in entries']_vars
  <2> SUFFICES ASSUME IInv, Next, NEW e \in Placed, Apart \/ e.file[1] = "user" PROVE e \in entries'
    OBVIOUS
  <2>1. e \in entries /\ e.dir = WORK
    BY DEF Placed
  <2>2. CASE UNCHANGED vars
    BY <2>1, <2>2 DEF vars
  <2> QED
    BY <2>1, <2>2, PlacedStays DEF IInv, Next, Terminated
<1> QED
  BY <1>1, IInvAlways, PTL DEF Spec, KeptApart

\* The acknowledgement means that all files of the transfer are in the working
\* directory, complete, and those of one directory under one name.
THEOREM AcknowledgedIsPlaced == Spec => []AckedFilesPlaced
<1>1. IInv => AckedFilesPlaced
  <2> SUFFICES ASSUME IInv, Apart, NEW t \in acked, NEW p \in Incoming[t]
               PROVE  /\ <<t, p>> \in (written \cup torn) \ spoiled
                      /\ \E e \in Placed : e.file = <<t, p>>
                      /\ ~setup.sameSecond => \A e \in Placed : e.file[1] = t /\ e.file[2][1] = p[1] =>
                            \E d \in Placed : d.file = <<t, p>> /\ d.name = e.name
    BY DEF AckedFilesPlaced
  <2>1. t \in Transfers /\ t # "user"
    BY NamesAssumption DEF IInv, Base, TypeOK
  <2>2. pc[t] = "done" /\ ~failed[t] /\ left[t] = {}
    BY <2>1 DEF IInv, Accounted
  <2>3. PICK d \in entries : d.file = <<t, p>>
    BY <2>1, <2>2 DEF IInv, Accounted
  <2>4. d \in Placed
    BY <2>1, <2>2, <2>3 DEF IInv, Accounted, Placed
  <2>5. <<t, p>> \in (written \cup torn) \ spoiled
    BY <2>1, <2>2 DEF IInv, Accounted, Undisturbed, Separate
  <2>6. ASSUME ~setup.sameSecond, NEW e \in Placed, e.file[1] = t, e.file[2][1] = p[1]
        PROVE  d.name = e.name
    <3>1. e \in entries /\ e.file[2][1] = p[1] /\ d.file[2][1] = p[1]
      BY <2>3, <2>6 DEF IInv, Base, Located, Placed
    <3> QED
      BY <2>1, <2>3, <2>6, <3>1 DEF IInv, OneName
  <2> QED
    BY <2>3, <2>4, <2>5, <2>6
<1> QED
  BY <1>1, IInvAlways, PTL
=============================================================================
