-------------------------- MODULE ClipboardProofs ---------------------------
(***************************************************************************)
(* What commands leave on the clipboard stays there until something else   *)
(* replaces it, and the listener never sends what was received, for any    *)
(* number of items, runs, copies and pastes.  The first rests on who owns  *)
(* the selection and what it has been told; the second on what a request   *)
(* under way excludes, and on the marker file being there while the owner  *)
(* change it stands for has not been noticed.                              *)
(***************************************************************************)
EXTENDS Clipboard, SequenceTheorems, TLAPS

Event == [kind : {"types", "data", "deleted", "clear"}, reader : Readers \cup {"none"}]
Elements(q) == {q[i] : i \in DOMAIN q}

\* The owner of the selection is a run that serves it.
Ownership == owner.who = "setter" => owner.id \in Setters /\ step[owner.id] = "serve"

\* Runs are counted as they begin.
NotBegun == \A s \in Setters : s > setters => step[s] = "new"

\* A run that has not taken the selection, or still has it, has not been told
\* that it lost it.
Untold ==
    ~setup.web =>
       \A s \in Setters :
          step[s] \in {"new", "start", "open", "own"} \/ owner = Setter(s)
            => ~clear[s] /\ \A e \in Elements(events[s]) : e.kind # "clear"

\* A run on its way to the selection.
Waiting(s) == step[s] \in {"start", "open", "own"}

\* While the user waits for things to take effect, one request or run is under
\* way at a time, and an owner change that the listener has not noticed is
\* either one of the user's or announced by the marker file.
Alone ==
    /\ \A s, t \in Setters : Waiting(s) /\ Waiting(t) => s = t
    /\ handler = "posted" => \A s \in Setters : ~Waiting(s)
    /\ handler = "posted" \/ (\E s \in Setters : Waiting(s))
          => notices = 0 /\ reader["listener"] = "idle"
Announced ==
    /\ \A s \in Setters : step[s] \in {"open", "own"} => marker
    /\ notices \in {0, 1}
    /\ notices = 1 => reader["listener"] = "idle" /\ (owner.who = "setter" => marker)
Unasked ==
    /\ reader["listener"] \in {"idle", "typed"}
    /\ reader["listener"] = "typed" => owner.who # "setter"
    /\ \A s \in Setters : \A e \in Elements(events[s]) : e.reader # "listener"
    /\ \A p \in Procs : incr[p] # "listener"
OnlyCopies == \A c \in got["listener"] : c.who = "user"

Calm == Alone /\ Announced /\ Unasked /\ OnlyCopies

IInv == TypeOK /\ NotBegun /\ Ownership /\ Untold /\ (~hurried => Calm)

-----------------------------------------------------------------------------
(* Queues of events *)

\* What is in a queue after an event has been added.
LEMMA ElementsOfAppend ==
  ASSUME NEW S, NEW q \in Seq(S), NEW m \in S
  PROVE  Append(q, m) \in Seq(S) /\ Elements(Append(q, m)) = Elements(q) \cup {m}
<1>1. /\ Append(q, m) \in Seq(S)
      /\ Len(Append(q, m)) = Len(q) + 1
      /\ \A i \in 1 .. Len(q) : Append(q, m)[i] = q[i]
      /\ Append(q, m)[Len(q) + 1] = m
  BY AppendProperties
<1>2. DOMAIN q = 1 .. Len(q) /\ DOMAIN Append(q, m) = 1 .. Len(q) + 1 /\ Len(q) \in Nat
  BY <1>1, LenProperties
<1> QED
  BY <1>1, <1>2 DEF Elements

\* What is in a queue without its first event.
LEMMA ElementsOfTail ==
  ASSUME NEW S, NEW q \in Seq(S), q # <<>>
  PROVE  /\ Tail(q) \in Seq(S) /\ Head(q) \in S
         /\ Head(q) \in Elements(q) /\ Elements(Tail(q)) \subseteq Elements(q)
<1>1. /\ Head(q) \in S /\ Tail(q) \in Seq(S)
      /\ Head(q) = q[1] /\ Len(q) \in Nat \ {0}
      /\ Len(Tail(q)) = Len(q) - 1
      /\ \A i \in 1 .. Len(q) - 1 : Tail(q)[i] = q[i + 1]
  BY HeadTailProperties, EmptySeq, LenProperties
<1>2. DOMAIN q = 1 .. Len(q) /\ DOMAIN Tail(q) = 1 .. Len(q) - 1
  BY <1>1, LenProperties
<1> QED
  BY <1>1, <1>2 DEF Elements

\* Setters of different runs differ, and no user or nobody is one.
LEMMA Owners ==
  ASSUME owner \in [who : {"nobody", "user", "setter"}, id : Nat], NEW s
  PROVE  owner = Setter(s) <=> owner.who = "setter" /\ owner.id = s
BY DEF Setter

-----------------------------------------------------------------------------
(* What the X server does *)

\* An owner change reaches the queue of the old owner and no other.
LEMMA SelectionTaken ==
  ASSUME TypeOK, NEW new, TakeSelection(new)
  PROVE  /\ events' \in [Setters -> Seq(Event)]
         /\ \A s \in Setters :
               /\ owner # Setter(s) => events'[s] = events[s]
               /\ \A e \in Elements(events'[s]) : e \in Elements(events[s]) \/ e.reader = "none"
         /\ notices' \in {notices, notices + 1} /\ notices' \in Nat
         /\ owner' = new
<1> DEFINE told == [kind |-> "clear", reader |-> "none"]
<1>1. told \in Event /\ events \in [Setters -> Seq(Event)]
  BY DEF TypeOK, Event
<1>2. events' = events \/ /\ owner.who = "setter"
                          /\ events' = [events EXCEPT ![owner.id] = Append(@, told)]
  BY DEF TakeSelection
<1>3. told.reader = "none"
  OBVIOUS
<1>4. ASSUME NEW s \in Setters
      PROVE  /\ Append(events[s], told) \in Seq(Event)
             /\ Elements(Append(events[s], told)) = Elements(events[s]) \cup {told}
  BY <1>1, ElementsOfAppend
<1> HIDE DEF told
<1>6. events' \in [Setters -> Seq(Event)]
  BY <1>1, <1>2, <1>4
<1>7. ASSUME NEW s \in Setters
      PROVE  /\ owner # Setter(s) => events'[s] = events[s]
             /\ \A e \in Elements(events'[s]) : e \in Elements(events[s]) \/ e.reader = "none"
  <2>1. CASE owner = Setter(s)
    <3>1. events'[s] = events[s] \/ events'[s] = Append(events[s], told)
      BY <1>1, <1>2
    <3> QED
      BY <1>3, <1>4, <2>1, <3>1
  <2>2. CASE owner # Setter(s)
    <3>1. ~(owner.who = "setter" /\ owner.id = s)
      BY <2>2, Owners DEF TypeOK
    <3>2. events'[s] = events[s]
      BY <1>1, <1>2, <3>1
    <3> QED
      BY <3>2
  <2> QED
    BY <2>1, <2>2
<1>5. notices' \in {notices, notices + 1} /\ notices' \in Nat
  BY DEF TakeSelection, TypeOK
<1> QED
  BY <1>5, <1>6, <1>7 DEF TakeSelection

\* A question reaches the queue of the owner, or is answered at once: by another
\* program with its own contents, and without an owner with nothing.
LEMMA Asked ==
  ASSUME TypeOK, NEW r \in Readers, NEW kind \in {"types", "data"}, Ask(r, kind)
  PROVE  /\ events' \in [Setters -> Seq(Event)]
         /\ owner.who # "setter" => events' = events /\ reader'[r] \in {"idle", "typed"}
         /\ \A s \in Setters : \A e \in Elements(events'[s]) :
               e \in Elements(events[s]) \/ e = [kind |-> kind, reader |-> r]
         /\ reader' \in [Readers -> {"idle", "types", "typed", "data", "chunk"}]
         /\ got' \in [Readers -> SUBSET [who : {"user", "item"}, id : Nat]]
         /\ \A q \in Readers \ {r} : reader'[q] = reader[q] /\ got'[q] = got[q]
         /\ \A c \in got'[r] : c \in got[r] \/ c.who = "user"
<1> DEFINE asked == [kind |-> kind, reader |-> r]
<1>1. asked \in Event /\ events \in [Setters -> Seq(Event)]
  BY DEF TypeOK, Event
<1>2. CASE owner.who = "setter"
  <2>1. /\ events' = [events EXCEPT ![owner.id] = Append(@, asked)]
        /\ reader' = [reader EXCEPT ![r] = kind] /\ got' = got
    BY <1>2 DEF Ask
  <2>2. ASSUME NEW s \in Setters
        PROVE  /\ Append(events[s], asked) \in Seq(Event)
               /\ Elements(Append(events[s], asked)) = Elements(events[s]) \cup {asked}
    BY <1>1, ElementsOfAppend
  <2> HIDE DEF asked
  <2>3. /\ events' \in [Setters -> Seq(Event)]
        /\ \A s \in Setters : \A e \in Elements(events'[s]) : e \in Elements(events[s]) \/ e = asked
    BY <1>1, <2>1, <2>2
  <2> QED
    BY <1>2, <2>1, <2>3 DEF TypeOK, asked
<1>3. CASE owner.who = "user"
  <2>1. /\ reader' = [reader EXCEPT ![r] = IF kind = "types" THEN "typed" ELSE "idle"]
        /\ got' = [got EXCEPT ![r] = IF kind = "types" THEN @ ELSE @ \cup {owner}]
        /\ events' = events
    BY <1>3 DEF Ask
  <2>2. owner \in [who : {"user", "item"}, id : Nat]
    BY <1>3 DEF TypeOK
  <2> QED
    BY <1>1, <1>3, <2>1, <2>2 DEF TypeOK
<1>4. CASE owner.who = "nobody"
  <2>1. reader' = [reader EXCEPT ![r] = "idle"] /\ got' = got /\ events' = events
    BY <1>4 DEF Ask
  <2> QED
    BY <1>1, <1>4, <2>1 DEF TypeOK
<1> QED
  BY <1>2, <1>3, <1>4 DEF TypeOK

\* One turn of xcin: whom it answers is whoever asked in this event, or the
\* reader of the transfer; it gives nothing but its own item.
LEMMA Turned ==
  ASSUME TypeOK, NEW s \in Setters, events[s] # <<>>, Xcin(s)
  PROVE  /\ Head(events[s]) \in Elements(events[s])
         /\ events' \in [Setters -> Seq(Event)]
         /\ \A t \in Setters \ {s} : events'[t] = events[t]
         /\ \A e \in Elements(events'[s]) :
               e \in Elements(events[s]) \/ (e.kind = "deleted" /\ e.reader = "none")
         /\ reader' \in [Readers -> {"idle", "types", "typed", "data", "chunk"}]
         /\ got' \in [Readers -> SUBSET [who : {"user", "item"}, id : Nat]]
         /\ \A r \in Readers : r # Head(events[s]).reader /\ r # incr[Proc(s)]
                                 => reader'[r] = reader[r] /\ got'[r] = got[r]
         /\ incr' \in [Procs -> Readers \cup {"none"}]
         /\ \A p \in Procs : incr'[p] \in {incr[p], "none", Head(events[s]).reader}
         /\ pos' \in [Procs -> 0 .. NumChunks]
<1> DEFINE e == Head(events[s])
           sent == [kind |-> "deleted", reader |-> "none"]
<1>1. sent \in Event /\ events \in [Setters -> Seq(Event)] /\ sent.kind = "deleted" /\ sent.reader = "none"
  BY DEF TypeOK, Event
<1>2. /\ Tail(events[s]) \in Seq(Event) /\ e \in Event
      /\ e \in Elements(events[s]) /\ Elements(Tail(events[s])) \subseteq Elements(events[s])
  BY <1>1, ElementsOfTail
<1> HIDE DEF sent
<1>3. \A q \in Seq(Event) : /\ Append(q, sent) \in Seq(Event)
                            /\ Elements(Append(q, sent)) = Elements(q) \cup {sent}
  BY <1>1, ElementsOfAppend
<1>4. \E q \in {Tail(events[s]), Append(Tail(events[s]), sent)} : events' = [events EXCEPT ![s] = q]
  BY <1>1 DEF Xcin, Taken, TakenAndSent, sent
<1>5. Proc(s) \in Procs /\ e.reader \in Readers \cup {"none"} /\ incr[Proc(s)] \in Readers \cup {"none"}
  BY <1>2 DEF Proc, Procs, Event, TypeOK
<1>6. Item(buf[s]) \in [who : {"user", "item"}, id : Nat]
  <2>1. buf[s] \in 0 .. setup.items /\ setup.items \in Nat
    BY SetupsAssumption, BoundsAssumption DEF TypeOK
  <2> QED
    BY <2>1 DEF Item
<1>7. PICK r \in {e.reader, incr[Proc(s)]} :
         /\ \/ reader' = reader
            \/ \E next \in {"typed", "idle", "chunk"} : reader' = [reader EXCEPT ![r] = next]
         /\ \/ got' = got
            \/ got' = [got EXCEPT ![r] = @ \cup {Item(buf[s])}]
         /\ incr' \in {incr, [incr EXCEPT ![Proc(s)] = e.reader], [incr EXCEPT ![Proc(s)] = "none"]}
         /\ \/ pos' \in {pos, [pos EXCEPT ![Proc(s)] = 0]}
            \/ pos[Proc(s)] < NumChunks /\ pos' = [pos EXCEPT ![Proc(s)] = @ + 1]
  <2>1. CASE incr[Proc(s)] = "none" /\ e.kind = "types" /\ Answer(e.reader, "typed")
             /\ UNCHANGED <<incr, pos, got>>
    BY <2>1 DEF Answer
  <2>2. CASE Obtain(e.reader, buf[s]) /\ UNCHANGED <<incr, pos>>
    BY <2>2 DEF Answer, Obtain
  <2>3. CASE /\ Answer(e.reader, "chunk") /\ UNCHANGED got
             /\ incr' = [incr EXCEPT ![Proc(s)] = e.reader] /\ pos' = [pos EXCEPT ![Proc(s)] = 0]
    BY <2>3 DEF Answer
  <2>4. CASE /\ pos[Proc(s)] < NumChunks /\ pos' = [pos EXCEPT ![Proc(s)] = @ + 1]
             /\ UNCHANGED <<incr, reader, got>>
    BY <2>4
  <2>5. CASE /\ Obtain(incr[Proc(s)], buf[s]) /\ UNCHANGED pos
             /\ incr' = [incr EXCEPT ![Proc(s)] = "none"]
    BY <2>5 DEF Answer, Obtain
  <2>6. CASE UNCHANGED <<incr, pos, reader, got>>
    BY <2>6
  <2> QED
    BY <2>1, <2>2, <2>3, <2>4, <2>5, <2>6 DEF Xcin, MoreChunks
<1> HIDE DEF e
<1>8. /\ events' \in [Setters -> Seq(Event)]
      /\ \A t \in Setters \ {s} : events'[t] = events[t]
      /\ \A m \in Elements(events'[s]) : m \in Elements(events[s]) \/ m = sent
  BY <1>1, <1>2, <1>3, <1>4
<1>9. /\ reader' \in [Readers -> {"idle", "types", "typed", "data", "chunk"}]
      /\ \A q \in Readers : q # e.reader /\ q # incr[Proc(s)] => reader'[q] = reader[q]
  <2>1. CASE reader' = reader
    BY <2>1 DEF TypeOK
  <2>2. ASSUME NEW next \in {"typed", "idle", "chunk"}, reader' = [reader EXCEPT ![r] = next]
        PROVE  /\ reader' \in [Readers -> {"idle", "types", "typed", "data", "chunk"}]
               /\ \A q \in Readers \ {r} : reader'[q] = reader[q]
    BY <2>2 DEF TypeOK
  <2> QED
    BY <1>7, <2>1, <2>2
<1>10. /\ got' \in [Readers -> SUBSET [who : {"user", "item"}, id : Nat]]
       /\ \A q \in Readers : q # e.reader /\ q # incr[Proc(s)] => got'[q] = got[q]
  <2>1. CASE got' = got
    BY <2>1 DEF TypeOK
  <2>2. CASE got' = [got EXCEPT ![r] = @ \cup {Item(buf[s])}]
    <3> DEFINE All == [who : {"user", "item"}, id : Nat]
               item == Item(buf[s])
    <3>1. item \in All /\ got \in [Readers -> SUBSET All]
      BY <1>6 DEF TypeOK
    <3> HIDE DEF All, item
    <3>2. got' = [got EXCEPT ![r] = @ \cup {item}]
      BY <2>2 DEF item
    <3>3. got' \in [Readers -> SUBSET All] /\ \A q \in Readers \ {r} : got'[q] = got[q]
      BY <3>1, <3>2
    <3> QED
      BY <1>7, <3>3 DEF All
  <2> QED
    BY <1>7, <2>1, <2>2
<1>11. /\ incr' \in [Procs -> Readers \cup {"none"}]
       /\ \A p \in Procs : incr'[p] \in {incr[p], "none", e.reader}
  BY <1>5, <1>7 DEF TypeOK
<1>12. pos' \in [Procs -> 0 .. NumChunks]
  <2>1. pos \in [Procs -> 0 .. 2]
    BY DEF TypeOK, NumChunks
  <2>2. pos[Proc(s)] < 2 => pos[Proc(s)] + 1 \in 0 .. 2
    BY <1>5, <2>1
  <2>3. \E n \in 0 .. 2 : pos' \in {pos, [pos EXCEPT ![Proc(s)] = n]}
    BY <1>7, <2>1, <2>2 DEF NumChunks
  <2> QED
    BY <2>1, <2>3 DEF NumChunks
<1> QED
  BY <1>1, <1>2, <1>8, <1>9, <1>10, <1>11, <1>12 DEF e
-----------------------------------------------------------------------------
(* Types *)

\* Processes and runs, and what the situation bounds.
LEMMA Situation ==
  ASSUME TypeOK
  PROVE  /\ setup.web \in BOOLEAN
         /\ setup.items \in Nat /\ setup.copies \in Nat /\ setup.pastes \in Nat
         /\ MaxSetters \in Nat
         /\ \A s \in Setters : s \in Nat /\ Proc(s) \in Procs /\ (~setup.web => Proc(s) = s)
         /\ setup.web => \A s \in Setters : Proc(s) = 0
         /\ received \in 0 .. setup.items /\ copies \in 0 .. setup.copies
         /\ pastes \in 0 .. setup.pastes /\ setters \in 0 .. MaxSetters
BY SetupsAssumption, BoundsAssumption DEF TypeOK, Proc, Procs, Setters

\* Every step of the user keeps the types.
LEMMA UserKeepsTypes ==
  ASSUME TypeOK, UserStep, UNCHANGED setup
  PROVE  TypeOK'
<1>0. Procs' = Procs
  BY DEF Procs
<1>h. hurried' \in BOOLEAN
  BY DEF TypeOK, UserStep, Copy, Paste, OtherPost, Receive, UserActs
<1>1. CASE Copy
  <2>1. copies + 1 \in Nat /\ copies' \in 0 .. setup.copies
    BY <1>1, Situation DEF Copy
  <2>2. TakeSelection(User(copies + 1)) /\ User(copies + 1) \in [who : {"nobody", "user", "setter"}, id : Nat]
    BY <1>1, <2>1 DEF Copy, User
  <2>3. /\ events' \in [Setters -> Seq(Event)] /\ notices' \in Nat
        /\ owner' \in [who : {"nobody", "user", "setter"}, id : Nat]
    BY <2>2, SelectionTaken
  <2> QED
    BY <1>0, <1>1, <1>h, <2>1, <2>3 DEF Copy, TypeOK, Event, requestVars, processVars
<1>2. CASE Paste
  <2>1. pastes' \in 0 .. setup.pastes /\ Ask("app", "types")
    BY <1>2, Situation DEF Paste
  <2>2. /\ events' \in [Setters -> Seq(Event)]
        /\ reader' \in [Readers -> {"idle", "types", "typed", "data", "chunk"}]
        /\ got' \in [Readers -> SUBSET [who : {"user", "item"}, id : Nat]]
    BY <2>1, Asked DEF Readers
  <2> QED
    BY <1>0, <1>2, <1>h, <2>1, <2>2 DEF Paste, TypeOK, Event, requestVars, processVars
<1>3. CASE OtherPost
  BY <1>0, <1>3, <1>h DEF OtherPost, TypeOK, processVars, setterVars, desktopVars
<1>4. ASSUME NEW files \in BOOLEAN, Receive(files)
      PROVE  TypeOK'
  <2>1. received + 1 \in 0 .. setup.items
    BY <1>4, Situation DEF Receive
  <2>2. landed' \subseteq {"working_dir", "/"}
    BY <1>4 DEF Receive, TypeOK
  <2>3. pend' \in [Procs -> [data : 0 .. setup.items, set : BOOLEAN]]
    BY <1>4, <2>1 DEF Receive, TypeOK
  <2> QED
    BY <1>0, <1>4, <1>h, <2>1, <2>2, <2>3 DEF Receive, TypeOK, setterVars, desktopVars
<1> QED
  BY <1>1, <1>2, <1>3, <1>4 DEF UserStep

\* Every step of the program keeps the types.
LEMMA ProgramKeepsTypes ==
  ASSUME TypeOK, UNCHANGED <<setup, hurried>>,
         \/ EndRequest \/ Listen
         \/ \E r \in Readers : ReadData(r)
         \/ \E s \in Setters : SetterStep(s)
  PROVE  TypeOK'
<1>0. Procs' = Procs
  BY DEF Procs
<1>n. \A p \in Procs : [pend EXCEPT ![p] = Nothing] \in [Procs -> [data : 0 .. setup.items, set : BOOLEAN]]
  <2>1. pend \in [Procs -> [data : 0 .. setup.items, set : BOOLEAN]]
    BY DEF TypeOK
  <2>2. Nothing \in [data : 0 .. setup.items, set : BOOLEAN]
    BY Situation DEF Nothing
  <2> QED
    BY <2>1, <2>2
<1>p. \A s \in Setters : Proc(s) \in Procs
  BY Situation
<1>1. CASE EndRequest
  <2>1. /\ setters' \in 0 .. MaxSetters
        /\ step' \in [Setters -> {"new", "start", "open", "own", "serve", "done"}]
    <3>1. setters < MaxSetters => setters + 1 \in 0 .. MaxSetters
      BY Situation
    <3>2. \/ setters' = setters /\ step' = step
          \/ /\ setters < MaxSetters /\ setters' = setters + 1
             /\ step' = [step EXCEPT ![setters + 1] = "start"]
      BY <1>1 DEF EndRequest, requestVars
    <3> QED
      BY <3>1, <3>2 DEF TypeOK
  <2> QED
    BY <1>0, <1>1, <2>1 DEF EndRequest, TypeOK, processVars, desktopVars
<1>2. CASE Listen
  <2>1. notices' \in Nat
    BY <1>2 DEF Listen, TypeOK
  <2>2. /\ events' \in [Setters -> Seq(Event)]
        /\ reader' \in [Readers -> {"idle", "types", "typed", "data", "chunk"}]
        /\ got' \in [Readers -> SUBSET [who : {"user", "item"}, id : Nat]]
    <3>1. CASE UNCHANGED <<reader, got, events>>
      BY <3>1 DEF TypeOK, Event
    <3>2. CASE Ask("listener", "types")
      BY <3>2, Asked DEF Readers
    <3> QED
      BY <1>2, <3>1, <3>2 DEF Listen
  <2> QED
    BY <1>0, <1>2, <2>1, <2>2 DEF Listen, TypeOK, Event, requestVars, processVars
<1>3. ASSUME NEW r \in Readers, ReadData(r)
      PROVE  TypeOK'
  <2>1. /\ events' \in [Setters -> Seq(Event)]
        /\ reader' \in [Readers -> {"idle", "types", "typed", "data", "chunk"}]
        /\ got' \in [Readers -> SUBSET [who : {"user", "item"}, id : Nat]]
    BY <1>3, Asked DEF ReadData
  <2> QED
    BY <1>0, <1>3, <2>1 DEF ReadData, TypeOK, Event, requestVars, processVars
<1>4. ASSUME NEW s \in Setters, Start(s)
      PROVE  TypeOK'
  <2>1. /\ pend' \in [Procs -> [data : 0 .. setup.items, set : BOOLEAN]]
        /\ step' \in [Setters -> {"new", "start", "open", "own", "serve", "done"}] /\ marker' \in BOOLEAN
    <3>1. CASE step' = [step EXCEPT ![s] = "open"] /\ marker' = TRUE /\ UNCHANGED pend
      BY <3>1 DEF TypeOK
    <3>2. CASE /\ pend' = [pend EXCEPT ![Proc(s)] = Nothing]
               /\ step' = [step EXCEPT ![s] = "done"] /\ UNCHANGED marker
      <4>1. pend' \in [Procs -> [data : 0 .. setup.items, set : BOOLEAN]]
        BY <1>n, <1>p, <3>2
      <4> QED
        BY <3>2, <4>1 DEF TypeOK
    <3> QED
      BY <1>4, <3>1, <3>2 DEF Start
  <2> QED
    BY <1>0, <1>4, <2>1 DEF Start, TypeOK, requestVars
<1>5. ASSUME NEW s \in Setters, Open(s)
      PROVE  TypeOK'
  <2>1. /\ buf' \in [Setters -> 0 .. setup.items]
        /\ step' \in [Setters -> {"new", "start", "open", "own", "serve", "done"}]
    BY <1>5, <1>p DEF Open, TypeOK
  <2> QED
    BY <1>0, <1>5, <2>1 DEF Open, TypeOK, requestVars, processVars, desktopVars
<1>6. ASSUME NEW s \in Setters, OpenFails(s)
      PROVE  TypeOK'
  <2>1. /\ pend' \in [Procs -> [data : 0 .. setup.items, set : BOOLEAN]]
        /\ step' \in [Setters -> {"new", "start", "open", "own", "serve", "done"}]
    BY <1>6, <1>n, <1>p DEF OpenFails, TypeOK
  <2> QED
    BY <1>0, <1>6, <2>1 DEF OpenFails, TypeOK, requestVars, desktopVars
<1>7. ASSUME NEW s \in Setters, OpenCrashes(s)
      PROVE  TypeOK'
  <2>1. /\ step' \in [Setters -> {"new", "start", "open", "own", "serve", "done"}]
        /\ owner' \in [who : {"nobody", "user", "setter"}, id : Nat]
        /\ handler' \in {"idle", "posted", "dead"}
    BY <1>7 DEF OpenCrashes, TypeOK, Nobody
  <2> QED
    BY <1>0, <1>7, <2>1 DEF OpenCrashes, TypeOK, processVars
<1>8. ASSUME NEW s \in Setters, Own(s)
      PROVE  TypeOK'
  <2>1. TakeSelection(Setter(s)) /\ Setter(s) \in [who : {"nobody", "user", "setter"}, id : Nat]
    BY <1>8, Situation DEF Own, Setter
  <2>2. /\ events' \in [Setters -> Seq(Event)] /\ notices' \in Nat
        /\ owner' \in [who : {"nobody", "user", "setter"}, id : Nat]
    BY <2>1, SelectionTaken
  <2>3. /\ cwd' \in [Procs -> {"working_dir", "/"}]
        /\ step' \in [Setters -> {"new", "start", "open", "own", "serve", "done"}]
    BY <1>8, <1>p DEF Own, TypeOK
  <2> QED
    BY <1>0, <1>8, <2>2, <2>3 DEF Own, TypeOK, Event, requestVars
<1>9. ASSUME NEW s \in Setters, Serve(s)
      PROVE  TypeOK'
  <2>1. /\ events' \in [Setters -> Seq(Event)]
        /\ reader' \in [Readers -> {"idle", "types", "typed", "data", "chunk"}]
        /\ got' \in [Readers -> SUBSET [who : {"user", "item"}, id : Nat]]
        /\ incr' \in [Procs -> Readers \cup {"none"}]
        /\ pos' \in [Procs -> 0 .. NumChunks]
    BY <1>9, Turned DEF Serve
  <2>2. /\ pend' \in [Procs -> [data : 0 .. setup.items, set : BOOLEAN]]
        /\ step' \in [Setters -> {"new", "start", "open", "own", "serve", "done"}]
        /\ owner' \in [who : {"nobody", "user", "setter"}, id : Nat]
    <3>1. /\ pend' \in {pend, [pend EXCEPT ![Proc(s)] = Nothing]}
          /\ step' \in {step, [step EXCEPT ![s] = "done"]}
          /\ owner' \in {owner, Nobody}
      BY <1>9 DEF Serve
    <3>2. pend' \in [Procs -> [data : 0 .. setup.items, set : BOOLEAN]]
      <4>1. pend \in [Procs -> [data : 0 .. setup.items, set : BOOLEAN]]
        BY DEF TypeOK
      <4>2. pend' = pend \/ pend' = [pend EXCEPT ![Proc(s)] = Nothing]
        BY <3>1
      <4> QED
        BY <1>n, <1>p, <4>1, <4>2
    <3>3. step' \in [Setters -> {"new", "start", "open", "own", "serve", "done"}]
      BY <3>1 DEF TypeOK
    <3>4. owner' \in [who : {"nobody", "user", "setter"}, id : Nat]
      BY <3>1 DEF TypeOK, Nobody
    <3> QED
      BY <3>2, <3>3, <3>4
  <2>3. clear' \in [Procs -> BOOLEAN]
    <3>1. \E b \in BOOLEAN : clear' = [clear EXCEPT ![Proc(s)] = b]
      BY <1>9, <1>p DEF Serve, TypeOK
    <3> QED
      BY <1>p, <3>1 DEF TypeOK
  <2> QED
    BY <1>0, <1>9, <2>1, <2>2, <2>3 DEF Serve, TypeOK, Event, requestVars
<1> QED
  BY <1>1, <1>2, <1>3, <1>4, <1>5, <1>6, <1>7, <1>8, <1>9 DEF SetterStep

\* Together, stuttering included.
LEMMA TypeStep ==
  ASSUME TypeOK, [Next]_vars
  PROVE  TypeOK'
<1>1. CASE UNCHANGED vars
  BY <1>1 DEF TypeOK, Procs, vars, requestVars, processVars, setterVars, desktopVars
<1>2. CASE Next
  BY <1>2, UserKeepsTypes, ProgramKeepsTypes DEF Next
<1> QED
  BY <1>1, <1>2
-----------------------------------------------------------------------------
(* Who owns the selection *)

\* A request ends with at most one new run, which has not begun before.
LEMMA RequestEnded ==
  ASSUME TypeOK, NotBegun, EndRequest
  PROVE  /\ handler = "posted" /\ handler' = "idle" /\ UNCHANGED <<processVars, buf, events, desktopVars>>
         /\ \/ UNCHANGED <<setters, step>>
            \/ /\ setters + 1 \in Setters /\ step[setters + 1] = "new" /\ setters' = setters + 1
               /\ step' = [step EXCEPT ![setters + 1] = "start"]
<1>1. setters < MaxSetters => setters + 1 \in Setters /\ setters + 1 > setters
  BY Situation DEF Setters
<1> QED
  BY <1>1 DEF EndRequest, NotBegun, requestVars

\* Each step changes the steps and the owner as little as this says.
LEMMA Kept ==
  ASSUME TypeOK, NotBegun, Ownership, Next
  PROVE  /\ NotBegun'
         /\ Ownership'
<1>t. /\ step \in [Setters -> {"new", "start", "open", "own", "serve", "done"}]
      /\ owner \in [who : {"nobody", "user", "setter"}, id : Nat]
  BY DEF TypeOK
<1>n. setters \in Nat /\ \A s \in Setters : s \in Nat
  BY Situation
<1>1. CASE UserStep
  <2>1. UNCHANGED <<setters, step>>
    BY <1>1 DEF UserStep, Copy, Paste, OtherPost, Receive, requestVars, setterVars
  <2>2. owner' = owner \/ owner'.who = "user"
    BY <1>1 DEF UserStep, Copy, Paste, OtherPost, Receive, desktopVars, TakeSelection, User
  <2> QED
    BY <2>1, <2>2 DEF NotBegun, Ownership
<1>2. CASE Listen \/ \E r \in Readers : ReadData(r)
  <2>1. UNCHANGED <<setters, step, owner>>
    BY <1>2 DEF Listen, ReadData, requestVars
  <2> QED
    BY <2>1 DEF NotBegun, Ownership
<1>3. CASE EndRequest
  <2>1. owner' = owner
    BY <1>3 DEF EndRequest, desktopVars
  <2>2. CASE UNCHANGED <<setters, step>>
    BY <2>1, <2>2 DEF NotBegun, Ownership
  <2>3. CASE /\ setters + 1 \in Setters /\ step[setters + 1] = "new" /\ setters' = setters + 1
             /\ step' = [step EXCEPT ![setters + 1] = "start"]
    <3>1. NotBegun'
      BY <1>t, <1>n, <2>3 DEF NotBegun
    <3>2. Ownership'
      BY <1>t, <2>1, <2>3 DEF Ownership
    <3> QED
      BY <3>1, <3>2
  <2> QED
    BY <1>3, <2>2, <2>3, RequestEnded
<1>4. ASSUME NEW s \in Setters, SetterStep(s)
      PROVE  NotBegun' /\ Ownership'
  <2>1. /\ setters' = setters /\ step[s] # "new"
        /\ step' \in [Setters -> {"new", "start", "open", "own", "serve", "done"}]
        /\ \A t \in Setters : step[t] = "new" => step'[t] = "new"
    BY <1>4, <1>t DEF SetterStep, Start, Open, OpenFails, OpenCrashes, Own, Serve, requestVars
  <2>2. NotBegun'
    BY <2>1 DEF NotBegun
  <2>3. Ownership'
    <3>1. CASE Start(s) \/ Open(s) \/ OpenFails(s)
      BY <1>t, <3>1 DEF Start, Open, OpenFails, desktopVars, Ownership
    <3>2. CASE OpenCrashes(s)
      BY <1>t, <3>2 DEF OpenCrashes, Nobody, Ownership
    <3>3. CASE Own(s)
      BY <1>t, <3>3 DEF Own, TakeSelection, Setter, Ownership
    <3>4. CASE Serve(s)
      <4>1. CASE step' = step /\ owner' = owner
        BY <4>1 DEF Ownership
      <4>2. CASE step' = [step EXCEPT ![s] = "done"] /\ owner' = IF owner = Setter(s) THEN Nobody ELSE owner
        BY <1>t, <4>2, Owners DEF Nobody, Ownership
      <4> QED
        BY <3>4, <4>1, <4>2 DEF Serve
    <3> QED
      BY <1>4, <3>1, <3>2, <3>3, <3>4 DEF SetterStep
  <2> QED
    BY <2>2, <2>3
<1> QED
  BY <1>1, <1>2, <1>3, <1>4 DEF Next

\* The owner is told of its loss, and a run leaves only when it has been told.
LEMMA ToldOnLoss ==
  ASSUME TypeOK, NotBegun, Ownership, Untold, Next
  PROVE  Untold'
<1> SUFFICES ASSUME ~setup.web, NEW t \in Setters,
                    step'[t] \in {"new", "start", "open", "own"} \/ owner' = Setter(t)
             PROVE  ~clear'[t] /\ \A e \in Elements(events'[t]) : e.kind # "clear"
  BY DEF Next, Untold
<1>t. /\ step \in [Setters -> {"new", "start", "open", "own", "serve", "done"}]
      /\ owner \in [who : {"nobody", "user", "setter"}, id : Nat]
      /\ clear \in [Procs -> BOOLEAN] /\ events \in [Setters -> Seq(Event)]
  BY DEF TypeOK, Event
<1>p. Procs = Setters /\ \A s \in Setters : Proc(s) = s
  BY DEF Procs, Proc
<1>u. step[t] \in {"new", "start", "open", "own"} \/ owner = Setter(t)
        => ~clear[t] /\ \A e \in Elements(events[t]) : e.kind # "clear"
  BY DEF Untold
<1>o. step[t] \in {"new", "start", "open", "own"} => owner # Setter(t)
  BY Owners, <1>t DEF Ownership
<1>1. CASE Copy
  <2>1. /\ TakeSelection(User(copies + 1)) /\ step' = step /\ clear' = clear
    BY <1>1 DEF Copy, processVars
  <2>2. owner' # Setter(t)
    BY <2>1 DEF TakeSelection, User, Setter
  <2>3. owner # Setter(t)
    BY <1>o, <2>1, <2>2
  <2>4. events'[t] = events[t]
    BY <2>1, <2>3, SelectionTaken
  <2> QED
    BY <1>u, <2>1, <2>2, <2>4
<1>2. ASSUME NEW r \in Readers, NEW kind \in {"types", "data"}, Ask(r, kind) \/ UNCHANGED events,
             UNCHANGED <<step, clear, owner>>
      PROVE  ~clear'[t] /\ \A e \in Elements(events'[t]) : e.kind # "clear"
  <2>1. ~clear[t] /\ \A e \in Elements(events[t]) : e.kind # "clear"
    BY <1>u, <1>2
  <2>2. CASE Ask(r, kind)
    <3>1. \A e \in Elements(events'[t]) : e \in Elements(events[t]) \/ e = [kind |-> kind, reader |-> r]
      BY <2>2, Asked
    <3> QED
      BY <1>2, <2>1, <3>1
  <2> QED
    BY <1>2, <2>1, <2>2
<1>3. CASE Paste
  <2>1. Ask("app", "types") /\ UNCHANGED <<step, clear, owner>> /\ "app" \in Readers
    BY <1>3 DEF Paste, processVars, Readers
  <2> QED
    BY <1>2, <2>1
<1>4. CASE OtherPost \/ \E files \in BOOLEAN : Receive(files)
  <2>1. UNCHANGED <<step, clear, owner, events>>
    BY <1>4 DEF OtherPost, Receive, processVars, setterVars, desktopVars
  <2> QED
    BY <1>u, <2>1
<1>5. CASE EndRequest
  <2>1. /\ UNCHANGED <<clear, owner, events>>
        /\ step'[t] = step[t] \/ step[t] = "new"
    BY <1>5, <1>t, RequestEnded DEF processVars, desktopVars
  <2> QED
    BY <1>u, <2>1
<1>6. CASE Listen
  <2>1. /\ UNCHANGED events \/ Ask("listener", "types")
        /\ UNCHANGED <<step, clear, owner>> /\ "listener" \in Readers
    BY <1>6 DEF Listen, processVars, Readers
  <2> QED
    BY <1>2, <2>1
<1>7. ASSUME NEW r \in Readers, ReadData(r)
      PROVE  ~clear'[t] /\ \A e \in Elements(events'[t]) : e.kind # "clear"
  <2>1. Ask(r, "data") /\ UNCHANGED <<step, clear, owner>>
    BY <1>7 DEF ReadData, processVars
  <2> QED
    BY <1>2, <2>1
<1>8. ASSUME NEW s \in Setters, Start(s) \/ Open(s) \/ OpenFails(s)
      PROVE  ~clear'[t] /\ \A e \in Elements(events'[t]) : e.kind # "clear"
  <2>1. /\ UNCHANGED <<clear, owner, events>>
        /\ step'[t] = step[t] \/ (s = t /\ step[t] \in {"start", "open"})
    BY <1>8, <1>t DEF Start, Open, OpenFails, processVars, desktopVars
  <2> QED
    BY <1>u, <2>1
<1>9. ASSUME NEW s \in Setters, OpenCrashes(s)
      PROVE  ~clear'[t] /\ \A e \in Elements(events'[t]) : e.kind # "clear"
  <2>1. /\ UNCHANGED <<clear, events>> /\ owner' \in {owner, Nobody}
        /\ step'[t] = step[t] \/ step'[t] = "done"
    BY <1>9, <1>t DEF OpenCrashes, processVars
  <2>2. Nobody # Setter(t)
    BY DEF Nobody, Setter
  <2> QED
    BY <1>u, <2>1, <2>2
<1>10. ASSUME NEW s \in Setters, Own(s)
       PROVE  ~clear'[t] /\ \A e \in Elements(events'[t]) : e.kind # "clear"
  <2>1. /\ TakeSelection(Setter(s)) /\ clear' = clear
        /\ step[s] = "own" /\ step' = [step EXCEPT ![s] = "serve"] /\ owner' = Setter(s)
    BY <1>10 DEF Own, TakeSelection
  <2>2. step[t] \in {"new", "start", "open", "own"}
    <3>1. CASE t = s
      BY <2>1, <3>1
    <3>2. CASE t # s
      BY <1>t, <2>1, <3>2 DEF Setter
    <3> QED
      BY <3>1, <3>2
  <2>3. events'[t] = events[t]
    BY <1>o, <2>1, <2>2, SelectionTaken
  <2> QED
    BY <1>u, <2>1, <2>2, <2>3
<1>11. ASSUME NEW s \in Setters, Serve(s)
       PROVE  ~clear'[t] /\ \A e \in Elements(events'[t]) : e.kind # "clear"
  <2>1. /\ Head(events[s]) \in Elements(events[s])
        /\ s # t => events'[t] = events[t]
        /\ \A e \in Elements(events'[s]) : e \in Elements(events[s]) \/ e.kind = "deleted"
    BY <1>11, Turned DEF Serve
  <2>2. /\ step[s] = "serve" /\ step'[t] \in {step[t], "done"} /\ owner' \in {owner, Nobody}
        /\ clear' = [clear EXCEPT ![s] = @ \/ Head(events[s]).kind = "clear"]
    BY <1>11, <1>p, <1>t DEF Serve
  <2>3. Nobody # Setter(t)
    BY DEF Nobody, Setter
  <2>4. ~clear[t] /\ \A e \in Elements(events[t]) : e.kind # "clear"
    BY <1>u, <2>2, <2>3
  <2>5. ~clear'[t]
    BY <1>t, <1>p, <2>1, <2>2, <2>4
  <2> QED
    BY <2>1, <2>4, <2>5
<1> QED
  BY <1>1, <1>3, <1>4, <1>5, <1>6, <1>7, <1>8, <1>9, <1>10, <1>11 DEF Next, UserStep, SetterStep
-----------------------------------------------------------------------------
(* While the user waits *)

\* The user acts only when nothing is under way.
LEMMA UserWaits ==
  ASSUME TypeOK, UserStep, ~hurried', ~hurried => Calm
  PROVE  /\ Calm /\ Quiet
         /\ handler # "posted" /\ notices = 0 /\ reader["listener"] = "idle"
         /\ \A s \in Setters : ~Waiting(s)
<1>1. ~hurried /\ Quiet
  BY DEF UserStep, Copy, Paste, OtherPost, Receive, UserActs, TypeOK
<1> QED
  BY <1>1 DEF Quiet, Waiting, Readers

\* No step of the user brings a received item to the listener.
LEMMA UserKeepsCalm ==
  ASSUME TypeOK, UserStep, UNCHANGED setup, ~hurried', ~hurried => Calm
  PROVE  Calm'
<1>0. /\ Calm /\ handler # "posted" /\ notices = 0 /\ reader["listener"] = "idle"
      /\ \A s \in Setters : ~Waiting(s)
  BY UserWaits
<1>p. Procs' = Procs
  BY DEF Procs
<1>1. CASE Copy
  <2>1. /\ TakeSelection(User(copies + 1))
        /\ UNCHANGED <<handler, step, reader, got, incr, marker>>
    BY <1>1 DEF Copy, requestVars, processVars
  <2>2. /\ \A s \in Setters : \A e \in Elements(events'[s]) : e \in Elements(events[s]) \/ e.reader = "none"
        /\ notices' \in {notices, notices + 1} /\ owner'.who = "user"
    BY <2>1, SelectionTaken DEF User
  <2>3. Alone' /\ Announced'
    BY <1>0, <2>1, <2>2 DEF Alone, Announced, Waiting
  <2>4. Unasked' /\ OnlyCopies'
    BY <1>0, <1>p, <2>1, <2>2 DEF Calm, Unasked, OnlyCopies
  <2> QED
    BY <2>3, <2>4 DEF Calm
<1>2. CASE Paste
  <2>1. Ask("app", "types") /\ UNCHANGED <<handler, step, incr, marker, notices, owner>>
    BY <1>2 DEF Paste, requestVars, processVars
  <2>2. /\ \A s \in Setters : \A e \in Elements(events'[s]) :
              e \in Elements(events[s]) \/ e = [kind |-> "types", reader |-> "app"]
        /\ reader'["listener"] = reader["listener"] /\ got'["listener"] = got["listener"]
    BY <2>1, Asked DEF Readers
  <2>3. Alone' /\ Announced'
    BY <1>0, <2>1, <2>2 DEF Calm, Alone, Announced, Waiting
  <2>4. Unasked' /\ OnlyCopies'
    BY <1>0, <1>p, <2>1, <2>2 DEF Calm, Unasked, OnlyCopies
  <2> QED
    BY <2>3, <2>4 DEF Calm
<1>3. CASE OtherPost \/ \E files \in BOOLEAN : Receive(files)
  <2>1. UNCHANGED <<step, incr, marker, notices, owner, events, reader, got>>
    BY <1>3 DEF OtherPost, Receive, processVars, setterVars, desktopVars
  <2> QED
    BY <1>0, <1>p, <2>1 DEF Calm, Alone, Announced, Unasked, OnlyCopies, Waiting
<1> QED
  BY <1>1, <1>2, <1>3 DEF UserStep

\* Nor does a step of the listener or of another program that reads.
LEMMA ReadersKeepCalm ==
  ASSUME TypeOK, Calm, UNCHANGED setup, Listen \/ \E r \in Readers : ReadData(r)
  PROVE  Calm'
<1>p. Procs' = Procs
  BY DEF Procs
<1>r. "listener" \in Readers /\ \A r \in Readers : r # "listener" => r = "app"
  BY DEF Readers
<1>1. CASE Listen
  <2>1. /\ notices = 1 /\ notices' = 0 /\ reader["listener"] = "idle"
        /\ owner.who = "setter" => marker
    BY <1>1 DEF Listen, Calm, Announced
  <2>2. UNCHANGED <<handler, step, owner, incr>>
    BY <1>1 DEF Listen, requestVars, processVars
  <2>3. handler # "posted" /\ \A s \in Setters : ~Waiting(s)
    BY <2>1 DEF Calm, Alone
  <2>4. \/ UNCHANGED <<reader, got, events>>
        \/ /\ owner.who # "setter" /\ events' = events
           /\ reader'["listener"] \in {"idle", "typed"}
           /\ \A c \in got'["listener"] : c \in got["listener"] \/ c.who = "user"
    <3>1. CASE marker /\ UNCHANGED <<reader, got, events>>
      BY <3>1
    <3>2. CASE ~marker /\ Ask("listener", "types")
      BY <1>r, <2>1, <3>2, Asked
    <3> QED
      BY <1>1, <3>1, <3>2 DEF Listen
  <2>5. Alone' /\ Announced'
    BY <2>1, <2>2, <2>3 DEF Alone, Announced, Waiting
  <2>6. Unasked' /\ OnlyCopies'
    BY <1>p, <2>1, <2>2, <2>4 DEF Calm, Unasked, OnlyCopies
  <2> QED
    BY <2>5, <2>6 DEF Calm
<1>2. CASE ReadData("listener")
  <2>1. /\ Ask("listener", "data") /\ reader["listener"] = "typed"
        /\ UNCHANGED <<handler, step, owner, incr, marker, notices>>
    BY <1>2 DEF ReadData, requestVars, processVars
  <2>2. /\ owner.who # "setter" /\ notices = 0
        /\ handler # "posted" /\ \A s \in Setters : ~Waiting(s)
    BY <2>1 DEF Calm, Alone, Announced, Unasked
  <2>3. /\ events' = events /\ reader'["listener"] \in {"idle", "typed"}
        /\ \A c \in got'["listener"] : c \in got["listener"] \/ c.who = "user"
    BY <1>r, <2>1, <2>2, Asked
  <2>4. Alone' /\ Announced'
    BY <2>1, <2>2 DEF Calm, Alone, Announced, Waiting
  <2>5. Unasked' /\ OnlyCopies'
    BY <1>p, <2>1, <2>2, <2>3 DEF Calm, Unasked, OnlyCopies
  <2> QED
    BY <2>4, <2>5 DEF Calm
<1>3. CASE ReadData("app")
  <2>1. /\ Ask("app", "data")
        /\ UNCHANGED <<handler, step, owner, incr, marker, notices>>
    BY <1>3 DEF ReadData, requestVars, processVars
  <2>2. /\ \A s \in Setters : \A e \in Elements(events'[s]) :
              e \in Elements(events[s]) \/ e = [kind |-> "data", reader |-> "app"]
        /\ reader'["listener"] = reader["listener"] /\ got'["listener"] = got["listener"]
    BY <2>1, Asked DEF Readers
  <2>3. Alone' /\ Announced'
    BY <2>1, <2>2 DEF Calm, Alone, Announced, Waiting
  <2>4. Unasked' /\ OnlyCopies'
    BY <1>p, <2>1, <2>2 DEF Calm, Unasked, OnlyCopies
  <2> QED
    BY <2>3, <2>4 DEF Calm
<1> QED
  BY <1>1, <1>2, <1>3, <1>r

\* Nor does a run: it creates the marker file before it takes the selection.
LEMMA RunsKeepCalm ==
  ASSUME TypeOK, Calm, NotBegun, Ownership, UNCHANGED setup,
         EndRequest \/ \E s \in Setters : SetterStep(s)
  PROVE  Calm'
<1>p. Procs' = Procs
  BY DEF Procs
<1>t. step \in [Setters -> {"new", "start", "open", "own", "serve", "done"}]
  BY DEF TypeOK
<1>1. CASE EndRequest
  <2>1. /\ handler = "posted" /\ handler' = "idle"
        /\ UNCHANGED <<incr, events, owner, marker, notices, reader, got>>
    BY <1>1, RequestEnded DEF processVars, desktopVars
  <2>2. \A s \in Setters : ~Waiting(s)
    BY <2>1 DEF Calm, Alone
  <2>3. /\ notices = 0 /\ reader["listener"] = "idle"
    BY <2>1 DEF Calm, Alone
  <2>4. Alone' /\ Announced'
    <3>1. CASE step' = step
      BY <2>1, <2>2, <2>3, <3>1 DEF Alone, Announced, Waiting
    <3>2. CASE /\ setters + 1 \in Setters /\ step[setters + 1] = "new"
               /\ step' = [step EXCEPT ![setters + 1] = "start"]
      <4>1. \A s \in Setters : s # setters + 1 => ~Waiting(s)'
        BY <1>t, <2>2, <3>2 DEF Waiting
      <4>2. \A s \in Setters : step'[s] \notin {"open", "own"}
        BY <1>t, <2>2, <3>2 DEF Waiting
      <4> QED
        BY <2>1, <2>3, <4>1, <4>2 DEF Alone, Announced
    <3> QED
      BY <1>1, <3>1, <3>2, RequestEnded
  <2>5. Unasked' /\ OnlyCopies'
    BY <1>p, <2>1 DEF Calm, Unasked, OnlyCopies
  <2> QED
    BY <2>4, <2>5 DEF Calm
<1>2. ASSUME NEW s \in Setters, Start(s) \/ Open(s) \/ OpenFails(s) \/ OpenCrashes(s)
      PROVE  Calm'
  <2>1. /\ UNCHANGED <<incr, events, notices, reader, got>>
        /\ handler' = handler \/ handler' = "dead"
        /\ owner' \in {owner, Nobody}
    BY <1>2 DEF Start, Open, OpenFails, OpenCrashes, requestVars, processVars, setterVars, desktopVars
  <2>2. /\ Waiting(s) /\ \A t \in Setters : Waiting(t)' => Waiting(t)
        /\ \A t \in Setters : step'[t] \in {"open", "own"} => marker'
        /\ marker => marker'
    BY <1>2, <1>t DEF Start, Open, OpenFails, OpenCrashes, desktopVars, Waiting, Calm, Announced
  <2>3. notices = 0 /\ reader["listener"] = "idle"
    BY <2>2 DEF Calm, Alone
  <2>4. Alone' /\ Announced'
    BY <2>1, <2>2, <2>3 DEF Calm, Alone, Announced
  <2>5. Unasked' /\ OnlyCopies'
    BY <1>p, <2>1, <2>3 DEF Calm, Unasked, OnlyCopies
  <2> QED
    BY <2>4, <2>5 DEF Calm
<1>3. ASSUME NEW s \in Setters, Own(s)
      PROVE  Calm'
  <2>1. /\ TakeSelection(Setter(s)) /\ UNCHANGED <<handler, incr, marker, reader, got>>
        /\ step[s] = "own" /\ step' = [step EXCEPT ![s] = "serve"]
    BY <1>3 DEF Own, requestVars
  <2>2. /\ \A t \in Setters : \A e \in Elements(events'[t]) : e \in Elements(events[t]) \/ e.reader = "none"
        /\ notices' \in {notices, notices + 1}
    BY <2>1, SelectionTaken
  <2>3. /\ notices = 0 /\ reader["listener"] = "idle" /\ marker /\ handler # "posted"
        /\ \A t \in Setters : Waiting(t) => t = s
    BY <2>1 DEF Calm, Alone, Announced, Waiting
  <2>4. \A t \in Setters : ~Waiting(t)'
    BY <1>t, <2>1, <2>3 DEF Waiting
  <2>5. Alone'
    BY <2>1, <2>3, <2>4 DEF Alone
  <2>6. Announced'
    BY <2>1, <2>2, <2>3 DEF Announced
  <2>7. Unasked' /\ OnlyCopies'
    BY <1>p, <2>1, <2>2, <2>3 DEF Calm, Unasked, OnlyCopies
  <2> QED
    BY <2>5, <2>6, <2>7 DEF Calm
<1>4. ASSUME NEW s \in Setters, Serve(s)
      PROVE  Calm'
  <2>1. /\ Head(events[s]) \in Elements(events[s])
        /\ \A t \in Setters \ {s} : events'[t] = events[t]
        /\ \A e \in Elements(events'[s]) : e \in Elements(events[s]) \/ e.reader = "none"
        /\ \A r \in Readers : r # Head(events[s]).reader /\ r # incr[Proc(s)]
                                => reader'[r] = reader[r] /\ got'[r] = got[r]
        /\ \A q \in Procs : incr'[q] \in {incr[q], "none", Head(events[s]).reader}
    BY <1>4, Turned DEF Serve
  <2>2. "listener" # Head(events[s]).reader /\ "listener" # incr[Proc(s)]
    BY <2>1, Situation DEF Calm, Unasked
  <2>3. reader'["listener"] = reader["listener"] /\ got'["listener"] = got["listener"]
    BY <2>1, <2>2 DEF Readers
  <2>4. /\ UNCHANGED <<handler, notices, marker>>
        /\ owner' \in {owner, Nobody}
        /\ \A t \in Setters : step'[t] \in {step[t], "done"}
    BY <1>4, <1>t DEF Serve, requestVars
  <2>5. Alone' /\ Announced'
    BY <2>3, <2>4 DEF Calm, Alone, Announced, Waiting, Nobody
  <2>6. Unasked' /\ OnlyCopies'
    BY <1>p, <2>1, <2>2, <2>3, <2>4 DEF Calm, Unasked, OnlyCopies, Nobody
  <2> QED
    BY <2>5, <2>6 DEF Calm
<1> QED
  BY <1>1, <1>2, <1>3, <1>4 DEF SetterStep

-----------------------------------------------------------------------------
(* Theorems *)

\* The invariant is inductive.
LEMMA IInvAlways == Spec => []IInv
<1>1. Init => IInv
  <2> SUFFICES ASSUME Init PROVE IInv
    OBVIOUS
  <2>1. TypeOK
    <3>1. <<>> \in Seq(Event)
      BY EmptySeq
    <3>2. events \in [Setters -> Seq(Event)]
      BY <3>1 DEF Init
    <3>3. 0 \in 0 .. setup.items /\ 0 \in 0 .. setup.copies /\ 0 \in 0 .. setup.pastes /\ 0 \in 0 .. MaxSetters
      BY SetupsAssumption, BoundsAssumption DEF Init
    <3>4. /\ pend \in [Procs -> [data : 0 .. setup.items, set : BOOLEAN]]
          /\ buf \in [Setters -> 0 .. setup.items]
          /\ pos \in [Procs -> 0 .. NumChunks]
      BY <3>3 DEF Init, Nothing, NumChunks
    <3> QED
      BY <3>2, <3>3, <3>4 DEF Init, TypeOK, Event, Nobody
  <2>2. \A s \in Setters : Elements(events[s]) = {}
    BY EmptySeq DEF Init, Elements
  <2>3. NotBegun /\ Ownership /\ Untold
    BY <2>2 DEF Init, NotBegun, Ownership, Untold, Nobody, Setter, Procs
  <2>4. Calm
    BY <2>2 DEF Init, Calm, Alone, Announced, Unasked, OnlyCopies, Waiting, Readers
  <2> QED
    BY <2>1, <2>3, <2>4 DEF IInv
<1>2. IInv /\ [Next]_vars => IInv'
  <2> SUFFICES ASSUME IInv, [Next]_vars PROVE IInv'
    OBVIOUS
  <2>1. TypeOK'
    BY TypeStep DEF IInv
  <2>2. CASE UNCHANGED vars
    BY <2>1, <2>2 DEF IInv, NotBegun, Ownership, Untold, Calm, Alone, Announced, Unasked, OnlyCopies,
       Waiting, Procs, vars, requestVars, processVars, setterVars, desktopVars
  <2>3. CASE Next
    <3>1. NotBegun' /\ Ownership' /\ Untold'
      BY <2>3, Kept, ToldOnLoss DEF IInv
    <3>2. ASSUME ~hurried' PROVE Calm'
      <4>1. CASE UserStep
        BY <2>3, <3>2, <4>1, UserKeepsCalm DEF IInv, Next
      <4>2. CASE ~UserStep
        <5>1. ~hurried /\ UNCHANGED setup
          BY <2>3, <3>2, <4>2 DEF Next
        <5> QED
          BY <2>3, <4>2, <5>1, ReadersKeepCalm, RunsKeepCalm DEF IInv, Next
      <4> QED
        BY <4>1, <4>2
    <3> QED
      BY <2>1, <3>1, <3>2 DEF IInv
  <2> QED
    BY <2>2, <2>3
<1> QED
  BY <1>1, <1>2, PTL DEF Spec

\* What was received is never sent to other machines, as long as the user does one
\* thing at a time: whenever the listener looks, the marker file is there or the
\* owner of the selection is another program (Start before Own, Listen).
THEOREM ReceivedIsNotSent == Spec => []ClipboardInv
<1>1. IInv => ClipboardInv
  BY DEF IInv, Calm, OnlyCopies, ClipboardInv, NoEcho
<1> QED
  BY <1>1, IInvAlways, PTL

\* What commands leave on the clipboard stays there until another program or another
\* command replaces it, whatever is pasted and however the runs overlap (Leaves).
THEOREM CommandsKeep == Spec => CommandsKeepClipboard
<1>1. IInv /\ [Next]_vars => (~setup.web /\ owner.who # "nobody" => owner'.who # "nobody")
  <2> SUFFICES ASSUME IInv, [Next]_vars, ~setup.web, owner.who # "nobody"
               PROVE  owner'.who # "nobody"
    OBVIOUS
  <2>1. CASE owner' = owner
    BY <2>1
  <2>2. CASE Copy
    BY <2>2 DEF Copy, TakeSelection, User
  <2>3. ASSUME NEW s \in Setters, Own(s)
        PROVE  owner'.who # "nobody"
    BY <2>3 DEF Own, TakeSelection, Setter
  <2>4. ASSUME NEW s \in Setters, OpenCrashes(s)
        PROVE  owner' = owner
    <3>1. owner.who = "setter" => owner.id \in Setters /\ owner.id # s
      BY <2>4 DEF IInv, Ownership, OpenCrashes
    <3> QED
      BY <2>4, <3>1 DEF OpenCrashes, Proc
  <2>5. ASSUME NEW s \in Setters, Serve(s)
        PROVE  owner' = owner
    <3>1. CASE owner = Setter(s)
      <4>1. /\ ~clear[s] /\ \A e \in Elements(events[s]) : e.kind # "clear"
        BY <3>1 DEF IInv, Untold
      <4>2. Head(events[s]) \in Elements(events[s])
        BY <2>5, Turned DEF Serve, IInv
      <4>3. s \in Procs /\ Proc(s) = s /\ clear \in [Procs -> BOOLEAN]
        BY DEF IInv, TypeOK, Procs, Proc
      <4>4. clear' = [clear EXCEPT ![s] = @ \/ Head(events[s]).kind = "clear"]
        BY <2>5, <4>3 DEF Serve
      <4>5. ~clear'[s]
        BY <4>1, <4>2, <4>3, <4>4
      <4> QED
        BY <2>5, <4>3, <4>5 DEF Serve, Leaves
    <3>2. CASE owner # Setter(s)
      BY <2>5, <3>2 DEF Serve
    <3> QED
      BY <3>1, <3>2
  <2>6. owner' = owner \/ Copy \/ \E s \in Setters : Own(s) \/ OpenCrashes(s) \/ Serve(s)
    BY DEF vars, Next, UserStep, SetterStep, Paste, OtherPost, Receive, EndRequest, Listen, ReadData,
       Start, Open, OpenFails, desktopVars
  <2> QED
    BY <2>1, <2>2, <2>3, <2>4, <2>5, <2>6
<1> QED
  BY <1>1, IInvAlways, PTL DEF Spec, CommandsKeepClipboard
=============================================================================
