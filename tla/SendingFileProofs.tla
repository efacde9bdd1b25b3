------------------------- MODULE SendingFileProofs --------------------------
(***************************************************************************)
(* For every buffer size, limit and set of file sizes: a transfer that     *)
(* ended with success has sent what it announced, and exactly that if the  *)
(* file did not change.                                                    *)
(***************************************************************************)
EXTENDS SendingFile, TLAPS

\* What the loops keep: bytes read are on the stream or in the buffer, and
\* outside of write_sock the rest to send is what was announced and not sent.
Accounting ==
    /\ pos = sent + chunk
    /\ pc \in {"open", "announce"} => pos = 0 /\ sent = 0
    /\ pc = "announce" => file_size \in Sizes
    /\ pc \in {"read", "write", "sent"} => announced \in Sizes
    /\ pc \in {"read", "sent"} => file_size = announced - sent
    /\ pc \in {"announce", "read", "sent"} => chunk = 0
    /\ pc = "sent" => file_size <= 0
    /\ pc = "write" => chunk > 0
    /\ announced >= 0 => pos <= announced + FILE_BUF_SZ - 1
    /\ announced = -1 => pos = 0
    /\ pc = "read" => file_size > 0

Inductive == TypeOK /\ Accounting

USE SizesAssumption, LimitsAssumption

LEMMA InductiveInit == Init => Inductive
<1>1. Init => {changed, broken} \subseteq BOOLEAN
  BY DEF Init
<1> QED
  BY <1>1 DEF Init, Inductive, TypeOK, Accounting

LEMMA InductiveStep == Inductive /\ [Next]_vars => Inductive'
<1> SUFFICES ASSUME Inductive, [Next]_vars PROVE Inductive'
  OBVIOUS
<1> USE DEF Inductive, TypeOK, Accounting
<1>1. CASE Open
  BY <1>1 DEF Open
<1>2. CASE Announce
  BY <1>2 DEF Announce
<1>3. CASE Read
  <2>1. size - pos \in Nat /\ size - pos > 0
    BY <1>3 DEF Read
  <2>2. ReadSize(size - pos) \in 1 .. FILE_BUF_SZ
    BY <2>1 DEF ReadSize
  <2>3. PICK n \in 1 .. FILE_BUF_SZ : chunk' = n
    BY <1>3, <2>2 DEF Read
  <2> QED
    BY <1>3, <2>3 DEF Read
<1>4. CASE ReadNothing
  BY <1>4 DEF ReadNothing, vars
<1>5. ASSUME NEW n \in 1 .. chunk, Send(n) PROVE Inductive'
  <2>1. sent' \in Nat /\ chunk' \in 0 .. FILE_BUF_SZ /\ pos' = sent' + chunk' /\ cnt' \in 0 .. Tries + 1
    BY <1>5 DEF Send, Progress
  <2>2. CASE n = chunk
    BY <1>5, <2>1, <2>2 DEF Send, MoreToRead
  <2>3. CASE n < chunk
    BY <1>5, <2>1, <2>3 DEF Send
  <2> QED
    BY <2>2, <2>3
<1>6. CASE SendTimesOut
  BY <1>6 DEF SendTimesOut
<1>7. CASE Change
  BY <1>7 DEF Change
<1>8. CASE ReadBreaks
  BY <1>8 DEF ReadBreaks
<1>9. CASE Terminated \/ UNCHANGED vars
  BY <1>9 DEF Terminated, vars
<1> QED
  BY <1>1, <1>2, <1>3, <1>4, <1>5, <1>6, <1>7, <1>8, <1>9 DEF Next, Loop

LEMMA InductiveAlways == Spec => []Inductive
  BY InductiveInit, InductiveStep, PTL DEF Spec

\* Counters and sizes stay in their ranges, the counter of idle turns too.
THEOREM TypeCorrect == Spec => []TypeOK
<1>1. Inductive => TypeOK
  BY DEF Inductive
<1> QED
  BY <1>1, InductiveAlways, PTL

\* Success means that at least the announced bytes are on the stream, even if
\* another program changes the file at any time.
THEOREM NeverShortAlways == Spec => []NeverShort
<1>1. Inductive => NeverShort
  BY DEF Inductive, TypeOK, Accounting, NeverShort
<1> QED
  BY <1>1, InductiveAlways, PTL

\* However the file grows, less than one buffer more than announced is sent.
THEOREM ExcessBounded == Spec => []ExcessIsBounded
<1>1. Inductive => ExcessIsBounded
  BY DEF Inductive, TypeOK, Accounting, ExcessIsBounded
<1> QED
  BY <1>1, InductiveAlways, PTL

-----------------------------------------------------------------------------
\* As long as the file does not change, the size announced is that of the file, and
\* nothing beyond its end is read.
Unchanged ==
    ~changed => /\ pc = "announce" => file_size = size
                /\ pc \in {"read", "write", "sent"} => announced = size
                /\ pos <= size

\* A file that does not change is sent as announced, byte for byte.
THEOREM SentIsAnnouncedAlways == Spec => []SentIsAnnounced
<1>1. Init => Unchanged
  BY DEF Init, Unchanged
<1>2. Inductive /\ Unchanged /\ [Next]_vars => Unchanged'
  <2> SUFFICES ASSUME Inductive, Unchanged, [Next]_vars PROVE Unchanged'
    OBVIOUS
  <2> USE DEF Inductive, TypeOK, Accounting, Unchanged
  <2>1. CASE Open
    BY <2>1 DEF Open
  <2>2. CASE Announce
    BY <2>2 DEF Announce
  <2>3. CASE Read
    <3>1. size - pos \in Nat /\ size - pos > 0
      BY <2>3 DEF Read
    <3>2. ReadSize(size - pos) \in Nat /\ ReadSize(size - pos) <= size - pos
      BY <3>1 DEF ReadSize
    <3>3. PICK n \in 1 .. ReadSize(size - pos) : chunk' = n
      BY <2>3 DEF Read
    <3>4. n \in Nat /\ n <= size - pos
      BY <3>2
    <3> QED
      BY <2>3, <3>3, <3>4 DEF Read
  <2>4. CASE ReadNothing
    BY <2>4 DEF ReadNothing, vars
  <2>5. ASSUME NEW n \in 1 .. chunk, Send(n) PROVE Unchanged'
    BY <2>5 DEF Send
  <2>6. CASE SendTimesOut
    BY <2>6 DEF SendTimesOut
  <2>7. CASE Change
    BY <2>7 DEF Change
  <2>8. CASE ReadBreaks
    BY <2>8 DEF ReadBreaks
  <2>9. CASE Terminated \/ UNCHANGED vars
    BY <2>9 DEF Terminated, vars
  <2> QED
    BY <2>1, <2>2, <2>3, <2>4, <2>5, <2>6, <2>7, <2>8, <2>9 DEF Next, Loop
<1>3. Inductive /\ Unchanged => SentIsAnnounced
  BY DEF Inductive, TypeOK, Accounting, Unchanged, SentIsAnnounced
<1> QED
  BY <1>1, <1>2, <1>3, InductiveAlways, PTL DEF Spec
=============================================================================
