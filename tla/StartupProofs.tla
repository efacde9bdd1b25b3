--------------------------- MODULE StartupProofs ----------------------------
(***************************************************************************)
(* Proofs about Startup and ClientConfig.                                  *)
(*                                                                         *)
(* The configuration: parse_conf is a recursive function over the lines,   *)
(* LineByLine shows that it exists and Sensible is what every line keeps.  *)
(* The setters are exact because of what their limits are compared with    *)
(* (CountIsExact, SizeIsExact); of the powers of two nothing is used but   *)
(* that they grow.                                                         *)
(*                                                                         *)
(* The processes: IInv is the inductive invariant.  Its core is Looked:    *)
(* once a web client has looked for the others, everyone alive who was     *)
(* there when it began has been signalled, since nobody comes back to life *)
(* and only who has not been signalled gets another number.  Moves says    *)
(* what a step does to one process, whatever the action.                   *)
(***************************************************************************)
EXTENDS Startup, FiniteSetTheorems, SequenceTheorems, WellFoundedInduction, TLAPS

-----------------------------------------------------------------------------
(* The invariant of the processes *)

\* The steps of the web client after it has sent its signals.
Waited == {"fork", "listener", "icon", "bind", "serve", "exit"}
Ahead  == Waited \cup {"sleep"}

\* What there is of a start that has not been made.
NotBegun ==
    \A n \in Starts : n > begun =>
       /\ Status(n) = "none" /\ request[n] = "none"
       /\ \A part \in Parts :
             pc[<<n, part>>] = "none" /\ visited[<<n, part>>] = {} /\ listed[<<n, part>>] = {}

\* Which kind of start is at which step, and what its parts may do.
Positions ==
    \A n \in Starts :
       /\ pc[Main(n)] \in Waited => Role(n) = "web"
       /\ pc[Main(n)] = "run" => Role(n) = "command"
       /\ pc[Main(n)] \in {"open", "scan", "sleep"} => Role(n) \in {"web", "stop"}
       /\ pc[Main(n)] \in {"read", "endless"} => Role(n) \in {"web", "command"}
       /\ pc[Main(n)] \in Ahead \cup {"open", "scan"} /\ Role(n) = "web" => Status(n) = "ok"
       /\ pc[<<n, "listener">>] \in {"none", "run", "gone"}
       /\ pc[<<n, "icon">>] \in {"none", "run", "open", "scan", "sleep", "gone"}
       /\ pc[<<n, "holder">>] \in {"none", "run", "gone"}
       /\ pc[<<n, "icon">>] \in {"open", "scan", "sleep"} => quit

\* A part is forked once.
Forked ==
    \A n \in Starts :
       /\ pc[<<n, "listener">>] # "none" => pc[Main(n)] \in {"icon", "bind", "serve", "exit", "gone"}
       /\ pc[<<n, "icon">>] # "none" => pc[Main(n)] \in {"bind", "serve", "exit", "gone"}
       /\ pc[<<n, "holder">>] # "none" => pc[Main(n)] = "gone"

\* What a start made of its file.
Understood ==
    \A n \in Starts : Status(n) # "none" => n <= begun /\ configuration[n] = Configured(File(n))

\* Whoever sends signals takes the place of the others, or was asked to stop them.
Entitled(p) ==
    \/ quit
    \/ p[2] = "main" /\ Role(p[1]) = "stop"
    \/ p[2] = "main" /\ Role(p[1]) = "web" /\ Status(p[1]) = "ok"

Visits ==
    \A p \in Procs :
       /\ p \notin visited[p] /\ p \notin listed[p]
       /\ \A q \in visited[p] \cup listed[p] : pc[q] # "none"
       /\ visited[p] # {} => Entitled(p)

\* A web client that has looked for the others, or has at least forked.
Searched(n) ==
    pc[Main(n)] \in Ahead \/ pc[<<n, "listener">>] # "none" \/ pc[<<n, "icon">>] # "none"

\* Whom it had to find it has signalled.
Looked ==
    \A n \in Starts : Searched(n) =>
       \A q \in listed[Main(n)] : Live(q) => q \in visited[Main(n)]

InstanceInv == NotBegun /\ Positions /\ Forked /\ Understood /\ Visits /\ Looked

IInv == TypeOK /\ InstanceInv

\* What a step does to one process.
Comes(q) == Begin /\ pc[q] = "none" /\ q = Main(begun + 1) /\ pc'[q] = FirstStep(way'[begun + 1][1])
Forks(q) ==
    /\ q[2] \in {"listener", "icon"} /\ pc[Main(q[1])] = q[2] /\ ~Signalled(Main(q[1]))
    /\ pc'[q] = "run" /\ pc'[Main(q[1])] = IF q[2] = "listener" THEN "icon" ELSE "bind"
Holds(q) ==
    /\ q[2] = "holder" /\ pc[Main(q[1])] = "run"
    /\ pc'[q] = "run" /\ pc'[Main(q[1])] = "gone"
Reads(q) ==
    /\ q[2] = "main" /\ ReadConf(q[1]) /\ pc[q] = "read"
    /\ \/ pc'[q] = "open" /\ Role(q[1]) = "web" /\ Outcome[File(q[1])].status = "ok"
       \/ pc'[q] = "run" /\ Role(q[1]) = "command"
       \/ pc'[q] = "endless"
Goes(q) ==
    /\ q[2] = "main"
    /\ <<pc[q], pc'[q]>> \in {<<"fork", "listener">>, <<"listener", "icon">>, <<"icon", "bind">>,
                              <<"bind", "serve">>}
Leaves(q) == Signalled(q) /\ pc[q] = "serve" /\ pc'[q] = "exit"
Asked(q)  == q[2] = "icon" /\ pc[q] = "run" /\ pc'[q] = "open" /\ quit'
Opens(q)  == pc[q] = "open" /\ pc'[q] = "scan"
Skips(q)  ==
    /\ pc[q] = "open" /\ pc'[q] = "fork" /\ q[2] = "main" /\ Role(q[1]) = "web" /\ listed'[q] = {}
Waits(q)  == pc[q] = "scan" /\ pc'[q] = "sleep" /\ Unvisited(q) = {} /\ UNCHANGED <<visited, listed>>
Resumes(q) == pc[q] = "sleep" /\ pc'[q] = "fork" /\ q[2] = "main" /\ Role(q[1]) = "web"

Moves(q) ==
    \/ pc'[q] = pc[q]
    \/ pc'[q] = "gone" /\ pc[q] # "none" /\ (pc[q] = "serve" => Signalled(q))
    \/ Comes(q) \/ Forks(q) \/ Holds(q) \/ Reads(q) \/ Goes(q) \/ Leaves(q) \/ Asked(q)
    \/ Opens(q) \/ Skips(q) \/ Waits(q) \/ Resumes(q)

Steps == {"none", "read", "endless", "open", "scan", "sleep", "fork", "listener", "icon",
          "bind", "serve", "run", "exit", "gone"}

-----------------------------------------------------------------------------
(* Numbers *)

\* A remainder is smaller than what it is a remainder of.
LEMMA Remainder == \A p \in Int, n \in Nat \ {0} : p % n \in Int /\ p % n < n
  OBVIOUS

\* Between two bounds.
LEMMA Between == \A p \in Int, n \in Nat : p > 0 /\ p < n => p \in 1 .. n - 1
  OBVIOUS

\* The numbers below n.
LEMMA Inside == \A n \in Nat \ {0} : \A x : x \in 0 .. n - 1 <=> x \in Nat /\ x < n
  OBVIOUS

\* The number before n.
LEMMA Before == \A n \in Nat \ {0} : n - 1 \in Nat /\ (n - 1) - 1 = n - 2
  OBVIOUS

\* A word read as a signed number is below the half of all words.
LEMMA Halves ==
  ASSUME NEW all \in Nat, NEW half \in Nat, half < all, NEW w \in Int, w < all
  PROVE  LET s == IF w < half THEN w ELSE w - all
         IN  s \in Int /\ s < half
  OBVIOUS

\* There are 2^k subsets of k elements, which is all that is needed here.
LEMMA PowersGrow ==
  ASSUME NEW a \in Nat, NEW b \in Nat
  PROVE  /\ 2 ^ a \in Nat \ {0}
         /\ a < b => 2 ^ a < 2 ^ b
<1> DEFINE S(n) == SUBSET (1 .. n)
<1>1. ASSUME NEW n \in Nat PROVE IsFiniteSet(S(n)) /\ Cardinality(S(n)) = 2 ^ n
  <2>1. IsFiniteSet(1 .. n) /\ Cardinality(1 .. n) = IF 1 > n THEN 0 ELSE n - 1 + 1
    <3>1. 1 \in Int /\ n \in Int
      OBVIOUS
    <3> QED
      BY <3>1, FS_Interval, Zenon
  <2>2. Cardinality(1 .. n) = n
    BY <2>1
  <2> QED
    BY <2>1, <2>2, FS_SUBSET
<1>2. 2 ^ a \in Nat \ {0}
  <2>1. S(a) # {}
    OBVIOUS
  <2> HIDE DEF S
  <2>2. Cardinality(S(a)) \in Nat /\ (Cardinality(S(a)) = 0 <=> S(a) = {})
    BY <1>1, FS_CardinalityType, FS_EmptySet
  <2> QED
    BY <1>1, <2>1, <2>2
<1>3. ASSUME a < b PROVE 2 ^ a < 2 ^ b
  <2>1. S(a) \in SUBSET S(b)
    BY <1>3
  <2>2. 1 .. b \in S(b) /\ 1 .. b \notin S(a)
    BY <1>3
  <2>3. S(a) # S(b)
    BY <2>2
  <2> HIDE DEF S
  <2>4. Cardinality(S(a)) <= Cardinality(S(b)) /\ Cardinality(S(a)) # Cardinality(S(b))
    BY <1>1, <2>1, <2>3, FS_Subset
  <2> QED
    BY <1>1, <2>4
<1> QED
  BY <1>2, <1>3

\* The widths of the C types, by their numbers of values.
LEMMA Widths ==
  /\ 2 ^ Short \in Nat \ {0} /\ 2 ^ Half \in Nat \ {0} /\ 2 ^ (Word - 3) \in Nat \ {0}
  /\ 2 ^ (Word - 1) \in Nat \ {0} /\ 2 ^ Word \in Nat \ {0}
  /\ 2 ^ Half < 2 ^ (Word - 3) /\ 2 ^ (Word - 3) < 2 ^ (Word - 1)
  /\ 2 ^ (Word - 1) < 2 ^ Word
<1>1. /\ Short \in Nat /\ Half \in Nat /\ Word \in Nat /\ Word - 1 \in Nat /\ Word - 3 \in Nat
      /\ Half < Word - 3 /\ Word - 3 < Word - 1 /\ Word - 1 < Word
  BY WidthsAssumption
<1> QED
  BY <1>1, PowersGrow

-----------------------------------------------------------------------------
(* Reading a configuration *)

\* What each option may have become after some lines.
Sensible(cfg) ==
    /\ {"status", "option", "servers"} \subseteq DOMAIN cfg
    /\ DOMAIN cfg.option = Options
    /\ cfg.status \in {"ok", "error", "endless"}
    /\ \A o \in Ports \cup Versions : cfg.option[o] \in 0 .. 2 ^ Short - 1
    /\ \A o \in Counts   : cfg.option[o] \in 0 .. 2 ^ Half - 2
    /\ \A o \in Sizes    : cfg.option[o] \in 0 .. 2 ^ (Word - 1) - 1
    /\ \A o \in Booleans : cfg.option[o] \in {-1, 0, 1}

\* What is stored of a number fits its type.
LEMMA NumbersFit ==
  ASSUME NEW text \in Numeral
  PROVE  /\ set_uint16(text) \in {Refused} \cup 0 .. 2 ^ Short - 1
         /\ set_uint32(text) \in {Refused} \cup 1 .. 2 ^ Half - 2
         /\ set_int64(text) \in {Refused} \cup 1 .. 2 ^ (Word - 1) - 1
<1>0. text.digits \in Nat /\ text.negative \in BOOLEAN
  BY DEF Numeral
<1>1. strtoull(text) \in Int
  <2>1. \A p \in Int, n \in Nat \ {0} : p % n \in Int
    OBVIOUS
  <2>2. (2 ^ Word - text.digits) % 2 ^ Word \in Int
    BY <1>0, <2>1, Widths
  <2> QED
    BY <1>0, <2>2, Widths DEF strtoull
<1>2. ASSUME NEW w \in Int PROVE Signed(w) \in Int
  BY <1>2, Widths DEF Signed
<1>3. set_uint16(text) \in {Refused} \cup 0 .. 2 ^ Short - 1
  <2>1. text.digits < 2 ^ Short => text.digits \in 0 .. 2 ^ Short - 1
    BY <1>0, Widths
  <2> QED
    BY <2>1 DEF set_uint16
<1>4. Factor(text.suffix) \in Nat \ {0} \/ text.suffix \notin {"none", "k", "m", "g", "t"}
  <2>1. Thousand \in Nat \ {0}
    BY WidthsAssumption
  <2>2. \A a, b \in Nat \ {0} : a * b \in Nat \ {0}
    OBVIOUS
  <2>3. Thousand * Thousand \in Nat \ {0}
    BY <2>1, <2>2
  <2>4. Thousand * Thousand * Thousand \in Nat \ {0}
    BY <2>1, <2>2, <2>3
  <2>5. Thousand * Thousand * Thousand * Thousand \in Nat \ {0}
    BY <2>1, <2>2, <2>4
  <2>6. 1 \in Nat \ {0}
    OBVIOUS
  <2> QED
    BY <2>1, <2>3, <2>4, <2>5, <2>6, Zenon DEF Factor
<1> DEFINE value == Signed(strtoull(text))
           factor == Factor(text.suffix)
<1>7. value \in Int
  BY <1>1, <1>2
<1>8. factor \in Nat \/ text.suffix \notin {"none", "k", "m", "g", "t"}
  BY <1>4
<1> HIDE DEF value, factor
<1>9. \A v \in Int, f \in Nat : v * f \in Int
  OBVIOUS
<1>5. set_uint32(text) \in {Refused} \cup 1 .. 2 ^ Half - 2
  <2> SUFFICES ASSUME text.suffix \in {"none", "k", "m", "g"}, value * factor > 0, value * factor < 2 ^ Half - 1
               PROVE  value * factor \in 1 .. 2 ^ Half - 2
    BY DEF set_uint32, WellFormed, value, factor
  <2> DEFINE product == value * factor
  <2>1. product \in Int
    BY <1>7, <1>8, <1>9
  <2> HIDE DEF product
  <2>2. product \in 1 .. 2 ^ Half - 2
    <3>1. product > 0 /\ product < 2 ^ Half - 1
      BY DEF product
    <3>2. 2 ^ Half - 1 \in Nat /\ (2 ^ Half - 1) - 1 = 2 ^ Half - 2
      BY Widths, Before, Zenon
    <3>3. product \in 1 .. (2 ^ Half - 1) - 1
      BY <2>1, <3>1, <3>2, Between
    <3> QED
      BY <3>2, <3>3
  <2> QED
    BY <2>2 DEF product
<1>6. set_int64(text) \in {Refused} \cup 1 .. 2 ^ (Word - 1) - 1
  <2> DEFINE word == (value * factor) % 2 ^ Word
  <2> SUFFICES ASSUME text.suffix \in {"none", "k", "m", "g", "t"}, Signed(word) > 0
               PROVE  Signed(word) \in 1 .. 2 ^ (Word - 1) - 1
    BY DEF set_int64, WellFormed, value, factor
  <2>1. value * factor \in Int
    BY <1>7, <1>8, <1>9
  <2>2. word \in Int /\ word < 2 ^ Word
    <3>1. \A p \in Int : p % 2 ^ Word \in Int /\ p % 2 ^ Word < 2 ^ Word
      BY Remainder, Widths, Zenon
    <3> QED
      BY <2>1, <3>1, Zenon
  <2> HIDE DEF word
  <2>3. Signed(word) \in Int /\ Signed(word) < 2 ^ (Word - 1)
    <3>2. 2 ^ Word \in Nat /\ 2 ^ (Word - 1) \in Nat /\ 2 ^ (Word - 1) < 2 ^ Word
      BY Widths
    <3> QED
      BY <2>2, <3>2, Halves DEF Signed
  <2> QED
    BY <2>3, Between, Widths
<1> QED
  BY <1>3, <1>5, <1>6

\* Before the first line.
LEMMA UnsetIsSensible == Sensible(Unset)
<1>1. \A o \in Options : o \notin Booleans => Unset.option[o] = 0
  BY DEF Unset
<1>2. \A o \in Booleans : Unset.option[o] = -1
  BY DEF Unset, Options
<1>3. (Ports \cup Versions \cup Counts \cup Sizes) \cap Booleans = {}
  BY DEF Ports, Versions, Counts, Sizes, Booleans
<1>4. Ports \cup Versions \cup Counts \cup Sizes \subseteq Options
  BY DEF Options
<1>5. 0 \in 0 .. 2 ^ Short - 1 /\ 0 \in 0 .. 2 ^ Half - 2 /\ 0 \in 0 .. 2 ^ (Word - 1) - 1
  <2>1. 2 ^ 0 < 2 ^ Half
    BY PowersGrow, WidthsAssumption
  <2>2. 2 ^ 0 \in Nat \ {0}
    BY PowersGrow
  <2> QED
    BY <2>1, <2>2, Widths
<1>6. DOMAIN Unset = {"status", "option", "servers"} /\ Unset.status = "ok" /\ DOMAIN Unset.option = Options
  BY DEF Unset
<1> QED
  BY <1>1, <1>2, <1>3, <1>4, <1>5, <1>6 DEF Sensible

\* Storing a value that fits keeps the options sensible.
LEMMA PutIsSensible ==
  ASSUME NEW cfg, Sensible(cfg), NEW key \in Options, NEW value,
         key \in Ports \cup Versions => value \in {Refused} \cup 0 .. 2 ^ Short - 1,
         key \in Counts   => value \in {Refused} \cup 1 .. 2 ^ Half - 2,
         key \in Sizes    => value \in {Refused} \cup 1 .. 2 ^ (Word - 1) - 1,
         key \in Booleans => value \in {Refused, 0, 1}
  PROVE  Sensible(Put(cfg, key, value))
<1>1. CASE value = Refused
  <2> DEFINE new == [cfg EXCEPT !.status = "error"]
  <2>1. DOMAIN new = DOMAIN cfg /\ new.option = cfg.option /\ new.status = "error"
    BY DEF Sensible
  <2>2. Put(cfg, key, value) = new
    BY <1>1 DEF Put
  <2> QED
    BY <2>1, <2>2 DEF Sensible
<1>2. CASE value # Refused
  <2> DEFINE new == [cfg EXCEPT !.option[key] = value]
  <2>1. DOMAIN new = DOMAIN cfg /\ new.status = cfg.status
    BY DEF Sensible
  <2>2. /\ DOMAIN new.option = Options /\ new.option[key] = value
        /\ \A o \in Options : o # key => new.option[o] = cfg.option[o]
    BY DEF Sensible
  <2>3. Put(cfg, key, value) = new
    BY <1>2 DEF Put
  <2>4. Ports \cup Versions \cup Counts \cup Sizes \cup Booleans \subseteq Options
    BY DEF Options
  <2> HIDE DEF new
  <2>5. \A o \in Ports \cup Versions : new.option[o] \in 0 .. 2 ^ Short - 1
    BY <1>2, <2>2, <2>4 DEF Sensible
  <2>6. \A o \in Counts : new.option[o] \in 0 .. 2 ^ Half - 2
    BY <1>2, <2>2, <2>4, Widths DEF Sensible
  <2>7. \A o \in Sizes : new.option[o] \in 0 .. 2 ^ (Word - 1) - 1
    BY <1>2, <2>2, <2>4, Widths DEF Sensible
  <2>8. \A o \in Booleans : new.option[o] \in {-1, 0, 1}
    BY <1>2, <2>2, <2>4 DEF Sensible
  <2>9. Sensible(new)
    BY <2>1, <2>2, <2>5, <2>6, <2>7, <2>8 DEF Sensible
  <2> QED
    BY <2>3, <2>9
<1> QED
  BY <1>1, <1>2

\* So does a list of servers.
LEMMA PutServersIsSensible ==
  ASSUME NEW cfg, Sensible(cfg), NEW key \in Lists, NEW entries
  PROVE  Sensible(PutServers(cfg, key, entries))
<1>1. get_server_list(entries) \in {"ok", "endless", "error"}
  BY DEF get_server_list
<1>2. CASE get_server_list(entries) # "ok"
  <2> DEFINE new == [cfg EXCEPT !.status = get_server_list(entries)]
  <2>1. DOMAIN new = DOMAIN cfg /\ new.option = cfg.option /\ new.status = get_server_list(entries)
    BY DEF Sensible
  <2>2. PutServers(cfg, key, entries) = new
    BY <1>2 DEF PutServers
  <2> QED
    BY <1>1, <2>1, <2>2 DEF Sensible
<1>3. CASE get_server_list(entries) = "ok" /\ key = "trusted_servers"
  <2>1. PutServers(cfg, key, entries) = Put(cfg, key, 1)
    BY <1>3 DEF PutServers
  <2>2. key \in Options /\ key \notin Ports \cup Versions \cup Counts \cup Sizes \cup Booleans
    BY <1>3 DEF Options, Lists, Ports, Versions, Counts, Sizes, Booleans
  <2> QED
    BY <2>1, <2>2, PutIsSensible
<1>4. CASE get_server_list(entries) = "ok" /\ key # "trusted_servers"
  <2> DEFINE new == [cfg EXCEPT !.servers = get_server_addresses(entries)]
  <2>1. DOMAIN new = DOMAIN cfg /\ new.option = cfg.option /\ new.status = cfg.status
    BY DEF Sensible
  <2>2. PutServers(cfg, key, entries) = new
    BY <1>4 DEF PutServers
  <2> QED
    BY <2>1, <2>2 DEF Sensible
<1> QED
  BY <1>2, <1>3, <1>4

\* So does every line.
LEMMA LineIsSensible ==
  ASSUME NEW cfg, Sensible(cfg), NEW line, LegalLine(line)
  PROVE  Sensible(parse_line(cfg, line))
<1>1. CASE cfg.status # "ok" \/ line.key \in {"nothing", "comment"}
  BY <1>1 DEF parse_line
<1>2. CASE cfg.status = "ok" /\ line.key \notin {"nothing", "comment"} /\ (line.key = "none" \/ line.missing)
  <2> DEFINE new == [cfg EXCEPT !.status = "error"]
  <2>1. DOMAIN new = DOMAIN cfg /\ new.option = cfg.option /\ new.status = "error"
    BY DEF Sensible
  <2>2. parse_line(cfg, line) = new
    BY <1>2, Zenon DEF parse_line
  <2> QED
    BY <2>1, <2>2 DEF Sensible
<1>3. CASE cfg.status = "ok" /\ line.key \notin {"nothing", "comment", "none"} /\ ~line.missing
  <2>1. line.key \in Options \cup {"unknown"}
    BY <1>3 DEF LegalLine
  <2> DEFINE key == line.key
  <2>2. parse_line(cfg, line) =
           CASE key \in Ports \cup Versions -> Put(cfg, key, set_uint16(line.value))
             [] key \in Counts              -> Put(cfg, key, set_uint32(line.value))
             [] key \in Sizes               -> Put(cfg, key, set_int64(line.value))
             [] key \in Lists               -> PutServers(cfg, key, line.value)
             [] key \in Booleans \cup Paths -> Put(cfg, key, line.value)
             [] key = "unknown"             -> cfg
    BY <1>3, Zenon DEF parse_line
  <2>3. /\ key \in Ports \cup Versions \cup Counts \cup Sizes => line.value \in Numeral
        /\ key \in Booleans => line.value \in {Refused, 0, 1}
    BY <1>3 DEF LegalLine
  <2> HIDE DEF key
  <2>4. CASE key \in Ports \cup Versions
    <3>1. /\ key \notin Counts \cup Sizes \cup Lists \cup Booleans \cup Paths
          /\ key # "unknown" /\ key \in Options
      BY <2>4 DEF Options, Ports, Versions, Counts, Sizes, Booleans, Paths, Lists
    <3>2. parse_line(cfg, line) = Put(cfg, key, set_uint16(line.value))
      BY <2>2, <2>4, <3>1
    <3> QED
      BY <2>3, <2>4, <3>1, <3>2, NumbersFit, PutIsSensible
  <2>5. CASE key \in Counts
    <3>1. /\ key \notin Ports \cup Versions \cup Sizes \cup Lists \cup Booleans \cup Paths
          /\ key # "unknown" /\ key \in Options
      BY <2>5 DEF Options, Ports, Versions, Counts, Sizes, Booleans, Paths, Lists
    <3>2. parse_line(cfg, line) = Put(cfg, key, set_uint32(line.value))
      BY <2>2, <2>5, <3>1
    <3> QED
      BY <2>3, <2>5, <3>1, <3>2, NumbersFit, PutIsSensible
  <2>6. CASE key \in Sizes
    <3>1. /\ key \notin Ports \cup Versions \cup Counts \cup Lists \cup Booleans \cup Paths
          /\ key # "unknown" /\ key \in Options
      BY <2>6 DEF Options, Ports, Versions, Counts, Sizes, Booleans, Paths, Lists
    <3>2. parse_line(cfg, line) = Put(cfg, key, set_int64(line.value))
      BY <2>2, <2>6, <3>1
    <3> QED
      BY <2>3, <2>6, <3>1, <3>2, NumbersFit, PutIsSensible
  <2>7. CASE key \in Lists
    <3>1. /\ key \notin Ports \cup Versions \cup Counts \cup Sizes \cup Booleans \cup Paths
          /\ key # "unknown"
      BY <2>7 DEF Ports, Versions, Counts, Sizes, Booleans, Paths, Lists
    <3>2. parse_line(cfg, line) = PutServers(cfg, key, line.value)
      BY <2>2, <2>7, <3>1
    <3> QED
      BY <2>7, <3>2, PutServersIsSensible
  <2>8. CASE key \in Booleans \cup Paths
    <3>1. /\ key \notin Ports \cup Versions \cup Counts \cup Sizes \cup Lists
          /\ key # "unknown" /\ key \in Options
      BY <2>8 DEF Options, Ports, Versions, Counts, Sizes, Booleans, Paths, Lists
    <3>2. parse_line(cfg, line) = Put(cfg, key, line.value)
      BY <2>2, <2>8, <3>1
    <3> QED
      BY <2>3, <2>8, <3>1, <3>2, PutIsSensible
  <2>9. CASE key = "unknown"
    <3>1. key \notin Options
      BY <2>9 DEF Options, Ports, Versions, Counts, Sizes, Booleans, Paths, Lists
    <3>2. parse_line(cfg, line) = cfg
      BY <2>2, <2>9, <3>1 DEF Options
    <3> QED
      BY <3>2
  <2> QED
    BY <2>1, <2>4, <2>5, <2>6, <2>7, <2>8, <2>9 DEF key, Options
<1> QED
  BY <1>1, <1>2, <1>3

\* A set of numbers that is not empty has a least one.
LEMMA LeastNumber ==
  ASSUME NEW T \in SUBSET Nat, T # {}
  PROVE  \E x \in T : \A y \in T : x <= y
<1> DEFINE Less == {s \in Nat \X Nat : s[1] < s[2]}
<1>1. IsWellFoundedOn(Less, Nat)
  BY NatLessThanWellFounded DEF OpToRel
<1>2. PICK x \in T : \A y \in T : ~(<<y, x>> \in Less)
  <2> HIDE DEF Less
  <2> QED
    BY <1>1, WFMin
<1>3. ASSUME NEW y \in T PROVE x <= y
  <2>1. <<y, x>> \in Nat \X Nat /\ <<y, x>> \notin Less
    BY <1>2
  <2>2. ~(<<y, x>>[1] < <<y, x>>[2])
    BY <2>1
  <2> QED
    BY <2>2
<1> QED
  BY <1>3

\* Induction, for a set of numbers.
LEMMA SetInduction ==
  ASSUME NEW T, 0 \in T, \A n \in Nat : n \in T => n + 1 \in T
  PROVE  \A n \in Nat : n \in T
<1> SUFFICES ASSUME NEW m \in Nat, m \notin T PROVE FALSE
  OBVIOUS
<1> DEFINE B == {n \in Nat : n \notin T}
<1>1. PICK x \in B : \A y \in B : x <= y
  <2>1. B \in SUBSET Nat /\ B # {}
    OBVIOUS
  <2> QED
    BY <2>1, LeastNumber
<1>2. x # 0 /\ x - 1 \in Nat
  BY <1>1
<1>3. x - 1 \in T
  BY <1>1, <1>2
<1>4. x \in T
  BY <1>2, <1>3
<1> QED
  BY <1>1, <1>4

\* What is made of a file is made of it line by line.
LEMMA LineByLine ==
  ASSUME NEW file, Len(file) \in Nat
  PROVE  \E after : /\ after = [n \in 0 .. Len(file) |->
                                  IF n = 0 THEN Unset ELSE parse_line(after[n - 1], file[n])]
                    /\ parse_conf(file) = after[Len(file)]
<1> DEFINE Upto(n) == \E g : g = [k \in 0 .. n |-> IF k = 0 THEN Unset ELSE parse_line(g[k - 1], file[k])]
           T == {n \in Nat : Upto(n)}
<1>1. 0 \in T
  <2>1. [k \in 0 .. 0 |-> Unset] = [k \in 0 .. 0 |-> IF k = 0 THEN Unset ELSE parse_line([j \in 0 .. 0 |-> Unset][k - 1], file[k])]
    OBVIOUS
  <2> QED
    BY <2>1
<1>2. ASSUME NEW n \in Nat, n \in T PROVE n + 1 \in T
  <2>1. PICK g : g = [k \in 0 .. n |-> IF k = 0 THEN Unset ELSE parse_line(g[k - 1], file[k])]
    BY <1>2
  <2> DEFINE h == [k \in 0 .. n + 1 |-> IF k <= n THEN g[k] ELSE parse_line(g[n], file[n + 1])]
  <2>2. ASSUME NEW k \in 0 .. n + 1
        PROVE  h[k] = IF k = 0 THEN Unset ELSE parse_line(h[k - 1], file[k])
    <3>1. CASE k = 0
      BY <2>1, <3>1
    <3>2. CASE k \in 1 .. n
      <4>1. h[k] = g[k] /\ h[k - 1] = g[k - 1]
        BY <3>2
      <4>2. k \in 0 .. n /\ k # 0
        BY <3>2
      <4>3. g[k] = parse_line(g[k - 1], file[k])
        BY <2>1, <4>2
      <4> QED
        BY <4>1, <4>2, <4>3
    <3>3. CASE k = n + 1
      <4>1. h[k] = parse_line(g[n], file[n + 1]) /\ h[k - 1] = g[n] /\ k # 0
        BY <3>3
      <4> QED
        BY <3>3, <4>1
    <3> QED
      BY <3>1, <3>2, <3>3
  <2>3. h = [k \in 0 .. n + 1 |-> h[k]]
    OBVIOUS
  <2> HIDE DEF h
  <2>4. h = [k \in 0 .. n + 1 |-> IF k = 0 THEN Unset ELSE parse_line(h[k - 1], file[k])]
    BY <2>2, <2>3
  <2>5. Upto(n + 1) /\ n + 1 \in Nat
    BY <2>4
  <2> HIDE DEF Upto
  <2> QED
    BY <2>5
<1> HIDE DEF T
<1>3. Len(file) \in T
  BY <1>1, <1>2, SetInduction
<1>4. Upto(Len(file))
  BY <1>3 DEF T
<1> QED
  BY <1>4 DEF parse_conf

\* So does a whole file.
LEMMA FileIsSensible ==
  ASSUME NEW file, Len(file) \in Nat, \A i \in 1 .. Len(file) : LegalLine(file[i])
  PROVE  Sensible(parse_conf(file))
<1>1. PICK after : /\ after = [n \in 0 .. Len(file) |->
                                  IF n = 0 THEN Unset ELSE parse_line(after[n - 1], file[n])]
                   /\ parse_conf(file) = after[Len(file)]
  BY LineByLine
<1> DEFINE T == {n \in Nat : n <= Len(file) => Sensible(after[n])}
<1>2. 0 \in T
  <2>1. after[0] = Unset
    BY <1>1
  <2> QED
    BY <2>1, UnsetIsSensible
<1>3. ASSUME NEW n \in Nat, n \in T PROVE n + 1 \in T
  <2> SUFFICES ASSUME n + 1 <= Len(file) PROVE Sensible(after[n + 1])
    OBVIOUS
  <2>1. n + 1 \in 0 .. Len(file) /\ n + 1 # 0 /\ (n + 1) - 1 = n /\ n + 1 \in 1 .. Len(file)
    OBVIOUS
  <2>2. after[n + 1] = parse_line(after[n], file[n + 1])
    BY <1>1, <2>1
  <2>3. Sensible(after[n])
    BY <1>3
  <2> QED
    BY <2>1, <2>2, <2>3, LineIsSensible
<1> HIDE DEF T
<1>4. Len(file) \in T
  BY <1>2, <1>3, SetInduction
<1> QED
  BY <1>1, <1>4 DEF T

\* The range of versions is within that of the build, and not empty.
LEMMA ClampedRange ==
  ASSUME NEW min \in Nat, NEW max \in Nat
  PROVE  LET range == Clamped(min, max)
         IN  /\ range[1] \in Nat /\ range[2] \in Nat
             /\ PROTOCOL_MIN <= range[1] /\ range[1] <= range[2] /\ range[2] <= PROTOCOL_MAX
  BY VersionsAssumption DEF Clamped

\* What the program goes on with fits the types of the options.
LEMMA ConfiguredFits ==
  ASSUME NEW file, Len(file) \in Nat, \A i \in 1 .. Len(file) : LegalLine(file[i])
  PROVE  LET cfg == Configured(file)
         IN  /\ cfg.status \in {"ok", "error", "endless"}
             /\ cfg.status = "ok" =>
                   /\ Typed(cfg)
                   /\ PROTOCOL_MIN <= cfg.option["min_proto_version"]
                   /\ cfg.option["min_proto_version"] <= cfg.option["max_proto_version"]
                   /\ cfg.option["max_proto_version"] <= PROTOCOL_MAX
<1> DEFINE cfg == parse_conf(file)
           new == apply_default_conf(cfg)
           range == Clamped(cfg.option["min_proto_version"], cfg.option["max_proto_version"])
<1>1. Sensible(cfg)
  BY FileIsSensible
<1>2. CASE cfg.status # "ok"
  <2>1. Configured(file) = cfg
    BY <1>2 DEF Configured
  <2> QED
    BY <1>1, <1>2, <2>1 DEF Sensible
<1>3. CASE cfg.status = "ok"
  <2>1. Configured(file) = Checked(new)
    BY <1>3 DEF Configured
  <2>2. /\ {"status", "option", "servers"} \subseteq DOMAIN new
        /\ new.status = "ok"
        /\ new.option = [o \in Options |->
            CASE o = "min_proto_version" -> range[1]
              [] o = "max_proto_version" -> range[2]
              [] o \in Ports \cup Counts \cup Sizes -> IF cfg.option[o] <= 0 THEN Default[o] ELSE cfg.option[o]
              [] o \in Booleans -> IF cfg.option[o] < 0 THEN Default[o] ELSE cfg.option[o]
              [] OTHER -> cfg.option[o]]
    BY <1>1, <1>3 DEF Sensible, apply_default_conf
  <2> HIDE DEF cfg, new
  <2>3. Typed(new)
    <3> DEFINE old == cfg.option
    <3>1. /\ \A o \in Ports \cup Counts \cup Sizes :
                new.option[o] = IF old[o] <= 0 THEN Default[o] ELSE old[o]
          /\ \A o \in Booleans : new.option[o] = IF old[o] < 0 THEN Default[o] ELSE old[o]
      <4>1. /\ Ports \cup Counts \cup Sizes \cup Booleans \subseteq Options
            /\ \A o \in Ports \cup Counts \cup Sizes :
                  o \notin {"min_proto_version", "max_proto_version"} /\ o \notin Booleans
            /\ \A o \in Booleans : o \notin {"min_proto_version", "max_proto_version"}
        BY DEF Options, Ports, Counts, Sizes, Booleans
      <4> HIDE DEF range, old
      <4> QED
        BY <2>2, <4>1 DEF old
    <3>2. ASSUME NEW o \in Ports PROVE new.option[o] \in 1 .. 2 ^ Short - 1
      <4>1. old[o] \in 0 .. 2 ^ Short - 1 /\ Default[o] \in 1 .. 2 ^ Short - 1
        BY <1>1, DefaultAssumption DEF Sensible
      <4> QED
        BY <3>1, <4>1
    <3>3. ASSUME NEW o \in Counts PROVE new.option[o] \in 1 .. 2 ^ Half - 2
      <4>1. old[o] \in 0 .. 2 ^ Half - 2 /\ Default[o] \in 1 .. 2 ^ Half - 2
        BY <1>1, DefaultAssumption DEF Sensible
      <4> QED
        BY <3>1, <4>1
    <3>4. ASSUME NEW o \in Sizes PROVE new.option[o] \in 1 .. 2 ^ (Word - 1) - 1
      <4>1. old[o] \in 0 .. 2 ^ (Word - 1) - 1 /\ Default[o] \in 1 .. 2 ^ (Word - 1) - 1
        BY <1>1, DefaultAssumption DEF Sensible
      <4> QED
        BY <3>1, <4>1
    <3>5. ASSUME NEW o \in Booleans PROVE new.option[o] \in {0, 1}
      <4>1. old[o] \in {-1, 0, 1} /\ Default[o] \in {0, 1}
        BY <1>1, DefaultAssumption DEF Sensible
      <4> QED
        BY <3>1, <4>1
    <3> QED
      BY <3>2, <3>3, <3>4, <3>5 DEF Typed
  <2>4. new.option["min_proto_version"] = range[1] /\ new.option["max_proto_version"] = range[2]
    <3>1. /\ "min_proto_version" \in Options /\ "max_proto_version" \in Options
      BY DEF Options, Versions
    <3> HIDE DEF range
    <3>2. \A o \in Options : /\ o = "min_proto_version" => new.option[o] = range[1]
                             /\ o = "max_proto_version" => new.option[o] = range[2]
      <4>1. ASSUME NEW o \in Options, o = "min_proto_version" PROVE new.option[o] = range[1]
        BY <2>2, <4>1 DEF Ports, Counts, Sizes, Booleans
      <4>2. ASSUME NEW o \in Options, o = "max_proto_version" PROVE new.option[o] = range[2]
        BY <2>2, <4>2 DEF Ports, Counts, Sizes, Booleans
      <4> QED
        BY <4>1, <4>2
    <3> QED
      BY <3>1, <3>2
  <2>5. cfg.option["min_proto_version"] \in Nat /\ cfg.option["max_proto_version"] \in Nat
    <3>1. cfg.option["min_proto_version"] \in 0 .. 2 ^ Short - 1 /\ cfg.option["max_proto_version"] \in 0 .. 2 ^ Short - 1
      BY <1>1, Zenon DEF Sensible, Versions
    <3> QED
      BY <3>1, Widths, Inside, Zenon
  <2>6. /\ PROTOCOL_MIN <= new.option["min_proto_version"]
        /\ new.option["min_proto_version"] <= new.option["max_proto_version"]
        /\ new.option["max_proto_version"] <= PROTOCOL_MAX
    BY <2>4, <2>5, ClampedRange
  <2>7. \/ Checked(new) = new
        \/ Checked(new) = [new EXCEPT !.status = "error"]
    BY DEF Checked
  <2> QED
    BY <2>1, <2>2, <2>3, <2>6, <2>7
<1> QED
  BY <1>2, <1>3

-----------------------------------------------------------------------------
(* Limits *)

\* A quotient is a limit of multiples.
LEMMA Multiples ==
  ASSUME NEW v \in Nat, NEW f \in Nat \ {0}, NEW n \in Nat
  PROVE  /\ v * f \in Nat /\ v <= v * f /\ (v = 0 <=> v * f = 0)
         /\ v <= n \div f <=> v * f <= n
<1>1. n \div f \in Nat
  OBVIOUS
<1> DEFINE q == n \div f
<1>2. f * q <= n /\ n < f * (q + 1)
  OBVIOUS
<1>3. \A a, b \in Nat : a <= b => a * f <= b * f
  OBVIOUS
<1> HIDE DEF q
<1>4. v <= q => v * f <= n
  BY <1>1, <1>2, <1>3 DEF q
<1>5. ~(v <= q) => ~(v * f <= n)
  BY <1>1, <1>2, <1>3 DEF q
<1>6. v * f \in Nat /\ v <= v * f /\ (v = 0 <=> v * f = 0)
  OBVIOUS
<1> QED
  BY <1>4, <1>5, <1>6 DEF q

\* Below the number of words nothing wraps around.
LEMMA SmallRemainder == \A x \in Nat, n \in Nat : x < n => x % n = x
  OBVIOUS

\* What the digits are read as.
LEMMA ReadDigits ==
  ASSUME NEW text \in Numeral, ~text.negative
  PROVE  LET value == Signed(strtoull(text))
         IN  /\ value \in Int
             /\ text.digits < 2 ^ (Word - 1) => value = text.digits
             /\ text.digits >= 2 ^ (Word - 1) =>
                   value < 0 /\ 0 <= value + 2 ^ Word /\ value + 2 ^ Word >= 2 ^ (Word - 1)
                   /\ value + 2 ^ Word < 2 ^ Word
<1> DEFINE all == 2 ^ Word
           half == 2 ^ (Word - 1)
           d == text.digits
<1>1. d \in Nat /\ all \in Nat /\ half \in Nat /\ half < all
  BY Widths DEF Numeral
<1>2. strtoull(text) = IF d >= all THEN all - 1 ELSE d
  BY DEF strtoull
<1>3. \A w : Signed(w) = IF w < half THEN w ELSE w - all
  BY DEF Signed
<1> HIDE DEF all, half, d
<1>4. /\ Signed(strtoull(text)) \in Int
      /\ d < half => Signed(strtoull(text)) = d
      /\ d >= half => LET value == Signed(strtoull(text))
                      IN  value < 0 /\ 0 <= value + all /\ value + all >= half /\ value + all < all
  <2>1. CASE d >= all
    BY <1>1, <1>2, <1>3, <2>1
  <2>2. CASE d < all /\ d >= half
    BY <1>1, <1>2, <1>3, <2>2
  <2>3. CASE d < half
    BY <1>1, <1>2, <1>3, <2>3
  <2> QED
    BY <1>1, <2>1, <2>2, <2>3
<1> QED
  BY <1>4 DEF all, half, d

\* Positive factors have positive products.
LEMMA Products == 1 \in Nat \ {0} /\ \A a, b \in Nat \ {0} : a * b \in Nat \ {0}
  OBVIOUS

\* A suffix stands for a positive factor.
LEMMA FactorType ==
  ASSUME NEW suffix, suffix \in {"none", "k", "m", "g", "t"}
  PROVE  Factor(suffix) \in Nat \ {0} /\ (suffix = "none" => Factor(suffix) = 1)
<1>1. Thousand \in Nat \ {0}
  BY WidthsAssumption
<1>2. 1 \in Nat \ {0} /\ \A a, b \in Nat \ {0} : a * b \in Nat \ {0}
  BY Products
<1>3. Thousand * Thousand \in Nat \ {0}
  BY <1>1, <1>2
<1>4. Thousand * Thousand * Thousand \in Nat \ {0}
  BY <1>1, <1>2, <1>3
<1>5. Thousand * Thousand * Thousand * Thousand \in Nat \ {0}
  BY <1>1, <1>2, <1>4
<1>7. suffix = "none" => Factor(suffix) = 1
  BY DEF Factor
<1> QED
  BY <1>1, <1>3, <1>4, <1>2, <1>5, <1>7, Zenon DEF Factor

\* set_uint32 stores the exact number, or refuses it.
LEMMA CountIsExact ==
  ASSUME NEW text \in Numeral, ~text.negative, WellFormed(text, {"none", "k", "m", "g"})
  PROVE  LET exact == text.digits * Factor(text.suffix)
         IN  set_uint32(text) = IF exact \in 1 .. 2 ^ Half - 2 THEN exact ELSE Refused
<1> DEFINE limit == 2 ^ Half
           half == 2 ^ (Word - 1)
           d == text.digits
           f == Factor(text.suffix)
           value == Signed(strtoull(text))
<1>1. d \in Nat /\ f \in Nat \ {0} /\ half \in Nat /\ limit \in Nat /\ limit < half
  BY FactorType, Widths DEF Numeral, WellFormed
<1>2. value \in Int /\ (d < half => value = d) /\ (d >= half => value < 0)
  BY ReadDigits
<1>3. set_uint32(text) = IF value >= 0 /\ value <= (limit - 2) \div f
                            /\ value * f > 0 /\ value * f < limit - 1
                         THEN value * f ELSE Refused
  BY DEF set_uint32
<1>4. d * f \in Nat /\ d <= d * f
  BY <1>1, Multiples
<1>5. limit - 2 \in Nat
  BY WidthsAssumption, PowersGrow DEF limit
<1>6. d <= (limit - 2) \div f <=> d * f <= limit - 2
  BY <1>1, <1>5, Multiples
<1> HIDE DEF limit, half, d, f, value
<1>7. set_uint32(text) = IF d * f \in 1 .. limit - 2 THEN d * f ELSE Refused
  <2> DEFINE x == d * f
  <2>1. CASE d < half
    <3>1. set_uint32(text) = IF d <= (limit - 2) \div f /\ x > 0 /\ x < limit - 1 THEN x ELSE Refused
      BY <1>1, <1>2, <1>3, <2>1
    <3> HIDE DEF x
    <3>2. x \in Nat /\ (d <= (limit - 2) \div f <=> x <= limit - 2)
      BY <1>4, <1>6 DEF x
    <3> QED
      BY <1>1, <1>5, <3>1, <3>2 DEF x
  <2>2. CASE d >= half
    <3>1. set_uint32(text) = Refused
      BY <1>1, <1>2, <1>3, <2>2
    <3>2. x \in Nat /\ x > limit - 2
      BY <1>1, <1>4, <2>2
    <3> QED
      BY <1>1, <3>1, <3>2
  <2> QED
    BY <1>1, <2>1, <2>2
<1> QED
  BY <1>7 DEF limit, d, f

\* set_int64 stores the exact number, or refuses it, unless digits before a suffix are beyond int64_t.
LEMMA SizeIsExact ==
  ASSUME NEW text \in Numeral, ~text.negative, WellFormed(text, {"none", "k", "m", "g", "t"}),
         ~(text.suffix # "none" /\ text.digits >= 2 ^ (Word - 1))
  PROVE  LET exact == text.digits * Factor(text.suffix)
             top   == IF text.suffix = "none" THEN 2 ^ (Word - 1) - 1 ELSE 2 ^ (Word - 3) - 1
         IN  set_int64(text) = IF exact \in 1 .. top THEN exact ELSE Refused
<1> DEFINE all == 2 ^ Word
           half == 2 ^ (Word - 1)
           limit == 2 ^ (Word - 3)
           d == text.digits
           f == Factor(text.suffix)
           value == Signed(strtoull(text))
           product == Signed((value * f) % all)
<1>1. /\ d \in Nat /\ f \in Nat \ {0} /\ (text.suffix = "none" => f = 1)
      /\ all \in Nat \ {0} /\ half \in Nat /\ limit \in Nat \ {0} /\ half < all /\ limit < half
  BY FactorType, Widths DEF Numeral, WellFormed
<1>2. /\ value \in Int /\ (d < half => value = d)
      /\ d >= half => value < 0 /\ 0 <= value + all /\ value + all >= half /\ value + all < all
  BY ReadDigits
<1>3. set_int64(text) = IF (text.suffix = "none" \/ value <= (limit - 1) \div f) /\ product > 0
                        THEN product ELSE Refused
  BY DEF set_int64
<1>4. \A w : Signed(w) = IF w < half THEN w ELSE w - all
  BY DEF Signed
<1>5. d * f \in Nat /\ d <= d * f /\ limit - 1 \in Nat
      /\ (d <= (limit - 1) \div f <=> d * f <= limit - 1)
  BY <1>1, Multiples
<1>6. text.suffix # "none" => d < half
  BY <1>1
<1> HIDE DEF all, half, limit, d, f, value
<1> DEFINE top == IF text.suffix = "none" THEN half - 1 ELSE limit - 1
           x == d * f
<1>7. set_int64(text) = IF x \in 1 .. top THEN x ELSE Refused
  <2>1. CASE d < half /\ x < half
    <3>1. x % all = x
      BY <1>1, <1>5, <2>1, SmallRemainder
    <3>2. product = x
      BY <1>1, <1>2, <1>4, <2>1, <3>1
    <3>3. set_int64(text) = IF (text.suffix = "none" \/ d <= (limit - 1) \div f) /\ x > 0 THEN x ELSE Refused
      BY <1>2, <1>3, <2>1, <3>2
    <3> HIDE DEF x
    <3>4. x \in Nat /\ (d <= (limit - 1) \div f <=> x <= limit - 1)
      BY <1>5 DEF x
    <3> QED
      BY <1>1, <2>1, <3>3, <3>4
  <2>2. CASE d < half /\ x >= half
    <3>1. text.suffix # "none"
      BY <1>1, <2>2
    <3>2. ~(d <= (limit - 1) \div f)
      BY <1>1, <1>5, <2>2
    <3>3. set_int64(text) = Refused
      BY <1>2, <1>3, <2>2, <3>1, <3>2
    <3> QED
      BY <1>1, <1>5, <2>2, <3>1, <3>3
  <2>3. CASE d >= half
    <3>1. text.suffix = "none" /\ f = 1 /\ x = d
      BY <1>1, <1>6, <2>3
    <3>2. (value * f) % all = value + all
      <4>1. \A v \in Int, n \in Nat \ {0} : 0 <= v + n /\ v < 0 => (v * 1) % n = v + n
        OBVIOUS
      <4> QED
        BY <1>1, <1>2, <2>3, <3>1, <4>1
    <3>3. product \in Int /\ product < 0
      BY <1>1, <1>2, <1>4, <2>3, <3>2
    <3>4. set_int64(text) = Refused
      BY <1>2, <1>3, <3>3
    <3> QED
      BY <1>1, <2>3, <3>1, <3>4
  <2> QED
    BY <1>1, <1>5, <2>1, <2>2, <2>3
<1> QED
  BY <1>7 DEF half, limit, d, f

\* A file of one line: the setter decides.
LEMMA OneLine ==
  ASSUME NEW file, Len(file) = 1, NEW key \in Counts \cup Sizes, NEW value,
         ~file[1].missing, file[1].key = key,
         value = IF key \in Sizes THEN set_int64(file[1].value) ELSE set_uint32(file[1].value),
         value = Refused \/ value \in Nat \ {0}
  PROVE  /\ Configured(file).status = "ok" <=> value # Refused
         /\ value # Refused => Configured(file).option[key] = value
<1>1. PICK after : /\ after = [n \in 0 .. Len(file) |->
                                  IF n = 0 THEN Unset ELSE parse_line(after[n - 1], file[n])]
                   /\ parse_conf(file) = after[Len(file)]
  <2>1. Len(file) \in Nat
    OBVIOUS
  <2> QED
    BY <2>1, LineByLine
<1>2. parse_conf(file) = parse_line(Unset, file[1])
  <2>1. after[0] = Unset
    BY <1>1
  <2>2. after[1] = parse_line(after[0], file[1])
    BY <1>1
  <2> QED
    BY <1>1, <2>1, <2>2
<1>3. /\ key \notin {"nothing", "comment", "none"}
      /\ key \notin Ports \cup Versions \cup Lists \cup Booleans \cup Paths /\ key # "unknown"
      /\ (key \in Sizes <=> key \notin Counts) /\ key \in Options
  BY DEF Options, Ports, Versions, Counts, Sizes, Booleans, Paths, Lists
<1>4. parse_conf(file) = Put(Unset, key, value)
  <2>1. Unset.status = "ok"
    BY DEF Unset
  <2>2. parse_line(Unset, file[1]) =
           CASE key \in Ports \cup Versions -> Put(Unset, key, set_uint16(file[1].value))
             [] key \in Counts              -> Put(Unset, key, set_uint32(file[1].value))
             [] key \in Sizes               -> Put(Unset, key, set_int64(file[1].value))
             [] key \in Lists               -> PutServers(Unset, key, file[1].value)
             [] key \in Booleans \cup Paths -> Put(Unset, key, file[1].value)
             [] key = "unknown"             -> Unset
    BY <1>3, <2>1, Zenon DEF parse_line
  <2>3. CASE key \in Counts
    BY <1>2, <1>3, <2>2, <2>3
  <2>4. CASE key \in Sizes
    BY <1>2, <1>3, <2>2, <2>4
  <2> QED
    BY <2>3, <2>4
<1> DEFINE cfg == [Unset EXCEPT !.option[key] = value]
           new == apply_default_conf(cfg)
<1>5. CASE value = Refused
  <2>1. parse_conf(file) = [Unset EXCEPT !.status = "error"]
    BY <1>4, <1>5 DEF Put
  <2>2. parse_conf(file).status = "error"
    BY <2>1 DEF Unset
  <2>3. Configured(file) = parse_conf(file)
    BY <2>2 DEF Configured
  <2> QED
    BY <1>5, <2>2, <2>3
<1>6. CASE value # Refused
  <2>1. parse_conf(file) = cfg
    BY <1>4, <1>6 DEF Put
  <2>2. /\ DOMAIN cfg = {"status", "option", "servers"} /\ cfg.status = "ok"
        /\ DOMAIN cfg.option = Options /\ cfg.option[key] = value
        /\ \A o \in Options : o # key => cfg.option[o] = Unset.option[o]
    BY <1>3 DEF Unset
  <2>3. Configured(file) = Checked(new)
    BY <2>1, <2>2, Zenon DEF Configured
  <2> HIDE DEF cfg
  <2> DEFINE range == Clamped(cfg.option["min_proto_version"], cfg.option["max_proto_version"])
  <2>4. /\ new.status = "ok"
        /\ new.option = [o \in Options |->
            CASE o = "min_proto_version" -> range[1]
              [] o = "max_proto_version" -> range[2]
              [] o \in Ports \cup Counts \cup Sizes -> IF cfg.option[o] <= 0 THEN Default[o] ELSE cfg.option[o]
              [] o \in Booleans -> IF cfg.option[o] < 0 THEN Default[o] ELSE cfg.option[o]
              [] OTHER -> cfg.option[o]]
    BY <2>2 DEF apply_default_conf
  <2> HIDE DEF new, range
  <2>5. new.option[key] = value
    <3>1. key \notin {"min_proto_version", "max_proto_version"}
      BY <1>3 DEF Versions
    <3>2. new.option[key] = IF cfg.option[key] <= 0 THEN Default[key] ELSE cfg.option[key]
      BY <1>3, <2>4, <3>1
    <3> QED
      BY <1>6, <2>2, <3>2
  <2>6. new.option["secure_mode_enabled"] = 0
    <3> DEFINE o == "secure_mode_enabled"
    <3>1. o \in Options /\ o \in Booleans /\ o # key
      BY <1>3 DEF Options, Booleans
    <3>2. o \notin Ports \cup Counts \cup Sizes
      BY DEF Ports, Counts, Sizes
    <3>3. cfg.option[o] = -1
      BY <2>2, <3>1 DEF Unset
    <3>4. new.option[o] = IF cfg.option[o] < 0 THEN Default[o] ELSE cfg.option[o]
      BY <2>4, <3>1, <3>2
    <3> QED
      BY <3>3, <3>4, DefaultAssumption
  <2>7. new.option["working_dir"] = 0
    <3> DEFINE o == "working_dir"
    <3>1. o \in Options /\ o \notin Booleans /\ o # key
      BY <1>3 DEF Options, Booleans, Paths
    <3>2. o \notin Ports \cup Counts \cup Sizes
      BY DEF Ports, Counts, Sizes
    <3>3. cfg.option[o] = 0
      BY <2>2, <3>1 DEF Unset
    <3>4. new.option[o] = cfg.option[o]
      BY <2>4, <3>1, <3>2
    <3> QED
      BY <3>3, <3>4
  <2>8. Checked(new) = new
    BY <2>6, <2>7 DEF Checked
  <2> QED
    BY <1>6, <2>3, <2>4, <2>5, <2>8
<1> QED
  BY <1>5, <1>6

-----------------------------------------------------------------------------
(* What the steps do *)

\* The processes that stem from a start.
LEMMA OwnParts ==
  ASSUME NEW n \in Starts
  PROVE  /\ Main(n) \in Procs /\ <<n, "listener">> \in Procs /\ <<n, "icon">> \in Procs
         /\ <<n, "holder">> \in Procs
         /\ Main(n)[1] = n /\ Main(n)[2] = "main"
BY DEF Procs, Parts, Main

\* A process is named by its start and its part.
LEMMA PartsOf ==
  ASSUME NEW p \in Procs
  PROVE  /\ p[1] \in Starts /\ p = <<p[1], p[2]>> /\ Main(p[1]) \in Procs
         /\ p[2] \in {"main", "listener", "icon", "holder"}
         /\ p[2] = "main" => p = Main(p[1])
BY DEF Procs, Parts, Main

\* Begin adds one start behind the others.
LEMMA WayGrows ==
  ASSUME TypeOK, begun < Setups[setup].starts, NEW w \in Setups[setup].ways[begun + 1]
  PROVE  /\ begun + 1 \in Starts /\ begun + 1 <= Setups[setup].starts
         /\ Append(way, w) \in
               [1 .. begun + 1 -> UNION {Setups[setup].ways[n] : n \in 1 .. Setups[setup].starts}]
         /\ Append(way, w)[begun + 1] = w
         /\ \A n \in 1 .. begun : Append(way, w)[n] = way[n]
<1>1. begun \in Nat /\ Setups[setup].starts \in 0 .. MaxStarts /\ MaxStarts \in Nat
  BY MaxStartsAssumption, SetupsAssumption DEF TypeOK
<1> DEFINE S == UNION {Setups[setup].ways[n] : n \in 1 .. Setups[setup].starts}
<1>2. way \in Seq(S) /\ Len(way) = begun
  <2>1. way \in [1 .. begun -> S]
    BY DEF TypeOK
  <2> HIDE DEF S
  <2> QED
    BY <1>1, <2>1, SeqDef
<1>3. w \in S
  <2>1. begun + 1 \in 1 .. Setups[setup].starts
    BY <1>1
  <2> QED
    BY <2>1
<1> HIDE DEF S
<1>4. /\ Append(way, w) \in Seq(S) /\ Len(Append(way, w)) = begun + 1
      /\ Append(way, w)[begun + 1] = w
      /\ \A n \in 1 .. begun : Append(way, w)[n] = way[n]
  BY <1>1, <1>2, <1>3, AppendProperties
<1>5. Append(way, w) \in [1 .. begun + 1 -> S]
  BY <1>4, <1>1, LenProperties
<1>6. begun + 1 \in Starts /\ begun + 1 <= Setups[setup].starts
  BY <1>1 DEF Starts
<1> QED
  BY <1>4, <1>5, <1>6 DEF S

\* The file of a start is one of those to explore.
LEMMA FileIsLegal ==
  ASSUME TypeOK, NEW n \in 1 .. begun
  PROVE  /\ Len(File(n)) \in Nat /\ \A i \in 1 .. Len(File(n)) : LegalLine(File(n)[i])
         /\ Outcome[File(n)] = Configured(File(n))
<1>1. /\ way[n] \in Setups[setup].ways[n] /\ setup \in DOMAIN Setups
      /\ n \in 1 .. Setups[setup].starts
  <2>1. begun \in Nat /\ Setups[setup].starts \in Nat /\ begun <= Setups[setup].starts
    BY MaxStartsAssumption, SetupsAssumption DEF TypeOK
  <2> QED
    BY <2>1 DEF TypeOK
<1>2. way[n][2] \in Files
  BY <1>1 DEF Files
<1> QED
  BY <1>1, <1>2, SetupsAssumption DEF Outcome, File

\* What a start that reads its file comes to.
LEMMA FileIsRead ==
  ASSUME TypeOK, NotBegun, Positions, NEW n \in Starts, pc[Main(n)] = "read"
  PROVE  /\ n \in 1 .. begun /\ Role(n) \in {"web", "command"}
         /\ Outcome[File(n)] = Configured(File(n))
         /\ Outcome[File(n)].status \in {"ok", "error", "endless"}
         /\ Outcome[File(n)].status = "ok" => Typed(Outcome[File(n)])
<1>1. n \in 1 .. begun
  <2>1. n \in Nat /\ n >= 1 /\ begun \in Nat
    BY MaxStartsAssumption DEF Starts, TypeOK
  <2>2. ~(n > begun)
    BY DEF NotBegun, Main, Parts
  <2> QED
    BY <2>1, <2>2
<1>2. /\ Len(File(n)) \in Nat /\ \A i \in 1 .. Len(File(n)) : LegalLine(File(n)[i])
      /\ Outcome[File(n)] = Configured(File(n))
  BY <1>1, FileIsLegal
<1>3. Role(n) \in {"web", "command"}
  BY DEF Positions
<1> QED
  BY <1>1, <1>2, <1>3, ConfiguredFits

\* The types hold initially.
LEMMA TypeInit == Init => TypeOK
<1> SUFFICES ASSUME Init PROVE TypeOK
  OBVIOUS
<1>1. begun \in 0 .. MaxStarts /\ 1 .. begun = {}
  BY MaxStartsAssumption DEF Init
<1>2. /\ way \in [1 .. begun -> UNION {Setups[setup].ways[n] : n \in 1 .. Setups[setup].starts}]
      /\ begun <= Setups[setup].starts /\ \A n \in 1 .. begun : way[n] \in Setups[setup].ways[n]
  <2>1. Setups[setup].starts \in Nat
    BY SetupsAssumption, MaxStartsAssumption DEF Init
  <2> QED
    BY <1>1, <2>1 DEF Init
<1>3. DOMAIN configuration = Starts /\ \A n \in Starts : Status(n) = "none"
  BY DEF Init, Status
<1> QED
  BY <1>1, <1>2, <1>3 DEF Init, TypeOK

\* Where the processes may be after a step.
LEMMA StepsType ==
  ASSUME TypeOK, NotBegun, Positions, [Next]_vars
  PROVE  pc' \in [Procs -> Steps]
<1>0. pc \in [Procs -> Steps]
  BY DEF TypeOK, Steps
<1>c. /\ "open" \in Steps /\ "scan" \in Steps /\ "read" \in Steps /\ "endless" \in Steps /\ "sleep" \in Steps
      /\ "fork" \in Steps /\ "listener" \in Steps /\ "icon" \in Steps /\ "bind" \in Steps
      /\ "serve" \in Steps /\ "run" \in Steps /\ "exit" \in Steps /\ "gone" \in Steps
  BY DEF Steps
<1>1. ASSUME Begin PROVE pc' \in [Procs -> Steps]
  <2>1. begun + 1 \in Starts
    BY <1>1, WayGrows DEF Begin
  <2>2. Main(begun + 1) \in Procs
    BY <2>1, OwnParts
  <2>3. \A r : FirstStep(r) \in Steps
    BY DEF FirstStep, Steps
  <2>4. PICK w : pc' = [pc EXCEPT ![Main(begun + 1)] = FirstStep(w[1])]
    BY <1>1 DEF Begin
  <2> QED
    BY <1>0, <2>2, <2>3, <2>4
<1>2. ASSUME NEW n \in Starts, ReadConf(n) PROVE pc' \in [Procs -> Steps]
  <2>1. pc[Main(n)] = "read" /\ Main(n) \in Procs
    BY <1>2, OwnParts DEF ReadConf, To
  <2>2. PICK s : s \in {"open", "run", "gone", "endless"} /\ pc' = [pc EXCEPT ![Main(n)] = s]
    BY <1>2, <2>1, FileIsRead DEF ReadConf, To
  <2> QED
    BY <1>0, <1>c, <2>1, <2>2
<1>3. ASSUME NEW n \in Starts, EndCommand(n) PROVE pc' \in [Procs -> Steps]
  BY <1>0, <1>c, <1>3, OwnParts DEF EndCommand, To
<1>4. ASSUME NEW n \in Starts, Daemonize(n) PROVE pc' \in [Procs -> Steps]
  BY <1>0, <1>c, <1>4, OwnParts DEF Daemonize, To
<1>5. ASSUME NEW n \in Starts, ForkListener(n) PROVE pc' \in [Procs -> Steps]
  BY <1>0, <1>c, <1>5, OwnParts DEF ForkChild, ForkListener, To
<1>6. ASSUME NEW n \in Starts, ForkIcon(n) PROVE pc' \in [Procs -> Steps]
  BY <1>0, <1>c, <1>6, OwnParts DEF ForkChild, ForkIcon, To
<1>7. ASSUME NEW n \in Starts, StartWeb(n) PROVE pc' \in [Procs -> Steps]
  BY <1>0, <1>c, <1>7, OwnParts DEF StartWeb, To
<1>8. ASSUME NEW n \in Starts, BeginRequest(n) PROVE pc' \in [Procs -> Steps]
  BY <1>0, <1>c, <1>8, OwnParts DEF BeginRequest, To
<1>9. ASSUME NEW n \in Starts, EndRequest(n) PROVE pc' \in [Procs -> Steps]
  BY <1>0, <1>c, <1>9, OwnParts DEF EndRequest, To
<1>10. ASSUME NEW n \in Starts, Quit(n) PROVE pc' \in [Procs -> Steps]
  BY <1>0, <1>c, <1>10, OwnParts DEF Quit, To
<1>11. ASSUME NEW n \in Starts, ChildEnds(n) PROVE pc' \in [Procs -> Steps]
  <2>1. PICK part \in {"listener", "icon", "holder"} : pc' = [pc EXCEPT ![<<n, part>>] = "gone"]
    BY <1>11 DEF ChildEnds, To
  <2>2. <<n, part>> \in Procs
    BY OwnParts
  <2> QED
    BY <1>0, <1>c, <2>1, <2>2
<1>18. ASSUME NEW p \in Procs, OpenProc(p) PROVE pc' \in [Procs -> Steps]
  BY <1>0, <1>c, <1>18, OwnParts DEF OpenProc, AfterScan, To
<1>12. ASSUME NEW p \in Procs, KillOther(p) PROVE pc' \in [Procs -> Steps]
  BY <1>0, <1>c, <1>12, OwnParts DEF KillOther, To
<1>13. ASSUME NEW p \in Procs, ScanOver(p) PROVE pc' \in [Procs -> Steps]
  BY <1>0, <1>c, <1>13, OwnParts DEF ScanOver, To
<1>14. ASSUME NEW p \in Procs, SleepOver(p) PROVE pc' \in [Procs -> Steps]
  BY <1>0, <1>c, <1>14, OwnParts DEF SleepOver, AfterScan, To
<1>15. ASSUME NEW p \in Procs, Terminate(p) PROVE pc' \in [Procs -> Steps]
  BY <1>0, <1>c, <1>15, OwnParts DEF Terminate, To
<1>16. ASSUME NEW p \in Procs, Exit(p) PROVE pc' \in [Procs -> Steps]
  BY <1>0, <1>c, <1>16, OwnParts DEF Exit, To
<1>17. CASE UNCHANGED vars
  BY <1>0, <1>17 DEF vars
<1> QED
  BY <1>1, <1>2, <1>3, <1>4, <1>5, <1>6, <1>7, <1>8, <1>9, <1>10, <1>11, <1>12, <1>13, <1>14, <1>15,
      <1>16, <1>17, <1>18 DEF Next, UserStep, MainStep, ProcStep

\* Every step keeps the types.
LEMMA TypeStep == TypeOK /\ NotBegun /\ Positions /\ [Next]_vars => TypeOK'
<1> SUFFICES ASSUME TypeOK, NotBegun, Positions, [Next]_vars PROVE TypeOK'
  OBVIOUS
<1>1. pc' \in [Procs -> Steps]
  BY StepsType
<1> DEFINE C == /\ DOMAIN configuration = Starts
                /\ \A n \in Starts : /\ Status(n) \in {"none", "ok", "error", "endless"}
                                     /\ Status(n) = "ok" => Typed(configuration[n])
<1> DEFINE Ways == UNION {Setups[setup].ways[n] : n \in 1 .. Setups[setup].starts}
<1>2. /\ setup' \in DOMAIN Setups /\ begun' \in 0 .. MaxStarts /\ way' \in [1 .. begun' -> Ways']
      /\ begun' <= Setups[setup'].starts /\ \A n \in 1 .. begun' : way'[n] \in Setups[setup'].ways[n]
  <2>1. CASE Begin
    <3>1. PICK w \in Setups[setup].ways[begun + 1] : way' = Append(way, w)
      BY <2>1 DEF Begin
    <3>2. /\ begun + 1 \in 1 .. MaxStarts /\ begun + 1 <= Setups[setup].starts
          /\ way' \in [1 .. begun + 1 -> Ways] /\ way'[begun + 1] = w
          /\ \A n \in 1 .. begun : way'[n] = way[n]
      BY <2>1, <3>1, WayGrows DEF Begin, Starts
    <3>3. setup' = setup /\ begun' = begun + 1
      BY <2>1 DEF Begin
    <3>4. setup \in DOMAIN Setups /\ begun + 1 \in 0 .. MaxStarts
      BY <3>2 DEF TypeOK
    <3>5. ASSUME NEW n \in 1 .. begun + 1 PROVE way'[n] \in Setups[setup].ways[n]
      <4>1. CASE n = begun + 1
        BY <3>1, <3>2, <4>1
      <4>2. CASE n # begun + 1
        <5>1. n \in 1 .. begun
          BY <4>2 DEF TypeOK
        <5> QED
          BY <3>2, <5>1 DEF TypeOK
      <4> QED
        BY <4>1, <4>2
    <3> QED
      BY <3>2, <3>3, <3>4, <3>5
  <2>2. CASE ~Begin
    <3>1. setup' = setup /\ begun' = begun /\ way' = way
      BY <2>2 DEF vars, Next, UserStep, MainStep, ProcStep, Begin, ReadConf, EndCommand, Daemonize,
          ForkListener, ForkIcon, StartWeb, BeginRequest, EndRequest, Quit, ChildEnds, OpenProc,
          KillOther, ScanOver, SleepOver, Terminate, Exit, ForkChild
    <3> QED
      BY <3>1 DEF TypeOK
  <2> QED
    BY <2>1, <2>2
<1>3. C'
  <2>1. ASSUME NEW m \in Starts, ReadConf(m) PROVE C'
    <3>1. Outcome[File(m)].status \in {"ok", "error", "endless"}
          /\ (Outcome[File(m)].status = "ok" => Typed(Outcome[File(m)]))
      BY <2>1, FileIsRead DEF ReadConf, To
    <3>2. configuration' = [configuration EXCEPT ![m] = Outcome[File(m)]]
      BY <2>1 DEF ReadConf
    <3> QED
      BY <3>1, <3>2 DEF TypeOK, Status
  <2>2. CASE \A m \in Starts : ~ReadConf(m)
    <3>1. configuration' = configuration
      BY <2>2 DEF vars, Next, UserStep, MainStep, ProcStep, Begin, EndCommand, Daemonize, ForkListener,
          ForkIcon, StartWeb, BeginRequest, EndRequest, Quit, ChildEnds, KillOther, OpenProc, ScanOver,
          SleepOver, Terminate, Exit, ForkChild
    <3> QED
      BY <3>1 DEF TypeOK, Status
  <2> QED
    BY <2>1, <2>2
<1>4. visited' \in [Procs -> SUBSET Procs]
  <2>1. ASSUME NEW p \in Procs, KillOther(p) PROVE visited' \in [Procs -> SUBSET Procs]
    BY <2>1 DEF TypeOK, KillOther, Found, Others
  <2>2. CASE \A p \in Procs : ~KillOther(p)
    <3>1. visited' = visited
      BY <2>2 DEF vars, Next, UserStep, MainStep, ProcStep, Begin, ReadConf, EndCommand, Daemonize,
          ForkListener, ForkIcon, StartWeb, BeginRequest, EndRequest, Quit, ChildEnds, OpenProc, ScanOver,
          SleepOver, Terminate, Exit, ForkChild
    <3> QED
      BY <3>1 DEF TypeOK
  <2> QED
    BY <2>1, <2>2
<1>6. listed' \in [Procs -> SUBSET Procs]
  <2>1. ASSUME NEW p \in Procs, OpenProc(p) PROVE listed' \in [Procs -> SUBSET Procs]
    BY <2>1 DEF TypeOK, OpenProc, Others
  <2>2. ASSUME NEW n \in Starts, Daemonize(n) PROVE listed' \in [Procs -> SUBSET Procs]
    BY <2>2 DEF TypeOK, Daemonize
  <2>3. CASE (\A p \in Procs : ~OpenProc(p)) /\ \A n \in Starts : ~Daemonize(n)
    <3>1. listed' = listed
      BY <2>3 DEF vars, Next, UserStep, MainStep, ProcStep, Begin, ReadConf, EndCommand,
          ForkListener, ForkIcon, StartWeb, BeginRequest, EndRequest, Quit, ChildEnds, KillOther,
          ScanOver, SleepOver, Terminate, Exit, ForkChild
    <3> QED
      BY <3>1 DEF TypeOK
  <2> QED
    BY <2>1, <2>2, <2>3
<1>5. request' \in [Starts -> {"none", "busy", "done", "hung"}] /\ unserved' \subseteq Starts /\ quit' \in BOOLEAN
  <2>1. ASSUME NEW n \in Starts, EndRequest(n) PROVE request' \in [Starts -> {"none", "busy", "done", "hung"}]
    <3>1. PICK to : to \in {"done", "hung"} /\ request' = [request EXCEPT ![n] = to]
      BY <2>1 DEF EndRequest
    <3> QED
      BY <3>1 DEF TypeOK
  <2>2. CASE \A n \in Starts : ~EndRequest(n)
    BY <2>2 DEF TypeOK, vars, Next, UserStep, MainStep, ProcStep, Begin, ReadConf, EndCommand, Daemonize,
        ForkListener, ForkIcon, StartWeb, BeginRequest, Quit, ChildEnds, OpenProc, KillOther,
        ScanOver, SleepOver, Terminate, Exit, ForkChild
  <2>3. unserved' \subseteq Starts /\ quit' \in BOOLEAN
    BY DEF TypeOK, vars, Next, UserStep, MainStep, ProcStep, Begin, ReadConf, EndCommand, Daemonize,
        ForkListener, ForkIcon, StartWeb, BeginRequest, EndRequest, Quit, ChildEnds, OpenProc, KillOther,
        ScanOver, SleepOver, Terminate, Exit, ForkChild
  <2> QED
    BY <2>1, <2>2, <2>3
<1> QED
  BY <1>1, <1>2, <1>3, <1>4, <1>5, <1>6 DEF TypeOK, Steps

\* A process moves in one of the ways of Moves.
LEMMA HowItMoves ==
  ASSUME TypeOK, NotBegun, Positions, [Next]_vars, NEW q \in Procs
  PROVE  Moves(q)
<1>0. pc \in [Procs -> Steps] /\ q[1] \in Starts /\ q = <<q[1], q[2]>>
  BY PartsOf DEF TypeOK, Steps
<1>1. ASSUME Begin PROVE Moves(q)
  <2>1. begun + 1 \in Starts
    BY <1>1, WayGrows DEF Begin
  <2>2. /\ Main(begun + 1) \in Procs /\ pc[Main(begun + 1)] = "none"
    <3>1. begun + 1 > begun
      BY DEF TypeOK
    <3> QED
      BY <2>1, <3>1, OwnParts DEF NotBegun, Main, Parts
  <2>3. PICK w \in Setups[setup].ways[begun + 1] :
           way' = Append(way, w) /\ pc' = [pc EXCEPT ![Main(begun + 1)] = FirstStep(w[1])]
    BY <1>1 DEF Begin
  <2>4. way'[begun + 1] = w
    BY <1>1, <2>3, WayGrows DEF Begin
  <2> QED
    BY <1>0, <1>1, <2>2, <2>3, <2>4 DEF Moves, Comes
<1>2. ASSUME NEW n \in Starts, ReadConf(n) PROVE Moves(q)
  <2>1. pc[Main(n)] = "read" /\ Main(n) \in Procs
    BY <1>2, OwnParts DEF ReadConf, To
  <2>2. PICK s : /\ pc' = [pc EXCEPT ![Main(n)] = s]
                 /\ \/ s = "open" /\ Role(n) = "web" /\ Outcome[File(n)].status = "ok"
                    \/ s = "run" /\ Role(n) = "command"
                    \/ s = "endless"
                    \/ s = "gone"
    BY <1>2, <2>1, FileIsRead DEF ReadConf, To
  <2>3. Main(n)[1] = n /\ Main(n)[2] = "main"
    BY OwnParts
  <2>4. CASE q = Main(n)
    BY <1>0, <1>2, <2>1, <2>2, <2>3, <2>4 DEF Moves, Reads
  <2>5. CASE q # Main(n)
    BY <1>0, <2>1, <2>2, <2>5 DEF Moves
  <2> QED
    BY <2>4, <2>5
<1>3. ASSUME NEW n \in Starts, EndCommand(n) PROVE Moves(q)
  <2>1. \/ pc' = [pc EXCEPT ![Main(n)] = "gone"]
        \/ pc' = [pc EXCEPT ![Main(n)] = "gone", ![<<n, "holder">>] = "run"]
    BY <1>3 DEF EndCommand
  <2>2. pc[Main(n)] = "run" /\ Main(n) # <<n, "holder">>
    BY <1>3 DEF EndCommand, Main
  <2>3. q # Main(n) /\ q # <<n, "holder">> => pc'[q] = pc[q]
    BY <1>0, <2>1
  <2>4. pc'[Main(n)] = "gone"
    BY <1>0, <2>1, <2>2, OwnParts
  <2>5. pc'[<<n, "holder">>] \in {pc[<<n, "holder">>], "run"}
    BY <1>0, <2>1, <2>2, OwnParts
  <2> QED
    BY <2>2, <2>3, <2>4, <2>5 DEF Moves, Holds
<1>4. ASSUME NEW n \in Starts, Daemonize(n) PROVE Moves(q)
  <2>1. pc[Main(n)] = "fork" /\ \E s \in {"listener", "gone"} : pc' = [pc EXCEPT ![Main(n)] = s]
    BY <1>4 DEF Daemonize, To
  <2>2. q # Main(n) => pc'[q] = pc[q]
    BY <1>0, <2>1
  <2>3. pc'[Main(n)] \in {"listener", "gone"}
    BY <1>0, <2>1, OwnParts
  <2>4. Main(n)[2] = "main"
    BY OwnParts
  <2> QED
    BY <2>1, <2>2, <2>3, <2>4 DEF Moves, Goes
<1>5. ASSUME NEW n \in Starts, ForkListener(n) PROVE Moves(q)
  <2>1. \/ pc' = [pc EXCEPT ![Main(n)] = "icon"]
        \/ /\ pc' = [pc EXCEPT ![Main(n)] = "icon", ![<<n, "listener">>] = "run"]
           /\ ~Signalled(Main(n))
    BY <1>5 DEF ForkListener, ForkChild
  <2>2. pc[Main(n)] = "listener" /\ Main(n) # <<n, "listener">>
    BY <1>5 DEF ForkListener, ForkChild, Main
  <2>3. q # Main(n) /\ q # <<n, "listener">> => pc'[q] = pc[q]
    BY <1>0, <2>1
  <2>4. pc'[Main(n)] = "icon"
    BY <1>0, <2>1, <2>2, OwnParts
  <2>5. \/ pc'[<<n, "listener">>] = pc[<<n, "listener">>]
        \/ pc'[<<n, "listener">>] = "run" /\ ~Signalled(Main(n))
    BY <1>0, <2>1, <2>2, OwnParts
  <2>6. Main(n)[2] = "main"
    BY OwnParts
  <2>7. CASE q = Main(n)
    BY <2>2, <2>4, <2>6, <2>7 DEF Moves, Goes
  <2>8. CASE q = <<n, "listener">>
    BY <2>2, <2>4, <2>5, <2>8 DEF Moves, Forks
  <2> QED
    BY <2>3, <2>7, <2>8 DEF Moves
<1>6. ASSUME NEW n \in Starts, ForkIcon(n) PROVE Moves(q)
  <2>1. \/ pc' = [pc EXCEPT ![Main(n)] = "bind"]
        \/ /\ pc' = [pc EXCEPT ![Main(n)] = "bind", ![<<n, "icon">>] = "run"]
           /\ ~Signalled(Main(n))
    BY <1>6 DEF ForkIcon, ForkChild
  <2>2. pc[Main(n)] = "icon" /\ Main(n) # <<n, "icon">>
    BY <1>6 DEF ForkIcon, ForkChild, Main
  <2>3. q # Main(n) /\ q # <<n, "icon">> => pc'[q] = pc[q]
    BY <1>0, <2>1
  <2>4. pc'[Main(n)] = "bind"
    BY <1>0, <2>1, <2>2, OwnParts
  <2>5. \/ pc'[<<n, "icon">>] = pc[<<n, "icon">>]
        \/ pc'[<<n, "icon">>] = "run" /\ ~Signalled(Main(n))
    BY <1>0, <2>1, <2>2, OwnParts
  <2>6. Main(n)[2] = "main"
    BY OwnParts
  <2>7. CASE q = Main(n)
    BY <2>2, <2>4, <2>6, <2>7 DEF Moves, Goes
  <2>8. CASE q = <<n, "icon">>
    BY <2>2, <2>4, <2>5, <2>8 DEF Moves, Forks
  <2> QED
    BY <2>3, <2>7, <2>8 DEF Moves
<1>7. ASSUME NEW n \in Starts, StartWeb(n) PROVE Moves(q)
  <2>1. pc[Main(n)] = "bind" /\ \E s \in {"serve", "gone"} : pc' = [pc EXCEPT ![Main(n)] = s]
    BY <1>7 DEF StartWeb, To
  <2>2. q # Main(n) => pc'[q] = pc[q]
    BY <1>0, <2>1
  <2>3. pc'[Main(n)] \in {"serve", "gone"}
    BY <1>0, <2>1, OwnParts
  <2>4. Main(n)[2] = "main"
    BY OwnParts
  <2> QED
    BY <2>1, <2>2, <2>3, <2>4 DEF Moves, Goes
<1>8. ASSUME NEW n \in Starts, BeginRequest(n) PROVE Moves(q)
  BY <1>0, <1>8, OwnParts DEF Moves, To, BeginRequest
<1>9. ASSUME NEW n \in Starts, EndRequest(n) PROVE Moves(q)
  BY <1>0, <1>9, OwnParts DEF Moves, To, EndRequest
<1>10. ASSUME NEW n \in Starts, Quit(n) PROVE Moves(q)
  <2>1. pc[<<n, "icon">>] = "run" /\ pc' = [pc EXCEPT ![<<n, "icon">>] = "open"] /\ quit'
    BY <1>10 DEF Quit, To
  <2>2. <<n, "icon">>[2] = "icon"
    OBVIOUS
  <2>3. q # <<n, "icon">> => pc'[q] = pc[q]
    BY <1>0, <2>1
  <2>4. q = <<n, "icon">> => pc'[q] = "open"
    BY <1>0, <2>1
  <2> QED
    BY <2>1, <2>2, <2>3, <2>4 DEF Moves, Asked
<1>11. ASSUME NEW n \in Starts, ChildEnds(n) PROVE Moves(q)
  <2>1. PICK part \in {"listener", "icon", "holder"} :
           pc[<<n, part>>] = "run" /\ pc' = [pc EXCEPT ![<<n, part>>] = "gone"]
    BY <1>11 DEF ChildEnds, To
  <2>2. <<n, part>> \in Procs
    BY OwnParts
  <2> QED
    BY <1>0, <2>1, <2>2 DEF Moves
<1>18. ASSUME NEW p \in Procs, OpenProc(p) PROVE Moves(q)
  <2>1. /\ pc[p] = "open"
        /\ \/ pc' = [pc EXCEPT ![p] = "scan"]
           \/ pc' = [pc EXCEPT ![p] = AfterScan(p)] /\ listed' = [listed EXCEPT ![p] = {}]
    BY <1>18 DEF OpenProc, To
  <2>2. q # p => pc'[q] = pc[q]
    BY <1>0, <2>1
  <2>3. \/ pc'[p] = "scan"
        \/ pc'[p] = AfterScan(p) /\ listed'[p] = {}
    BY <1>0, <2>1 DEF TypeOK
  <2> QED
    BY <2>1, <2>2, <2>3 DEF Moves, Opens, Skips, AfterScan
<1>12. ASSUME NEW p \in Procs, KillOther(p) PROVE Moves(q)
  BY <1>0, <1>12, OwnParts DEF Moves, To, KillOther
<1>13. ASSUME NEW p \in Procs, ScanOver(p) PROVE Moves(q)
  BY <1>0, <1>13, OwnParts DEF Moves, To, ScanOver, Waits
<1>14. ASSUME NEW p \in Procs, SleepOver(p) PROVE Moves(q)
  BY <1>0, <1>14, OwnParts DEF Moves, To, SleepOver, AfterScan, Resumes
<1>15. ASSUME NEW p \in Procs, Terminate(p) PROVE Moves(q)
  BY <1>0, <1>15, OwnParts DEF Moves, To, Terminate, Leaves, Live
<1>16. ASSUME NEW p \in Procs, Exit(p) PROVE Moves(q)
  BY <1>0, <1>16, OwnParts DEF Moves, To, Exit
<1>17. CASE UNCHANGED vars
  BY <1>17 DEF Moves, vars
<1> QED
  BY <1>1, <1>2, <1>3, <1>4, <1>5, <1>6, <1>7, <1>8, <1>9, <1>10, <1>11, <1>12, <1>13, <1>14, <1>15,
      <1>16, <1>17, <1>18 DEF Next, UserStep, MainStep, ProcStep

\* Signals are sent by KillOther, and never taken back.
LEMMA WhoIsVisited ==
  ASSUME TypeOK, [Next]_vars, NEW q \in Procs
  PROVE  /\ visited[q] \subseteq visited'[q]
         /\ visited'[q] # visited[q] => KillOther(q) /\ visited'[q] \subseteq visited[q] \cup Found(q)
<1>1. ASSUME NEW p \in Procs, KillOther(p)
      PROVE  /\ visited[q] \subseteq visited'[q]
             /\ visited'[q] # visited[q] => KillOther(q) /\ visited'[q] \subseteq visited[q] \cup Found(q)
  <2>1. PICK x \in Found(p) : visited' = [visited EXCEPT ![p] = @ \cup {x}]
    BY <1>1 DEF KillOther
  <2> QED
    BY <1>1, <2>1 DEF TypeOK
<1>2. CASE \A p \in Procs : ~KillOther(p)
  <2>1. visited' = visited
    BY <1>2 DEF vars, Next, UserStep, MainStep, ProcStep, Begin, ReadConf, EndCommand, Daemonize,
        ForkListener, ForkIcon, StartWeb, BeginRequest, EndRequest, Quit, ChildEnds, OpenProc, ScanOver,
        SleepOver, Terminate, Exit, ForkChild
  <2> QED
    BY <2>1
<1> QED
  BY <1>1, <1>2

\* Who was there is noted when /proc is opened; a daemon is taken off again.
LEMMA WhoIsListed ==
  ASSUME TypeOK, [Next]_vars, NEW q \in Procs
  PROVE  \/ listed'[q] \subseteq listed[q]
         \/ OpenProc(q) /\ listed'[q] \subseteq Others(q)
<1>1. ASSUME NEW p \in Procs, OpenProc(p)
      PROVE  listed'[q] \subseteq listed[q] \/ (OpenProc(q) /\ listed'[q] \subseteq Others(q))
  <2>1. PICK l : l \in {Others(p), {}} /\ listed' = [listed EXCEPT ![p] = l]
    BY <1>1 DEF OpenProc
  <2> QED
    BY <1>1, <2>1 DEF TypeOK
<1>2. ASSUME NEW n \in Starts, Daemonize(n) PROVE listed'[q] \subseteq listed[q]
  BY <1>2 DEF Daemonize
<1>3. CASE (\A p \in Procs : ~OpenProc(p)) /\ \A n \in Starts : ~Daemonize(n)
  <2>1. listed' = listed
    BY <1>3 DEF vars, Next, UserStep, MainStep, ProcStep, Begin, ReadConf, EndCommand,
        ForkListener, ForkIcon, StartWeb, BeginRequest, EndRequest, Quit, ChildEnds, KillOther,
        ScanOver, SleepOver, Terminate, Exit, ForkChild
  <2> QED
    BY <2>1
<1> QED
  BY <1>1, <1>2, <1>3

\* What stays as it is.
LEMMA WhatStays ==
  ASSUME TypeOK, [Next]_vars
  PROVE  /\ setup' = setup /\ begun' \in {begun, begun + 1} /\ (quit => quit')
         /\ \A n \in 1 .. begun : Role(n)' = Role(n) /\ File(n)' = File(n)
         /\ \A n \in Starts : /\ request[n] # "none" => request'[n] # "none"
                              /\ pc[Main(n)] = "none" /\ request[n] = "none" => request'[n] = "none"
<1>1. setup' = setup /\ begun' \in {begun, begun + 1} /\ (quit => quit')
  <2>1. CASE Begin
    BY <2>1 DEF Begin
  <2>2. CASE ~Begin
    <3>1. setup' = setup /\ begun' = begun
      BY <2>2 DEF vars, Next, UserStep, MainStep, ProcStep, ReadConf, EndCommand, Daemonize,
          ForkListener, ForkIcon, StartWeb, BeginRequest, EndRequest, Quit, ChildEnds, KillOther,
          OpenProc, ScanOver, SleepOver, Terminate, Exit, ForkChild
    <3>2. quit => quit'
      BY <2>2 DEF vars, Next, UserStep, MainStep, ProcStep, ReadConf, EndCommand, Daemonize,
          ForkListener, ForkIcon, StartWeb, BeginRequest, EndRequest, Quit, ChildEnds, KillOther,
          OpenProc, ScanOver, SleepOver, Terminate, Exit, ForkChild
    <3> QED
      BY <3>1, <3>2
  <2> QED
    BY <2>1, <2>2
<1>2. \A n \in 1 .. begun : way'[n] = way[n]
  <2>1. CASE Begin
    <3>1. PICK w \in Setups[setup].ways[begun + 1] : way' = Append(way, w)
      BY <2>1 DEF Begin
    <3> QED
      BY <2>1, <3>1, WayGrows DEF Begin
  <2>2. CASE ~Begin
    BY <2>2 DEF vars, Next, UserStep, MainStep, ProcStep, ReadConf, EndCommand, Daemonize,
        ForkListener, ForkIcon, StartWeb, BeginRequest, EndRequest, Quit, ChildEnds, KillOther,
        OpenProc, ScanOver, SleepOver, Terminate, Exit, ForkChild
  <2> QED
    BY <2>1, <2>2
<1>3. ASSUME NEW m \in Starts
      PROVE  /\ request[m] # "none" => request'[m] # "none"
             /\ pc[Main(m)] = "none" /\ request[m] = "none" => request'[m] = "none"
  <2>1. ASSUME NEW n \in Starts, BeginRequest(n) \/ EndRequest(n)
        PROVE  /\ request[m] # "none" => request'[m] # "none"
               /\ pc[Main(m)] = "none" /\ request[m] = "none" => request'[m] = "none"
    <3>1. PICK to : to \in {"busy", "done", "hung"} /\ request' = [request EXCEPT ![n] = to]
      BY <2>1 DEF BeginRequest, EndRequest
    <3>2. pc[Main(n)] = "serve" \/ request[n] = "busy"
      BY <2>1 DEF BeginRequest, EndRequest
    <3> QED
      BY <3>1, <3>2 DEF TypeOK
  <2>2. CASE \A n \in Starts : ~BeginRequest(n) /\ ~EndRequest(n)
    <3>1. request' = request
      BY <2>2 DEF vars, Next, UserStep, MainStep, ProcStep, Begin, ReadConf, EndCommand, Daemonize,
          ForkListener, ForkIcon, StartWeb, Quit, ChildEnds, KillOther, OpenProc, ScanOver, SleepOver, Terminate,
          Exit, ForkChild
    <3> QED
      BY <3>1
  <2> QED
    BY <2>1, <2>2
<1> QED
  BY <1>1, <1>2, <1>3 DEF Role, File

-----------------------------------------------------------------------------
(* The invariant is kept *)

\* Only ReadConf changes what a start has made of its file.
LEMMA WhoReads ==
  ASSUME TypeOK, [Next]_vars, NEW n \in Starts
  PROVE  \/ configuration'[n] = configuration[n]
         \/ ReadConf(n) /\ configuration'[n] = Outcome[File(n)]
<1>1. ASSUME NEW m \in Starts, ReadConf(m)
      PROVE  \/ configuration'[n] = configuration[n]
             \/ ReadConf(n) /\ configuration'[n] = Outcome[File(n)]
  <2>1. configuration' = [configuration EXCEPT ![m] = Outcome[File(m)]]
    BY <1>1 DEF ReadConf
  <2> QED
    BY <1>1, <2>1 DEF TypeOK
<1>2. CASE \A m \in Starts : ~ReadConf(m)
  <2>1. configuration' = configuration
    BY <1>2 DEF vars, Next, UserStep, MainStep, ProcStep, Begin, EndCommand, Daemonize, ForkListener,
        ForkIcon, StartWeb, BeginRequest, EndRequest, Quit, ChildEnds, KillOther, OpenProc, ScanOver, SleepOver,
        Terminate, Exit, ForkChild
  <2> QED
    BY <2>1
<1> QED
  BY <1>1, <1>2

\* Starts are counted up.
LEMMA Counting ==
  ASSUME TypeOK, [Next]_vars
  PROVE  /\ begun \in Nat /\ begun' \in Nat /\ begun <= begun'
         /\ Begin => begun' = begun + 1
         /\ \A n \in Starts : n \in Nat /\ (~(n > begun) => n \in 1 .. begun)
  BY WhatStays, MaxStartsAssumption DEF TypeOK, Starts, Begin

\* There is nothing of a start that has not been made.
LEMMA NotBegunStep == IInv /\ [Next]_vars => NotBegun'
<1> SUFFICES ASSUME IInv, [Next]_vars, NEW n \in Starts, n > begun'
             PROVE  /\ Status(n)' = "none" /\ request'[n] = "none"
                    /\ \A part \in Parts : /\ pc'[<<n, part>>] = "none" /\ visited'[<<n, part>>] = {}
                                            /\ listed'[<<n, part>>] = {}
  BY DEF NotBegun, Starts, Parts
<1>0. TypeOK /\ NotBegun /\ Positions
  BY DEF IInv, InstanceInv
<1>1. n > begun /\ (Begin => n # begun + 1)
  BY <1>0, Counting
<1>2. /\ Status(n) = "none" /\ request[n] = "none"
      /\ \A part \in Parts :
            pc[<<n, part>>] = "none" /\ visited[<<n, part>>] = {} /\ listed[<<n, part>>] = {}
  BY <1>0, <1>1 DEF NotBegun
<1>3. pc[Main(n)] = "none"
  BY <1>2 DEF Main, Parts
<1>4. Status(n)' = "none"
  <2>1. ~ReadConf(n)
    BY <1>3 DEF ReadConf, To
  <2> QED
    BY <1>0, <1>2, <2>1, WhoReads DEF Status
<1>5. request'[n] = "none"
  BY <1>0, <1>2, <1>3, WhatStays
<1>6. ASSUME NEW part \in Parts
      PROVE  pc'[<<n, part>>] = "none" /\ visited'[<<n, part>>] = {} /\ listed'[<<n, part>>] = {}
  <2> DEFINE q == <<n, part>>
  <2>1. q \in Procs /\ q[1] = n /\ pc[q] = "none" /\ visited[q] = {} /\ listed[q] = {}
    BY <1>2 DEF Procs
  <2>2. q # Main(begun + 1) \/ ~Begin
    BY <1>1 DEF Main
  <2> HIDE DEF q
  <2>3. Moves(q)
    BY <1>0, <2>1, HowItMoves
  <2>4. pc'[q] = "none"
    BY <1>3, <2>1, <2>2, <2>3
       DEF Moves, Comes, Forks, Holds, Reads, Goes, Leaves, Asked, Opens, Skips, Waits, Resumes
  <2>5. visited'[q] = {}
    <3>1. ~KillOther(q)
      BY <2>1 DEF KillOther
    <3> QED
      BY <1>0, <2>1, <3>1, WhoIsVisited
  <2>6. listed'[q] = {}
    <3>1. ~OpenProc(q)
      BY <2>1 DEF OpenProc, To
    <3> QED
      BY <1>0, <2>1, <3>1, WhoIsListed
  <2> QED
    BY <2>4, <2>5, <2>6 DEF q
<1> QED
  BY <1>4, <1>5, <1>6

\* Who is anywhere stems from a start that has been made.
LEMMA BegunParts ==
  ASSUME TypeOK, NotBegun, NEW q \in Procs, pc[q] # "none" \/ visited[q] # {}
  PROVE  q[1] \in 1 .. begun
<1>1. q[1] \in Starts /\ q = <<q[1], q[2]>> /\ q[2] \in Parts
  BY DEF Procs
<1>2. ~(q[1] > begun)
  BY <1>1 DEF NotBegun
<1>3. begun \in Nat /\ q[1] \in Nat /\ q[1] >= 1
  BY <1>1, MaxStartsAssumption DEF TypeOK, Starts
<1> QED
  BY <1>2, <1>3

\* A file that has been read is not read into something else.
LEMMA StatusStays ==
  ASSUME IInv, [Next]_vars, NEW n \in Starts
  PROVE  Status(n) # "none" => configuration'[n] = configuration[n]
<1>0. TypeOK /\ NotBegun /\ Positions /\ Understood
  BY DEF IInv, InstanceInv
<1>1. CASE ReadConf(n) /\ Status(n) # "none"
  <2>1. pc[Main(n)] = "read"
    BY <1>1 DEF ReadConf, To
  <2>2. Outcome[File(n)] = Configured(File(n))
    BY <1>0, <2>1, FileIsRead
  <2>3. configuration[n] = Configured(File(n))
    BY <1>0, <1>1 DEF Understood
  <2> QED
    BY <1>0, <2>2, <2>3, WhoReads
<1>2. CASE ~ReadConf(n)
  BY <1>0, <1>2, WhoReads
<1> QED
  BY <1>1, <1>2

\* What a start runs with is what its file says.
LEMMA UnderstoodStep == IInv /\ [Next]_vars => Understood'
<1> SUFFICES ASSUME IInv, [Next]_vars, NEW n \in Starts, Status(n)' # "none"
             PROVE  n <= begun' /\ configuration'[n] = Configured(File(n)')
  BY DEF Understood, Starts
<1>0. TypeOK /\ NotBegun /\ Positions /\ Understood
  BY DEF IInv, InstanceInv
<1>1. n \in 1 .. begun /\ configuration'[n] = Configured(File(n))
  <2>1. CASE configuration'[n] = configuration[n]
    BY <1>0, <2>1, Counting DEF Understood, Status
  <2>2. CASE ReadConf(n) /\ configuration'[n] = Outcome[File(n)]
    <3>1. pc[Main(n)] = "read"
      BY <2>2 DEF ReadConf, To
    <3> QED
      BY <1>0, <2>2, <3>1, FileIsRead
  <2> QED
    BY <1>0, <2>1, <2>2, WhoReads
<1>2. File(n)' = File(n)
  BY <1>0, <1>1, WhatStays
<1> QED
  BY <1>0, <1>1, <1>2, Counting

\* Every process is where its part may be.
LEMMA PositionsStep == IInv /\ [Next]_vars => Positions'
<1> SUFFICES ASSUME IInv, [Next]_vars PROVE Positions'
  OBVIOUS
<1>0. TypeOK /\ NotBegun /\ Positions
  BY DEF IInv, InstanceInv
<1> DEFINE MainAt(n) ==
              /\ pc[Main(n)] \in Waited => Role(n) = "web"
              /\ pc[Main(n)] = "run" => Role(n) = "command"
              /\ pc[Main(n)] \in {"open", "scan", "sleep"} => Role(n) \in {"web", "stop"}
              /\ pc[Main(n)] \in {"read", "endless"} => Role(n) \in {"web", "command"}
              /\ pc[Main(n)] \in Ahead \cup {"open", "scan"} /\ Role(n) = "web" => Status(n) = "ok"
<1>1. ASSUME NEW n \in Starts PROVE MainAt(n)'
  <2> DEFINE q == Main(n)
  <2>1. q \in Procs /\ q[1] = n /\ q[2] = "main" /\ MainAt(n)
    BY <1>0, OwnParts DEF Positions
  <2>2. Moves(q)
    BY <1>0, <2>1, HowItMoves
  <2>3. CASE Comes(q)
    <3>1. n = begun + 1 /\ pc'[q] = FirstStep(way'[n][1])
      BY <2>3 DEF Comes, Main
    <3>2. Role(n)' \in {"web", "command", "stop"}
      <4>1. n \in 1 .. begun' /\ begun' \in Nat
        BY <1>0, <2>3, <3>1, Counting DEF Comes
      <4>2. /\ way'[n] \in Setups[setup'].ways[n] /\ setup' \in DOMAIN Setups
            /\ begun' <= Setups[setup'].starts
        BY <1>0, <4>1, TypeStep DEF TypeOK
      <4>3. n \in 1 .. Setups[setup'].starts
        BY <4>1, <4>2, MaxStartsAssumption, SetupsAssumption
      <4> QED
        BY <4>2, <4>3, SetupsAssumption DEF Role
    <3> QED
      BY <3>1, <3>2 DEF FirstStep, Role, Ahead, Waited
  <2>4. CASE pc[q] # "none"
    <3>1. Role(n)' = Role(n)
      BY <1>0, <2>1, <2>4, BegunParts, WhatStays
    <3>2. Status(n) = "ok" => Status(n)' = "ok"
      BY StatusStays DEF Status
    <3>3. Reads(q) => Status(n)' = Outcome[File(n)].status
      BY <1>0, <2>1 DEF Reads, ReadConf, TypeOK, Status
    <3>4. pc'[q] = pc[q] \/ pc'[q] = "gone" => MainAt(n)'
      BY <2>1, <3>1, <3>2 DEF Ahead, Waited
    <3>5. Reads(q) => MainAt(n)'
      BY <2>1, <3>1, <3>3 DEF Reads, Ahead, Waited
    <3>6. Goes(q) \/ Leaves(q) \/ Opens(q) \/ Skips(q) \/ Waits(q) \/ Resumes(q) => MainAt(n)'
      BY <2>1, <3>1, <3>2 DEF Goes, Leaves, Opens, Skips, Waits, Resumes, Ahead, Waited
    <3> QED
      BY <2>1, <2>2, <2>4, <3>4, <3>5, <3>6 DEF Moves, Comes, Forks, Holds, Asked
  <2>5. CASE ~Comes(q) /\ pc[q] = "none"
    <3>1. pc'[q] = "none"
      BY <2>1, <2>2, <2>5 DEF Moves, Forks, Holds, Reads, Goes, Leaves, Asked, Opens, Skips, Waits, Resumes
    <3> QED
      BY <3>1 DEF Ahead, Waited
  <2> QED
    BY <2>3, <2>4, <2>5
<1>2. ASSUME NEW n \in Starts PROVE pc'[<<n, "listener">>] \in {"none", "run", "gone"}
  <2>1. <<n, "listener">> \in Procs /\ pc[<<n, "listener">>] \in {"none", "run", "gone"}
    BY <1>0, OwnParts DEF Positions
  <2>2. Moves(<<n, "listener">>)
    BY <1>0, <2>1, HowItMoves
  <2> QED
    BY <2>1, <2>2 DEF Moves, Comes, Forks, Holds, Reads, Goes, Leaves, Asked, Opens, Skips, Waits, Resumes, Main
<1>3. ASSUME NEW n \in Starts
      PROVE  /\ pc'[<<n, "icon">>] \in {"none", "run", "open", "scan", "sleep", "gone"}
             /\ pc'[<<n, "icon">>] \in {"open", "scan", "sleep"} => quit'
  <2>1. /\ <<n, "icon">> \in Procs /\ pc[<<n, "icon">>] \in {"none", "run", "open", "scan", "sleep", "gone"}
        /\ pc[<<n, "icon">>] \in {"open", "scan", "sleep"} => quit
    BY <1>0, OwnParts DEF Positions
  <2>2. Moves(<<n, "icon">>)
    BY <1>0, <2>1, HowItMoves
  <2>3. quit => quit'
    BY <1>0, WhatStays
  <2> QED
    BY <2>1, <2>2, <2>3 DEF Moves, Comes, Forks, Holds, Reads, Goes, Leaves, Asked, Opens, Skips, Waits, Resumes, Main
<1>4. ASSUME NEW n \in Starts PROVE pc'[<<n, "holder">>] \in {"none", "run", "gone"}
  <2>1. <<n, "holder">> \in Procs /\ pc[<<n, "holder">>] \in {"none", "run", "gone"}
    BY <1>0, OwnParts DEF Positions
  <2>2. Moves(<<n, "holder">>)
    BY <1>0, <2>1, HowItMoves
  <2> QED
    BY <2>1, <2>2 DEF Moves, Comes, Forks, Holds, Reads, Goes, Leaves, Asked, Opens, Skips, Waits, Resumes, Main
<1> QED
  BY <1>1, <1>2, <1>3, <1>4 DEF Positions, Starts

\* Children are forked by a main process that goes on, and once.
LEMMA ForkedStep == IInv /\ [Next]_vars => Forked'
<1> SUFFICES ASSUME IInv, [Next]_vars, NEW n \in Starts
             PROVE  /\ pc'[<<n, "listener">>] # "none" => pc'[Main(n)] \in {"icon", "bind", "serve", "exit", "gone"}
                    /\ pc'[<<n, "icon">>] # "none" => pc'[Main(n)] \in {"bind", "serve", "exit", "gone"}
                    /\ pc'[<<n, "holder">>] # "none" => pc'[Main(n)] = "gone"
  BY DEF Forked, Starts
<1>0. TypeOK /\ NotBegun /\ Positions /\ Forked
  BY DEF IInv, InstanceInv
<1>1. /\ Main(n) \in Procs /\ <<n, "listener">> \in Procs /\ <<n, "icon">> \in Procs
      /\ <<n, "holder">> \in Procs /\ Main(n)[1] = n /\ Main(n)[2] = "main"
  BY OwnParts
<1>2. Moves(Main(n)) /\ Moves(<<n, "listener">>) /\ Moves(<<n, "icon">>) /\ Moves(<<n, "holder">>)
  BY <1>0, <1>1, HowItMoves
<1>3. /\ pc[<<n, "listener">>] # "none" => pc[Main(n)] \in {"icon", "bind", "serve", "exit", "gone"}
      /\ pc[<<n, "icon">>] # "none" => pc[Main(n)] \in {"bind", "serve", "exit", "gone"}
      /\ pc[<<n, "holder">>] # "none" => pc[Main(n)] = "gone"
  BY <1>0 DEF Forked
<1> DEFINE L == {"icon", "bind", "serve", "exit", "gone"}
           I == {"bind", "serve", "exit", "gone"}
<1>4. /\ pc[Main(n)] \in L => pc'[Main(n)] \in L
      /\ pc[Main(n)] \in I => pc'[Main(n)] \in I
      /\ pc[Main(n)] = "gone" => pc'[Main(n)] = "gone"
  BY <1>1, <1>2 DEF Moves, Comes, Forks, Holds, Reads, Goes, Leaves, Asked, Opens, Skips, Waits, Resumes
<1>5. ASSUME NEW part \in {"listener", "icon", "holder"}, pc[<<n, part>>] = "none", pc'[<<n, part>>] # "none"
      PROVE  /\ part = "listener" => pc'[Main(n)] \in L
             /\ part = "icon" => pc'[Main(n)] \in I
             /\ part = "holder" => pc'[Main(n)] = "gone"
  <2>1. Moves(<<n, part>>)
    BY <1>2
  <2>2. <<n, part>> # Main(begun + 1)
    BY DEF Main
  <2> QED
    BY <1>5, <2>1, <2>2 DEF Moves, Comes, Forks, Holds, Reads, Goes, Leaves, Asked, Opens, Skips, Waits, Resumes
<1> QED
  BY <1>3, <1>4, <1>5

\* Nobody comes back to life.
LEMMA NewlyLive ==
  ASSUME TypeOK, NotBegun, Positions, Forked, [Next]_vars, NEW q \in Procs, Live(q)'
  PROVE  Live(q) \/ pc[q] = "none"
<1>1. Moves(q)
  BY HowItMoves
<1>2. q[1] \in Starts /\ q = <<q[1], q[2]>>
  BY PartsOf
<1>3. pc[q] # "none" => ~Forks(q) /\ ~Holds(q)
  BY <1>2 DEF Forked, Forks, Holds
<1> QED
  BY <1>1, <1>3 DEF Moves, Comes, Forks, Holds, Reads, Goes, Leaves, Asked, Opens, Skips, Waits, Resumes, Live

\* Who is signalled has been there, and who signals is entitled to.
LEMMA VisitsStep == IInv /\ [Next]_vars => Visits'
<1> SUFFICES ASSUME IInv, [Next]_vars, NEW p \in Procs
             PROVE  /\ p \notin visited'[p] /\ p \notin listed'[p]
                    /\ \A q \in visited'[p] \cup listed'[p] : pc'[q] # "none"
                    /\ visited'[p] # {} => Entitled(p)'
  BY DEF Visits, Procs, Starts, Parts
<1>0. TypeOK /\ NotBegun /\ Positions /\ Forked /\ Visits
  BY DEF IInv, InstanceInv
<1>1. /\ p \notin visited[p] /\ p \notin listed[p]
      /\ \A q \in visited[p] \cup listed[p] : pc[q] # "none"
      /\ visited[p] # {} => Entitled(p)
  BY <1>0 DEF Visits
<1>2. visited'[p] # visited[p] => KillOther(p) /\ visited'[p] \subseteq visited[p] \cup Found(p)
  BY <1>0, WhoIsVisited
<1>6. listed'[p] \subseteq listed[p] \/ listed'[p] \subseteq Others(p)
  BY <1>0, WhoIsListed
<1>3. p \notin visited'[p] /\ p \notin listed'[p]
  BY <1>1, <1>2, <1>6 DEF Found, Others
<1>4. ASSUME NEW q \in visited'[p] \cup listed'[p] PROVE pc'[q] # "none"
  <2>1. q \in Procs /\ pc[q] # "none"
    <3>1. visited[p] \subseteq Procs /\ listed[p] \subseteq Procs
      BY <1>0 DEF TypeOK
    <3> QED
      BY <1>1, <1>2, <1>4, <1>6, <3>1 DEF Found, Others, Live
  <2>2. Moves(q)
    BY <1>0, <2>1, HowItMoves
  <2> QED
    BY <2>1, <2>2 DEF Moves, Comes, Forks, Holds, Reads, Goes, Leaves, Asked, Opens, Skips, Waits, Resumes
<1>5. ASSUME visited'[p] # {} PROVE Entitled(p)'
  <2>1. pc[p] # "none" \/ visited[p] # {}
    BY <1>2, <1>5 DEF KillOther
  <2>2. p[1] \in 1 .. begun /\ p[1] \in Starts
    BY <1>0, <2>1, BegunParts, PartsOf
  <2>3. Role(p[1])' = Role(p[1]) /\ (quit => quit')
    BY <1>0, <2>2, WhatStays
  <2>4. Status(p[1]) = "ok" => Status(p[1])' = "ok"
    BY <2>2, StatusStays DEF Status
  <2>5. Entitled(p)
    <3>1. CASE visited[p] # {}
      BY <1>1, <3>1
    <3>2. CASE KillOther(p)
      <4>1. pc[p] = "scan" /\ p = <<p[1], p[2]>> /\ p[2] \in {"main", "listener", "icon", "holder"}
        BY <3>2, PartsOf DEF KillOther
      <4>2. CASE p[2] = "main"
        <5>1. p = Main(p[1])
          BY <4>2, PartsOf
        <5>2. Role(p[1]) \in {"web", "stop"} /\ (Role(p[1]) = "web" => Status(p[1]) = "ok")
          BY <1>0, <2>2, <4>1, <5>1 DEF Positions
        <5> QED
          BY <4>2, <5>2 DEF Entitled
      <4>3. CASE p[2] = "icon"
        BY <1>0, <2>2, <4>1, <4>3 DEF Positions, Entitled
      <4>4. CASE p[2] \in {"listener", "holder"}
        BY <1>0, <2>2, <4>1, <4>4 DEF Positions
      <4> QED
        BY <4>1, <4>2, <4>3, <4>4
    <3> QED
      BY <1>2, <1>5, <3>1, <3>2
  <2> QED
    BY <2>3, <2>4, <2>5 DEF Entitled
<1> QED
  BY <1>3, <1>4, <1>5

\* How a start comes to have looked for the others.
LEMMA NewlySearched ==
  ASSUME IInv, [Next]_vars, NEW n \in Starts, Searched(n)'
  PROVE  Searched(n) \/ Waits(Main(n)) \/ Skips(Main(n))
<1>0. TypeOK /\ NotBegun /\ Positions
  BY DEF IInv, InstanceInv
<1>1. /\ Main(n) \in Procs /\ <<n, "listener">> \in Procs /\ <<n, "icon">> \in Procs
      /\ Main(n)[1] = n /\ Main(n)[2] = "main"
  BY OwnParts
<1>2. Moves(Main(n)) /\ Moves(<<n, "listener">>) /\ Moves(<<n, "icon">>)
  BY <1>0, <1>1, HowItMoves
<1>3. CASE pc'[Main(n)] \in Ahead
  <2>1. pc[Main(n)] \in Ahead \/ Waits(Main(n)) \/ Skips(Main(n))
    BY <1>1, <1>2, <1>3
       DEF Moves, Comes, FirstStep, Forks, Holds, Reads, Goes, Leaves, Asked, Opens, Resumes, Ahead, Waited
  <2> QED
    BY <2>1 DEF Searched
<1>4. ASSUME NEW part \in {"listener", "icon"}, pc'[<<n, part>>] # "none" PROVE Searched(n)
  <2>1. <<n, part>> # Main(begun + 1) /\ Moves(<<n, part>>)
    BY <1>2 DEF Main
  <2>2. pc[<<n, part>>] # "none" \/ Forks(<<n, part>>)
    BY <1>4, <2>1
       DEF Moves, Comes, Holds, Reads, Goes, Leaves, Asked, Opens, Skips, Waits, Resumes
  <2> QED
    BY <2>2 DEF Searched, Forks, Ahead, Waited
<1> QED
  BY <1>3, <1>4 DEF Searched

\* Who was there when a start began to look is signalled before it goes on.
LEMMA LookedStep == IInv /\ [Next]_vars => Looked'
<1> SUFFICES ASSUME IInv, [Next]_vars, NEW n \in Starts, Searched(n)',
                    NEW q \in listed'[Main(n)], Live(q)'
             PROVE  q \in visited'[Main(n)]
  BY DEF Looked, Starts
<1>0. TypeOK /\ NotBegun /\ Positions /\ Forked /\ Visits /\ Looked
  BY DEF IInv, InstanceInv
<1>1. Main(n) \in Procs
  BY OwnParts
<1>2. visited[Main(n)] \subseteq visited'[Main(n)]
  BY <1>0, <1>1, WhoIsVisited
<1>3. ASSUME q \in listed[Main(n)] PROVE Live(q)
  <2>1. q \in Procs /\ pc[q] # "none"
    BY <1>0, <1>1, <1>3 DEF Visits, TypeOK
  <2> QED
    BY <1>0, <2>1, NewlyLive
<1>4. CASE Searched(n)
  <2>1. pc[Main(n)] # "open"
    BY <1>0, <1>4 DEF Searched, Forked, Ahead, Waited
  <2>2. q \in listed[Main(n)]
    BY <1>0, <1>1, <2>1, WhoIsListed DEF OpenProc, To
  <2> QED
    BY <1>0, <1>2, <1>3, <1>4, <2>2 DEF Looked
<1>5. CASE Waits(Main(n))
  <2>1. q \in listed[Main(n)] /\ q # Main(n) /\ q \in Procs
    BY <1>0, <1>1, <1>5 DEF Waits, Visits, TypeOK
  <2>2. q \in Others(Main(n))
    BY <1>3, <2>1 DEF Others
  <2> QED
    BY <1>2, <1>5, <2>1, <2>2 DEF Waits, Unvisited, Found
<1>6. CASE Skips(Main(n))
  BY <1>6 DEF Skips
<1> QED
  BY <1>4, <1>5, <1>6, NewlySearched

\* The invariant holds initially.
LEMMA IInvInit == Init => IInv
<1> SUFFICES ASSUME Init PROVE IInv
  OBVIOUS
<1>1. TypeOK
  BY TypeInit
<1>2. /\ pc = [p \in Procs |-> "none"] /\ visited = [p \in Procs |-> {}]
      /\ listed = [p \in Procs |-> {}]
      /\ request = [n \in Starts |-> "none"]
      /\ configuration = [n \in Starts |-> [status |-> "none"]]
  BY DEF Init
<1>3. \A n \in Starts, part \in Parts :
         pc[<<n, part>>] = "none" /\ visited[<<n, part>>] = {} /\ listed[<<n, part>>] = {}
  BY <1>2 DEF Procs
<1>4. \A p \in Procs : pc[p] = "none" /\ visited[p] = {} /\ listed[p] = {} /\ ~Live(p)
  BY <1>2 DEF Live
<1>5. \A n \in Starts : Status(n) = "none" /\ request[n] = "none"
  BY <1>2 DEF Status
<1>6. \A n \in Starts : Main(n) \in Procs /\ pc[Main(n)] = "none"
  BY <1>4, OwnParts
<1>7. NotBegun /\ Understood
  BY <1>3, <1>5 DEF NotBegun, Understood
<1>8. Positions /\ Forked
  BY <1>3, <1>6 DEF Positions, Forked, Ahead, Waited, Parts
<1>9. Visits
  BY <1>4 DEF Visits
<1>10. Looked
  BY <1>3, <1>6 DEF Looked, Main, Parts
<1> QED
  BY <1>1, <1>7, <1>8, <1>9, <1>10 DEF IInv, InstanceInv

\* Every step keeps the invariant.
LEMMA IInvStep == IInv /\ [Next]_vars => IInv'
<1> SUFFICES ASSUME IInv, [Next]_vars PROVE IInv'
  OBVIOUS
<1>1. TypeOK'
  BY TypeStep DEF IInv, InstanceInv
<1>2. NotBegun' /\ Positions' /\ Forked' /\ Understood' /\ Visits' /\ Looked'
  BY NotBegunStep, PositionsStep, ForkedStep, UnderstoodStep, VisitsStep, LookedStep
<1> QED
  BY <1>1, <1>2 DEF IInv, InstanceInv

\* The invariant holds in every state.
LEMMA IInvAlways == Spec => []IInv
  BY IInvInit, IInvStep, PTL DEF Spec

-----------------------------------------------------------------------------
\* Of the processes of one start nobody is in the list of another that runs on.
LEMMA OneAtATime == IInv => OneInstance
<1> SUFFICES ASSUME IInv PROVE OneInstance
  OBVIOUS
<1> DEFINE parts == {p \in Procs : Live(p) /\ p[2] # "holder" /\ Role(p[1]) = "web"
                                           /\ pc[p] \notin {"read", "endless"}}
<1> SUFFICES ASSUME \A p \in parts : pc[p] \in {"serve", "run"} /\ ~Signalled(p),
                    NEW p \in parts, NEW q \in parts, q \in listed[Main(p[1])]
             PROVE  FALSE
  BY DEF OneInstance
<1>1. /\ p \in Procs /\ p[2] # "holder" /\ Role(p[1]) = "web" /\ pc[p] \in {"serve", "run"}
      /\ q \in Procs /\ Live(q) /\ ~Signalled(q)
  OBVIOUS
<1> HIDE DEF parts
<1>2. /\ p[1] \in Starts /\ p = <<p[1], p[2]>> /\ p[2] \in {"main", "listener", "icon", "holder"}
      /\ Main(p[1]) \in Procs /\ (p[2] = "main" => p = Main(p[1]))
  BY <1>1, PartsOf
<1>3. Searched(p[1])
  <2>1. p[2] = "main" => pc[p] # "run"
    BY <1>1, <1>2 DEF IInv, InstanceInv, Positions
  <2>2. CASE p[2] = "main"
    BY <1>1, <1>2, <2>1, <2>2 DEF Searched, Ahead, Waited
  <2>3. CASE p[2] \in {"listener", "icon"}
    BY <1>1, <1>2, <2>3 DEF Searched
  <2> QED
    BY <1>1, <1>2, <2>2, <2>3
<1>4. q \in visited[Main(p[1])]
  BY <1>1, <1>2, <1>3 DEF IInv, InstanceInv, Looked
<1> QED
  BY <1>1, <1>2, <1>4 DEF Signalled

\* The range of versions is not empty and within that of the build.
LEMMA RangesFit == IInv => VersionsInRange
<1> SUFFICES ASSUME IInv, NEW n \in 1 .. begun, Status(n) = "ok"
             PROVE  /\ PROTOCOL_MIN <= configuration[n].option["min_proto_version"]
                    /\ configuration[n].option["min_proto_version"] <= configuration[n].option["max_proto_version"]
                    /\ configuration[n].option["max_proto_version"] <= PROTOCOL_MAX
  BY DEF VersionsInRange
<1>1. n \in Starts
  BY MaxStartsAssumption DEF IInv, TypeOK, Starts
<1>2. configuration[n] = Configured(File(n))
  BY <1>1 DEF IInv, InstanceInv, Understood
<1>3. Len(File(n)) \in Nat /\ \A i \in 1 .. Len(File(n)) : LegalLine(File(n)[i])
  BY FileIsLegal DEF IInv
<1> QED
  BY <1>2, <1>3, ConfiguredFits DEF Status

\* Whenever nothing is starting or ending, the page, the listener and the icon that
\* run stem from one start, but for those that began after the other one had begun to
\* look (kill_other_processes against forks and new starts at any point).
THEOREM OneWebClient == Spec => []OneInstance
  BY OneAtATime, IInvAlways, PTL

\* Every state is well formed, and the versions of an accepted configuration are a
\* range to negotiate with (main, _apply_default_conf).
THEOREM VersionsToNegotiate == Spec => []StartupInv
<1>1. IInv => StartupInv
  BY RangesFit DEF IInv, StartupInv
<1> QED
  BY <1>1, IInvAlways, PTL

\* A page is served until a signal comes.
LEMMA WhoStopsServing ==
  ASSUME IInv, [Next]_vars, NEW n \in Starts, pc[Main(n)] = "serve", pc'[Main(n)] # "serve"
  PROVE  Signalled(Main(n))
<1> DEFINE p == Main(n)
<1>1. p \in Procs /\ p[2] = "main"
  BY OwnParts
<1>2. TypeOK /\ NotBegun /\ Positions
  BY DEF IInv, InstanceInv
<1>3. Moves(p)
  BY <1>1, <1>2, HowItMoves
<1> QED
  BY <1>1, <1>3 DEF p, Moves, Comes, Forks, Holds, Reads, Goes, Leaves, Asked, Opens, Skips, Waits, Resumes

\* A served page goes away only if the user chose Quit, asked to stop it, or started
\* a web client whose configuration was accepted (main reads it before it signals).
THEOREM OnlyReplaced == Spec => GoneOnlyIfReplaced
<1> DEFINE Why(n) == pc[Main(n)] = "serve" /\ pc'[Main(n)] # "serve" =>
             \/ quit
             \/ \E m \in 1 .. begun : m # n /\ Role(m) = "stop"
             \/ \E m \in 1 .. begun : /\ m # n /\ Role(m) = "web"
                                      /\ Status(m) = "ok"
<1>1. IInv /\ [Next]_vars => [\A n \in Starts : Why(n)]_vars
  <2> SUFFICES ASSUME IInv, [Next]_vars, NEW n \in Starts, pc[Main(n)] = "serve", pc'[Main(n)] # "serve"
               PROVE  \/ quit
                      \/ \E m \in 1 .. begun : m # n /\ Role(m) = "stop"
                      \/ \E m \in 1 .. begun : m # n /\ Role(m) = "web" /\ Status(m) = "ok"
    OBVIOUS
  <2>0. TypeOK /\ NotBegun /\ Visits
    BY DEF IInv, InstanceInv
  <2>1. PICK q \in Procs : Main(n) \in visited[q]
    BY WhoStopsServing DEF Signalled
  <2>2. q # Main(n) /\ Entitled(q)
    BY <2>0, <2>1, OwnParts DEF Visits
  <2>3. q[1] \in 1 .. begun /\ (q[2] = "main" => q[1] # n)
    BY <2>0, <2>1, <2>2, BegunParts, PartsOf
  <2> QED
    BY <2>2, <2>3 DEF Entitled
<1> QED
  BY <1>1, IInvAlways, PTL DEF Spec, GoneOnlyIfReplaced

\* A start that nobody stops misses its port only to a client that it has signalled
\* and that is still ending after the 5 ms of kill_other_processes, or that came to
\* its number after the start had begun to look.
THEOREM PortIsFree == Spec => PortStillHeld
<1> DEFINE Why(n) == n \in unserved' \ unserved /\ pc[Main(n)] = "bind" /\ ~Signalled(Main(n)) =>
             \E m \in Starts \ {n} :
                /\ pc[Main(m)] \in {"serve", "exit"} /\ Port(m) = Port(n)
                /\ Main(m) \in visited[Main(n)] \/ Main(m) \notin listed[Main(n)]
<1>1. IInv /\ [Next]_vars => [\A n \in Starts : Why(n)]_vars
  <2> SUFFICES ASSUME IInv, [Next]_vars, NEW n \in Starts, n \in unserved' \ unserved,
                      pc[Main(n)] = "bind", ~Signalled(Main(n))
               PROVE  \E m \in Starts \ {n} :
                         /\ pc[Main(m)] \in {"serve", "exit"} /\ Port(m) = Port(n)
                         /\ Main(m) \in visited[Main(n)] \/ Main(m) \notin listed[Main(n)]
    OBVIOUS
  <2>1. PICK m \in Starts : pc[Main(m)] \in {"serve", "exit"} /\ Port(m) = Port(n)
    <3>1. ASSUME NEW k \in Starts, StartWeb(k) PROVE Taken(n)
      <4>1. unserved' = unserved \/ (unserved' = unserved \cup {k} /\ Taken(k))
        BY <3>1 DEF StartWeb
      <4> QED
        BY <4>1
    <3>2. ASSUME NEW k \in Starts, Daemonize(k) PROVE FALSE
      <4>1. pc[Main(k)] = "fork" /\ unserved' \in {unserved, unserved \cup {k}}
        BY <3>2 DEF Daemonize, To
      <4> QED
        BY <4>1
    <3>3. CASE \A k \in Starts : ~StartWeb(k) /\ ~Daemonize(k)
      <4>1. unserved' = unserved
        BY <3>3 DEF vars, Next, UserStep, MainStep, ProcStep, Begin, ReadConf, EndCommand,
            ForkListener, ForkIcon, BeginRequest, EndRequest, Quit, ChildEnds, OpenProc, KillOther,
            ScanOver, SleepOver, Terminate, Exit, ForkChild
      <4> QED
        BY <4>1
    <3> QED
      BY <3>1, <3>2, <3>3 DEF Taken
  <2>2. m # n /\ Live(Main(m)) /\ Searched(n)
    BY <2>1 DEF Live, Searched, Ahead, Waited
  <2>3. Main(m) \in listed[Main(n)] => Main(m) \in visited[Main(n)]
    BY <2>2 DEF IInv, InstanceInv, Looked
  <2> QED
    BY <2>1, <2>2, <2>3
<1> QED
  BY <1>1, IInvAlways, PTL DEF Spec, PortStillHeld

\* Of a file with one line for a limit.
LEMMA ExactLimits == IInv => LimitsExact
<1> SUFFICES ASSUME IInv, NEW n \in 1 .. begun, Len(File(n)) = 1, ~File(n)[1].missing, Status(n) # "none"
             PROVE  LET line  == File(n)[1]
                        key   == line.key
                        text  == line.value
                        size  == key \in Sizes
                        exact == text.digits * Factor(text.suffix)
                        type  == IF size THEN 2 ^ (Word - 1) - 1 ELSE 2 ^ Half - 2
                        named == IF size THEN 2 ^ (Word - 3) - 1 ELSE 2 ^ Half - 2
                    IN  (/\ key \in Counts \cup Sizes
                         /\ WellFormed(text, {"none", "k", "m", "g"} \cup IF size THEN {"t"} ELSE {})
                         /\ ~text.negative
                         /\ ~(size /\ text.suffix # "none" /\ text.digits >= 2 ^ (Word - 1)))
                           => /\ exact \in 1 .. named => Status(n) = "ok"
                              /\ Status(n) = "ok" =>
                                    exact \in 1 .. type /\ configuration[n].option[key] = exact
  BY DEF LimitsExact
<1> DEFINE line  == File(n)[1]
           key   == line.key
           text  == line.value
           size  == key \in Sizes
           exact == text.digits * Factor(text.suffix)
           type  == IF size THEN 2 ^ (Word - 1) - 1 ELSE 2 ^ Half - 2
           named == IF size THEN 2 ^ (Word - 3) - 1 ELSE 2 ^ Half - 2
           top   == CASE ~size                       -> 2 ^ Half - 2
                      [] size /\ text.suffix = "none" -> 2 ^ (Word - 1) - 1
                      [] size /\ text.suffix # "none" -> 2 ^ (Word - 3) - 1
<1> SUFFICES ASSUME key \in Counts \cup Sizes,
                    WellFormed(text, {"none", "k", "m", "g"} \cup IF size THEN {"t"} ELSE {}),
                    ~text.negative,
                    ~(size /\ text.suffix # "none" /\ text.digits >= 2 ^ (Word - 1))
             PROVE  /\ exact \in 1 .. named => Status(n) = "ok"
                    /\ Status(n) = "ok" => exact \in 1 .. type /\ configuration[n].option[key] = exact
  OBVIOUS
<1>9. 1 .. named \subseteq 1 .. top /\ 1 .. top \subseteq 1 .. type
  <2>1. \A a, b, c \in Nat : a <= b /\ b <= c => 1 .. a \subseteq 1 .. b /\ 1 .. b \subseteq 1 .. c
    OBVIOUS
  <2>2. /\ 2 ^ Half - 2 \in Nat /\ 2 ^ (Word - 3) - 1 \in Nat /\ 2 ^ (Word - 1) - 1 \in Nat
        /\ 2 ^ (Word - 3) - 1 <= 2 ^ (Word - 1) - 1
    <3>1. \A p, q \in Nat \ {0} : p < q => p - 1 \in Nat /\ q - 1 \in Nat /\ p - 1 <= q - 1 /\ q - 2 \in Nat
      OBVIOUS
    <3>2. 2 ^ 0 \in Nat \ {0} /\ 2 ^ 0 < 2 ^ Half
      BY WidthsAssumption, PowersGrow
    <3> QED
      BY <3>1, <3>2, Widths
  <2> HIDE DEF size, text
  <2>3. CASE ~size
    BY <2>1, <2>2, <2>3
  <2>4. CASE size /\ text.suffix = "none"
    BY <2>1, <2>2, <2>4
  <2>5. CASE size /\ text.suffix # "none"
    BY <2>1, <2>2, <2>5
  <2> QED
    BY <2>3, <2>4, <2>5
<1>1. n \in Starts
  BY MaxStartsAssumption DEF IInv, TypeOK, Starts
<1>2. configuration[n] = Configured(File(n))
  BY <1>1 DEF IInv, InstanceInv, Understood
<1>3. LegalLine(line)
  <2>1. 1 \in 1 .. Len(File(n))
    OBVIOUS
  <2>2. \A i \in 1 .. Len(File(n)) : LegalLine(File(n)[i])
    BY FileIsLegal DEF IInv
  <2> QED
    BY <2>1, <2>2
<1>4. text \in Numeral
  BY <1>3 DEF LegalLine
<1> DEFINE value == IF size THEN set_int64(text) ELSE set_uint32(text)
<1>5. value = IF exact \in 1 .. top THEN exact ELSE Refused
  <2>1. CASE size
    <3>1. WellFormed(text, {"none", "k", "m", "g", "t"}) /\ ~(text.suffix # "none" /\ text.digits >= 2 ^ (Word - 1))
      BY <2>1 DEF WellFormed
    <3>2. top = IF text.suffix = "none" THEN 2 ^ (Word - 1) - 1 ELSE 2 ^ (Word - 3) - 1
      BY <2>1
    <3> HIDE DEF text, top
    <3>3. set_int64(text) = IF exact \in 1 .. top THEN exact ELSE Refused
      BY <1>4, <3>1, <3>2, SizeIsExact
    <3> QED
      BY <2>1, <3>3
  <2>2. CASE ~size
    <3>1. WellFormed(text, {"none", "k", "m", "g"})
      BY <2>2 DEF WellFormed
    <3>2. top = 2 ^ Half - 2
      BY <2>2
    <3> HIDE DEF text, top
    <3>3. set_uint32(text) = IF exact \in 1 .. top THEN exact ELSE Refused
      BY <1>4, <3>1, <3>2, CountIsExact
    <3> QED
      BY <2>2, <3>3
  <2> QED
    BY <2>1, <2>2
<1> HIDE DEF exact, top, value, type, named
<1>6. value = Refused \/ value \in Nat \ {0}
  <2>1. \A e, t : e \in 1 .. t => e \in Nat \ {0}
    OBVIOUS
  <2> QED
    BY <1>5, <2>1
<1>7. value # Refused <=> exact \in 1 .. top
  <2>1. \A e, t : e \in 1 .. t => e # Refused
    BY DEF Refused
  <2> QED
    BY <1>5, <2>1
<1>8. /\ Configured(File(n)).status = "ok" <=> value # Refused
      /\ value # Refused => Configured(File(n)).option[key] = value
  BY <1>6, OneLine DEF value
<1> QED
  BY <1>2, <1>5, <1>7, <1>8, <1>9 DEF Status

\* A limit in the configuration file that is accepted is what is written and fits its
\* type, and one in the range that the comments and the documentation share is
\* accepted, up to every boundary of the types (set_uint32, set_int64).
THEOREM LimitsAreExact == Spec => []LimitsExact
  BY ExactLimits, IInvAlways, PTL
=============================================================================
