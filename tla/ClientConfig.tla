---------------------------- MODULE ClientConfig ----------------------------
(***************************************************************************)
(* What the program makes of its configuration file: utils/config.c,       *)
(* parse_conf, and the defaults and checks of main.c that follow it.       *)
(*                                                                         *)
(* A file is a sequence of lines.  A number in a line is given by its sign, *)
(* its digits and the suffix behind them, and the width of the C types is  *)
(* a parameter, so that their limits can be met with small numbers.        *)
(***************************************************************************)
EXTENDS Integers, Sequences

CONSTANTS
    Word,          \* bits of int64_t, strtoull and strtol: 64
    Half,          \* bits of uint32_t: 32
    Short,         \* bits of uint16_t: 16
    Thousand,      \* what the suffix k stands for: 1000
    PROTOCOL_MIN, PROTOCOL_MAX,  \* versions this build implements
    Default        \* the default of every option that is a number or a Boolean

ASSUME WidthsAssumption ==
    /\ {Word, Half, Short, Thousand} \subseteq Nat \ {0}
    /\ Thousand > 1 /\ Short < Half /\ Half < Word - 3
ASSUME VersionsAssumption ==
    /\ {PROTOCOL_MIN, PROTOCOL_MAX} \subseteq Nat \ {0}
    /\ PROTOCOL_MIN <= PROTOCOL_MAX /\ PROTOCOL_MAX < 2 ^ Short

Ports    == {"app_port", "app_port_secure", "udp_port", "web_port"}
Versions == {"min_proto_version", "max_proto_version"}
Counts   == {"max_text_length", "max_file_count", "auto_send_max_files"}  \* uint32_t
Sizes    == {"max_file_size", "auto_send_max_file_size"}                  \* int64_t
Booleans == {"secure_mode_enabled", "cut_received_files", "auto_send_text",
             "auto_send_files", "tray_icon"}
Paths    == {"client_cert", "ca_cert", "working_dir", "bind_address"}
Lists    == {"trusted_servers", "auto_send_servers"}
Options  == Ports \cup Versions \cup Counts \cup Sizes \cup Booleans \cup Paths \cup Lists

\* The defaults fit the types of the options, and secure mode is off.
ASSUME DefaultAssumption ==
    /\ \A o \in Ports    : Default[o] \in 1 .. 2 ^ Short - 1
    /\ \A o \in Counts   : Default[o] \in 1 .. 2 ^ Half - 2
    /\ \A o \in Sizes    : Default[o] \in 1 .. 2 ^ (Word - 1) - 1
    /\ \A o \in Booleans : Default[o] \in {0, 1}
    /\ Default["secure_mode_enabled"] = 0

-----------------------------------------------------------------------------
(* Numbers *)

Refused == -1  \* error_exit

\* What a suffix multiplies with, where it is allowed.
Factor(suffix) ==
    CASE suffix = "none"  -> 1
      [] suffix = "k" -> Thousand
      [] suffix = "m" -> Thousand * Thousand
      [] suffix = "g" -> Thousand * Thousand * Thousand
      [] suffix = "t" -> Thousand * Thousand * Thousand * Thousand

\* A word as the signed number it is read as.
Signed(word) == IF word < 2 ^ (Word - 1) THEN word ELSE word - 2 ^ Word

\* Too many digits give the largest word, a minus sign its complement.
strtoull(text) ==
    IF text.digits >= 2 ^ Word THEN 2 ^ Word - 1
    ELSE IF text.negative THEN (2 ^ Word - text.digits) % 2 ^ Word
         ELSE text.digits

WellFormed(text, suffixes) ==
    text.suffix \in suffixes /\ ~(text.suffix # "none" /\ text.more)

\* Mutant of set_int64: the limit is that of the type.
set_int64_unlimited(text) ==
    LET product == Signed((Signed(strtoull(text)) * Factor(text.suffix)) % 2 ^ Word)
    IN  IF WellFormed(text, {"none", "k", "m", "g", "t"}) /\ product > 0 THEN product ELSE Refused

\* The limit applies to numbers with a suffix only, and a number that has
\* become negative is below it; then the product wraps around.
set_int64(text) ==
    LET value   == Signed(strtoull(text))
        product == Signed((value * Factor(text.suffix)) % 2 ^ Word)
    IN  IF /\ WellFormed(text, {"none", "k", "m", "g", "t"})
           /\ text.suffix = "none" \/ value <= (2 ^ (Word - 3) - 1) \div Factor(text.suffix)
           /\ product > 0
        THEN product ELSE Refused

set_uint32(text) ==
    LET value   == Signed(strtoull(text))
        product == value * Factor(text.suffix)
    IN  IF /\ WellFormed(text, {"none", "k", "m", "g"})
           /\ value >= 0 /\ value <= (2 ^ Half - 2) \div Factor(text.suffix)
           /\ product > 0 /\ product < 2 ^ Half - 1
        THEN product ELSE Refused

\* strtol keeps the sign.
set_uint16(text) ==
    IF /\ text.suffix = "none"
       /\ ~text.negative \/ text.digits = 0
       /\ text.digits < 2 ^ Short
    THEN text.digits ELSE Refused

-----------------------------------------------------------------------------
(* Lists of servers *)

\* fscanf(f, "%511[^\n]%*c", server) matches nothing in an empty line, and
\* does not go past it either: what comes after is never read, and the entry
\* before is taken again and again.
get_server_list(entries) ==
    LET stops == {i \in DOMAIN entries : entries[i] \in {"empty", "unreadable"}}
    IN  IF stops = {} THEN "ok"
        ELSE IF entries[CHOOSE i \in stops : \A j \in stops : i <= j] = "empty"
             THEN "endless" ELSE "error"

\* The addresses that validate_ipv4 accepts, in any order; other entries are
\* comments, blanks, and what is no address.
get_server_addresses(entries) ==
    {entries[i] : i \in DOMAIN entries} \ {"comment", "blank", "invalid"}

-----------------------------------------------------------------------------
(* The file *)

Numeral == [negative : BOOLEAN, digits : Nat, suffix : STRING, more : BOOLEAN]

\* A line with its key, "none" if there is nothing before the "=", and a value
\* of the option's kind, unless the value is missing.  "nothing" is a line
\* without "=".
LegalLine(line) ==
    /\ line.key \in Options \cup {"none", "unknown", "nothing", "comment"}
    /\ ~line.missing =>
          /\ line.key \in Ports \cup Versions \cup Counts \cup Sizes => line.value \in Numeral
          /\ line.key \in Booleans => line.value \in {Refused, 0, 1}

\* The options, and "endless" or "error" where the program does not get on.
Unset ==
    [status |-> "ok",
     option |-> [o \in Options |-> IF o \in Booleans THEN -1 ELSE 0],
     servers |-> {}]

Put(cfg, key, value) ==
    IF value = Refused THEN [cfg EXCEPT !.status = "error"]
                       ELSE [cfg EXCEPT !.option[key] = value]

PutServers(cfg, key, entries) ==
    IF get_server_list(entries) # "ok" THEN [cfg EXCEPT !.status = get_server_list(entries)]
    ELSE IF key = "trusted_servers" THEN Put(cfg, key, 1)
    ELSE [cfg EXCEPT !.servers = get_server_addresses(entries)]

\* A later line of the same key wins.  Lines without "=" and comments are
\* skipped; a missing key or value is an error, an unknown key is not.
parse_line(cfg, line) ==
    IF cfg.status # "ok" \/ line.key \in {"nothing", "comment"} THEN cfg
    ELSE IF line.key = "none" \/ line.missing THEN [cfg EXCEPT !.status = "error"]
    ELSE CASE line.key \in Ports \cup Versions -> Put(cfg, line.key, set_uint16(line.value))
           [] line.key \in Counts              -> Put(cfg, line.key, set_uint32(line.value))
           [] line.key \in Sizes               -> Put(cfg, line.key, set_int64(line.value))
           [] line.key \in Lists               -> PutServers(cfg, line.key, line.value)
           [] line.key \in Booleans \cup Paths -> Put(cfg, line.key, line.value)
           [] line.key = "unknown"             -> cfg

parse_conf(file) ==
    LET after[n \in 0 .. Len(file)] ==
            IF n = 0 THEN Unset ELSE parse_line(after[n - 1], file[n])
    IN  after[Len(file)]

\* Mutant of Clamped: the larger version is compared with its own limit only.
ClampedApart(min, max) ==
    LET low == IF min < PROTOCOL_MIN THEN PROTOCOL_MIN
               ELSE IF min > PROTOCOL_MAX THEN PROTOCOL_MAX ELSE min
    IN  <<low, IF max = 0 \/ max > PROTOCOL_MAX THEN PROTOCOL_MAX ELSE max>>

\* The range of versions, cut to what this build implements.
Clamped(min, max) ==
    LET low == IF min < PROTOCOL_MIN THEN PROTOCOL_MIN
               ELSE IF min > PROTOCOL_MAX THEN PROTOCOL_MAX ELSE min
    IN  <<low, IF max < low \/ max > PROTOCOL_MAX THEN PROTOCOL_MAX ELSE max>>

\* A list without servers is freed: every server is allowed then.
apply_default_conf(cfg) ==
    LET range == Clamped(cfg.option["min_proto_version"], cfg.option["max_proto_version"])
    IN  [cfg EXCEPT !.option = [o \in Options |->
            CASE o = "min_proto_version" -> range[1]
              [] o = "max_proto_version" -> range[2]
              [] o \in Ports \cup Counts \cup Sizes -> IF @[o] <= 0 THEN Default[o] ELSE @[o]
              [] o \in Booleans -> IF @[o] < 0 THEN Default[o] ELSE @[o]
              [] OTHER -> @[o]]]

\* Before anything else happens: secure mode needs its files, and the working
\* directory, if there is one, has to exist.
Checked(cfg) ==
    IF \/ /\ cfg.option["secure_mode_enabled"] = 1
          /\ \E o \in {"client_cert", "ca_cert", "trusted_servers"} : cfg.option[o] = 0
       \/ cfg.option["working_dir"] = 2
    THEN [cfg EXCEPT !.status = "error"] ELSE cfg

\* The configuration the program runs with after reading a file.
Configured(file) ==
    LET cfg == parse_conf(file)
    IN  IF cfg.status = "ok" THEN Checked(apply_default_conf(cfg)) ELSE cfg
=============================================================================
